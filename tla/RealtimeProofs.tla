---------------------------- MODULE RealtimeProofs ----------------------------
(***************************************************************************)
(* Theorems about Realtime, for any number of sockets, clients and         *)
(* commands, any replay limit, with or without send failures and           *)
(* overlapping sockets.                                                    *)
(***************************************************************************)
EXTENDS Realtime, FiniteSetTheorems, TLAPS

----------------------------------------------------------------------------
(* Sequences.                                                              *)

\* Appending an event adds just that event to those of the sequence.
LEMMA RangeOfAppend ==
    ASSUME NEW S, NEW s \in Seq(S), NEW e \in S
    PROVE  /\ Append(s, e) \in Seq(S)
           /\ Range(Append(s, e)) = Range(s) \cup {e}
<1>1. Append(s, e) \in Seq(S) /\ Len(Append(s, e)) = Len(s) + 1
  OBVIOUS
<1>2. \A i \in 1..Len(s) : Append(s, e)[i] = s[i]
  OBVIOUS
<1>3. Append(s, e)[Len(s) + 1] = e
  OBVIOUS
<1>4. DOMAIN s = 1..Len(s) /\ DOMAIN Append(s, e) = 1..(Len(s) + 1)
  BY <1>1
<1>5. Range(s) \subseteq Range(Append(s, e))
  BY <1>2, <1>4 DEF Range
<1>6. e \in Range(Append(s, e))
  BY <1>3, <1>4 DEF Range
<1>7. ASSUME NEW x \in Range(Append(s, e)) PROVE x \in Range(s) \cup {e}
  BY <1>2, <1>3, <1>4 DEF Range
<1> QED BY <1>1, <1>5, <1>6, <1>7

\* A non-empty sequence holds its head and what its tail holds.
LEMMA RangeOfTail ==
    ASSUME NEW S, NEW s \in Seq(S), s # <<>>
    PROVE  /\ Head(s) \in S /\ Tail(s) \in Seq(S)
           /\ Len(Tail(s)) = Len(s) - 1
           /\ Range(s) = Range(Tail(s)) \cup {Head(s)}
<1>1. Head(s) \in S /\ Tail(s) \in Seq(S) /\ Len(Tail(s)) = Len(s) - 1 /\ Len(s) > 0
  OBVIOUS
<1>2. \A i \in 1..Len(Tail(s)) : Tail(s)[i] = s[i + 1]
  OBVIOUS
<1>3. Head(s) = s[1]
  OBVIOUS
<1>4. DOMAIN s = 1..Len(s) /\ DOMAIN Tail(s) = 1..(Len(s) - 1)
  BY <1>1
<1>5. Range(Tail(s)) \cup {Head(s)} \subseteq Range(s)
  BY <1>1, <1>2, <1>3, <1>4 DEF Range
<1>6. ASSUME NEW x \in Range(s) PROVE x \in Range(Tail(s)) \cup {Head(s)}
  <2>1. PICK i \in 1..Len(s) : x = s[i]
    BY <1>4 DEF Range
  <2>2. CASE i = 1
    BY <2>1, <2>2, <1>3
  <2>3. CASE i # 1
    <3>1. i - 1 \in 1..Len(Tail(s)) /\ Tail(s)[i - 1] = s[i]
      BY <2>1, <2>3, <1>1, <1>2
    <3> QED BY <3>1, <2>1, <1>1, <1>4 DEF Range
  <2> QED BY <2>2, <2>3
<1> QED BY <1>1, <1>5, <1>6

\* The store and the queues take the new event and drop at most their oldest.
LEMMA PushBoundedFacts ==
    ASSUME NEW s \in Seq(Event), NEW e \in Event, Len(s) <= ReplayLimit
    PROVE  /\ PushBounded(s, e) \in Seq(Event)
           /\ Len(PushBounded(s, e)) <= ReplayLimit
           /\ Range(PushBounded(s, e)) \subseteq Range(s) \cup {e}
           /\ e \in Range(PushBounded(s, e))
           /\ Len(s) < ReplayLimit => Range(PushBounded(s, e)) = Range(s) \cup {e}
<1> USE RealtimeAssumption
<1>1. Append(s, e) \in Seq(Event) /\ Append(s, e) # <<>> /\ Len(Append(s, e)) = Len(s) + 1
  OBVIOUS
<1>2. Range(Append(s, e)) = Range(s) \cup {e}
  BY RangeOfAppend
<1>3. CASE Len(Append(s, e)) > ReplayLimit
  <2>1. PushBounded(s, e) = Tail(Append(s, e)) /\ Len(s) = ReplayLimit
    BY <1>1, <1>3 DEF PushBounded
  <2>2. /\ Tail(Append(s, e)) \in Seq(Event)
        /\ Len(Tail(Append(s, e))) = Len(s)
        /\ Range(Tail(Append(s, e))) \subseteq Range(Append(s, e))
    <3> DEFINE a == Append(s, e)
    <3> HIDE DEF a
    <3>1. a \in Seq(Event) /\ a # <<>> /\ Len(a) = Len(s) + 1
      BY <1>1 DEF a
    <3>2. Tail(a) \in Seq(Event) /\ Len(Tail(a)) = Len(a) - 1 /\ Range(Tail(a)) \subseteq Range(a)
      BY <3>1, RangeOfTail
    <3> QED BY <3>1, <3>2 DEF a
  <2>3. e \in Range(Tail(Append(s, e)))
    <3> DEFINE t == Tail(Append(s, e))
    <3>1. Len(s) \in 1..Len(t) /\ DOMAIN t = 1..Len(t)
      BY <2>1, <2>2
    <3>2. t[Len(s)] = Append(s, e)[Len(s) + 1]
      BY <1>1, <2>1, <2>2
    <3>3. Append(s, e)[Len(s) + 1] = e
      OBVIOUS
    <3> QED BY <3>1, <3>2, <3>3 DEF Range
  <2> QED BY <1>2, <2>1, <2>2, <2>3
<1>4. CASE ~ (Len(Append(s, e)) > ReplayLimit)
  <2>1. PushBounded(s, e) = Append(s, e)
    BY <1>4 DEF PushBounded
  <2> QED BY <1>1, <1>2, <1>4, <2>1
<1> QED BY <1>3, <1>4

----------------------------------------------------------------------------
(* Types.                                                                  *)

\* A handler busy with a command serves an attached socket, which has an
\* identity, and one that publishes has an event to publish.
TaskShape ==
    \A c \in Conns :
      /\ status[c] = "attached" => identity[c] # None
      /\ task[c].stage # "idle" =>
           /\ status[c] = "attached"
           /\ task[c].cmd \in Commands /\ task[c].seq \in Nat \ {0}
      /\ task[c].stage \in {"publishing", "stored"} => task[c].events # <<>>

TypeInv == TypeOK /\ TaskShape


\* Initially every variable has its type.
LEMMA TypeInit == Init => TypeInv
BY RealtimeAssumption DEF Init, TypeInv, TypeOK, TaskShape, Task, Stages, Idle, Event

\* Pruning keeps a part of the results.
LEMMA PruneFacts ==
    ASSUME NEW f, NEW old, NEW s
    PROVE  /\ DOMAIN prune_idempotency_results(f, old, s) \subseteq DOMAIN f
           /\ \A k \in DOMAIN prune_idempotency_results(f, old, s) :
                prune_idempotency_results(f, old, s)[k] = f[k]
BY DEF prune_idempotency_results, Newest, Restrict

\* What advancing a handler makes of its task.
LEMMA AdvanceFacts ==
    ASSUME task \in [Conns -> Task], NEW c \in Conns,
           NEW st \in Stages, NEW ev \in Seq(Event), Advance(c, st, ev)
    PROVE  /\ task' \in [Conns -> Task]
           /\ task'[c].stage = st /\ task'[c].events = ev
           /\ task'[c].cmd = task[c].cmd /\ task'[c].seq = task[c].seq
           /\ \A d \in Conns \ {c} : task'[d] = task[d]
<1>1. [stage |-> st, cmd |-> task[c].cmd, seq |-> task[c].seq, events |-> ev] \in Task
  BY DEF Task
<1> QED BY <1>1 DEF Advance

\* A handler that is finished is idle.
LEMMA FinishFacts ==
    ASSUME task \in [Conns -> Task], NEW c \in Conns, Finish(c)
    PROVE  /\ task' \in [Conns -> Task]
           /\ task'[c].stage = "idle" /\ task'[c].events = <<>>
           /\ \A d \in Conns \ {c} : task'[d] = task[d]
<1>1. Idle \in Task
  BY DEF Idle, Task, Stages
<1> QED BY <1>1 DEF Finish, Idle

\* Every step keeps the types.
LEMMA TypeStep == TypeInv /\ [Next]_vars => TypeInv'
<1> SUFFICES ASSUME TypeInv, [Next]_vars PROVE TypeInv'
  OBVIOUS
<1> USE RealtimeAssumption DEF TypeInv, shared, socket, client
<1>a. AppliedSeqs \subseteq Nat /\ current_sequence \in Nat
  <2> DEFINE Entry == [cmd : Commands, id : Nat, seq : Nat \ {0}]
  <2>0. applied \in Seq(Entry)
    BY DEF TypeOK
  <2>1. \A i \in DOMAIN applied : applied[i].seq \in Nat
    <3> SUFFICES ASSUME NEW i \in DOMAIN applied PROVE applied[i].seq \in Nat
      OBVIOUS
    <3>1. applied[i] \in Entry
      <4> HIDE DEF Entry
      <4> QED BY <2>0
    <3> QED BY <3>1
  <2> QED BY <2>1 DEF TypeOK, AppliedSeqs, current_sequence
<1>b. ASSUME NEW r
      PROVE  issue_connection_identity(r) =>
               /\ ResumedIdentity(r) \in Nat
               /\ connectionSequence' \in Nat \ {0}
               /\ DOMAIN resumeTokens' \subseteq Nat
               /\ \A t \in DOMAIN resumeTokens' : resumeTokens'[t] \in Nat
  BY DEF TypeOK, issue_connection_identity, ResumedIdentity, consume_resume_token, Put, Restrict
<1>c. ASSUME NEW s \in Seq(Event)
      PROVE  LET f == prune_idempotency_results(results, aged, s) IN
               /\ DOMAIN f \subseteq (Nat \X Commands)
               /\ \A k \in DOMAIN f : f[k] \in [seq : Nat, emitted : BOOLEAN]
  BY PruneFacts DEF TypeOK
<1>d. ASSUME NEW c \in Conns, task[c].stage # "idle"
      PROVE  identity[c] \in Nat /\ task[c] \in Task /\ task[c].cmd \in Commands /\ task[c].seq \in Nat \ {0}
  BY <1>d DEF TypeOK, TaskShape
<1>1. ASSUME NEW c \in Conns, NEW w \in Clients, Connect(c, w) PROVE TypeInv'
  BY <1>1 DEF Connect, TypeOK, TaskShape
<1>2. ASSUME NEW c \in Conns, Disconnect(c) PROVE TypeInv'
  <2>1. Idle \in Task /\ Idle.stage = "idle"
    BY DEF Idle, Task, Stages
  <2>2. TypeOK'
    BY <1>2, <2>1 DEF Disconnect, Close, TypeOK
  <2>3. TaskShape'
    BY <1>2, <2>1 DEF Disconnect, Close, TypeOK, TaskShape
  <2> QED BY <2>2, <2>3
<1>3. ASSUME NEW c \in Conns, HelloSnapshot(c) PROVE TypeInv'
  BY <1>3, <1>a DEF HelloSnapshot, TypeOK, TaskShape, Idle
<1>4. ASSUME NEW c \in Conns, NEW r, NEW l, HelloAttach(c, r, l) PROVE TypeInv'
  <2>1. ReplayHighWater \in Nat
    <3>1. CASE store = <<>>
      BY <3>1, <1>a DEF ReplayHighWater
    <3>2. CASE store # <<>>
      <4>1. store[Len(store)] \in Event
        BY <3>2 DEF TypeOK
      <4> QED BY <4>1, <3>2 DEF ReplayHighWater, Event
    <3> QED BY <3>1, <3>2
  <2>2. AttachHighWater(r, l) \in Nat
    BY <2>1, <1>a DEF AttachHighWater
  <2>3. Range(store) \subseteq Event
    BY DEF TypeOK, Range
  <2>4. AttachKnown(c, r, l) \subseteq Nat
    BY <2>3 DEF AttachKnown, ReplayEvents, Event, TypeOK
  <2>5. identity' \in [Conns -> Nat \cup {None}] /\ identity'[c] # None
    BY <1>4, <1>b DEF HelloAttach, TypeOK
  <2>6. TypeOK'
    BY <1>4, <1>a, <1>b, <2>2, <2>4, <2>5 DEF HelloAttach, TypeOK
  <2>7. TaskShape'
    BY <1>4, <2>5 DEF HelloAttach, TaskShape, TypeOK
  <2> QED BY <2>6, <2>7
<1>5. ASSUME NEW c \in Conns, NEW r, HelloFails(c, r) PROVE TypeInv'
  BY SMTT(30), <1>5, <1>b DEF HelloFails, Close, TypeOK, TaskShape, Task, Stages, Idle
<1>6. ASSUME NEW c \in Conns, NEW k \in Commands, BeginCommand(c, k) PROVE TypeInv'
  <2>1. task' \in [Conns -> Task]
    BY <1>6 DEF BeginCommand, TypeOK, Task, Stages
  <2>2. TypeOK'
    BY SMTT(30), <1>6, <1>c, <2>1 DEF BeginCommand, TypeOK
  <2>3. TaskShape'
    BY <1>6 DEF BeginCommand, CommandArrives, TypeOK, TaskShape
  <2> QED BY <2>2, <2>3
<1>7. ASSUME NEW c \in Conns, NEW k \in Commands, CachedCommand(c, k) PROVE TypeInv'
  <2>1. <<identity[c], k>> \in DOMAIN results
    BY <1>7, PruneFacts DEF CachedCommand, graph_ack_from_cached, Cached
  <2>2. results[<<identity[c], k>>].seq \in Nat
    BY <2>1 DEF TypeOK
  <2>3. known' \in [Conns -> SUBSET Nat]
    BY <1>7, <2>2 DEF CachedCommand, graph_ack_from_cached, TypeOK
  <2>4. TypeOK'
    BY <1>7, <1>c, <2>3 DEF CachedCommand, graph_ack_from_cached, TypeOK
  <2> QED BY <1>7, <2>4 DEF CachedCommand, graph_ack_from_cached, TaskShape
<1>8. ASSUME NEW c \in Conns, ApplyCommand(c) PROVE TypeInv'
  <2> DEFINE e == [seq |-> task[c].seq, graph |-> TRUE]
  <2>1. task[c].stage # "idle"
    BY <1>8 DEF ApplyCommand
  <2>2. <<e>> \in Seq(Event)
    BY <2>1, <1>d DEF Event
  <2> HIDE DEF e
  <2>a. task \in [Conns -> Task] /\ Advance(c, "applied", <<e>>) /\ "applied" \in Stages
    BY <1>8 DEF ApplyCommand, TypeOK, Stages, e
  <2>3. /\ task' \in [Conns -> Task]
        /\ task'[c].stage = "applied"
        /\ task'[c].cmd = task[c].cmd /\ task'[c].seq = task[c].seq
        /\ \A d \in Conns \ {c} : task'[d] = task[d]
    BY <2>a, <2>2, AdvanceFacts
  <2>4. applied' \in Seq([cmd : Commands, id : Nat, seq : Nat \ {0}])
    BY <1>8, <1>d, <2>1 DEF ApplyCommand, TypeOK
  <2>5. TypeOK'
    BY <1>8, <2>3, <2>4 DEF ApplyCommand, TypeOK
  <2>6. TaskShape'
    BY <1>8, <2>3 DEF ApplyCommand, TaskShape
  <2> QED BY <2>5, <2>6
<1>9. ASSUME NEW c \in Conns, RejectCommand(c) PROVE TypeInv'
  <2>a. task \in [Conns -> Task] /\ Advance(c, "applied", <<>>) /\ "applied" \in Stages
    BY <1>9 DEF RejectCommand, TypeOK, Stages
  <2>b. <<>> \in Seq(Event)
    OBVIOUS
  <2>1. /\ task' \in [Conns -> Task]
        /\ task'[c].stage = "applied"
        /\ task'[c].cmd = task[c].cmd /\ task'[c].seq = task[c].seq
        /\ \A d \in Conns \ {c} : task'[d] = task[d]
    BY <2>a, <2>b, AdvanceFacts
  <2>2. TypeOK'
    BY <1>9, <2>1 DEF RejectCommand, TypeOK
  <2>3. TaskShape'
    BY <1>9, <2>1 DEF RejectCommand, TaskShape
  <2> QED BY <2>2, <2>3
<1>10. ASSUME NEW c \in Conns, Remember(c) PROVE TypeInv'
  <2> DEFINE e == [seq |-> eventSequence, graph |-> FALSE]
             entry == [seq |-> task[c].seq, emitted |-> task[c].events # <<>>]
             put == Put(results, <<identity[c], task[c].cmd>>, entry)
  <2>1. task[c].stage # "idle"
    BY <1>10 DEF Remember
  <2>2. task[c].events \in Seq(Event) /\ Append(task[c].events, e) \in Seq(Event)
    BY <2>1, <1>d DEF Event, TypeOK, Task
  <2>3. /\ task' \in [Conns -> Task]
        /\ task'[c].stage = "remembered"
        /\ task'[c].cmd = task[c].cmd /\ task'[c].seq = task[c].seq
        /\ \A d \in Conns \ {c} : task'[d] = task[d]
    <3>1. task \in [Conns -> Task] /\ "remembered" \in Stages
      BY DEF TypeOK, Stages
    <3>2. \/ Advance(c, "remembered", task[c].events)
          \/ Advance(c, "remembered", Append(task[c].events, e))
      BY <1>10 DEF Remember
    <3> HIDE DEF e
    <3> QED BY <2>2, <3>1, <3>2, AdvanceFacts
  <2>4. /\ DOMAIN put \subseteq (Nat \X Commands)
        /\ \A k \in DOMAIN put : put[k] \in [seq : Nat, emitted : BOOLEAN]
    BY <2>1, <1>d DEF Put, TypeOK
  <2>5. results' = prune_idempotency_results(put, aged, store)
    BY <1>10 DEF Remember
  <2> HIDE DEF put
  <2>6. /\ DOMAIN results' \subseteq (Nat \X Commands)
        /\ \A k \in DOMAIN results' : results'[k] \in [seq : Nat, emitted : BOOLEAN]
    BY <2>4, <2>5, PruneFacts
  <2>7. eventSequence' \in Nat \ {0}
    BY <1>10 DEF Remember, TypeOK
  <2>8. TypeOK'
    BY <1>10, <2>3, <2>6, <2>7 DEF Remember, TypeOK
  <2>9. TaskShape'
    BY <1>10, <2>3 DEF Remember, TaskShape
  <2> QED BY <2>8, <2>9
<1>11. ASSUME NEW c \in Conns, AckSent(c) PROVE TypeInv'
  <2>0. task[c].events \in Seq(Event)
    BY DEF TypeOK, Task
  <2>a. task \in [Conns -> Task] /\ "publishing" \in Stages
    BY DEF TypeOK, Stages
  <2>1. /\ task' \in [Conns -> Task]
        /\ \/ task'[c].stage = "idle"
           \/ /\ task'[c].stage = "publishing" /\ task'[c].events # <<>>
              /\ task'[c].cmd = task[c].cmd /\ task'[c].seq = task[c].seq
        /\ \A d \in Conns \ {c} : task'[d] = task[d]
    <3>1. CASE task[c].events = <<>>
      <4>1. Finish(c)
        BY <1>11, <3>1 DEF AckSent
      <4> QED BY <2>a, <4>1, FinishFacts
    <3>2. CASE task[c].events # <<>>
      <4>1. Advance(c, "publishing", task[c].events)
        BY <1>11, <3>2 DEF AckSent
      <4> QED BY <2>0, <2>a, <3>2, <4>1, AdvanceFacts
    <3> QED BY <3>1, <3>2
  <2>2. TypeOK'
    BY <1>11, <2>1 DEF AckSent, TypeOK
  <2>3. TaskShape'
    BY <1>11, <2>1 DEF AckSent, TaskShape
  <2> QED BY <2>2, <2>3
<1>12. ASSUME NEW c \in Conns, AckFails(c) PROVE TypeInv'
  BY SMTT(30), <1>12 DEF AckFails, Close, TypeOK, TaskShape, Task, Stages, Idle
<1>13. ASSUME NEW c \in Conns, PublishToStore(c) PROVE TypeInv'
  <2>1. task[c].events \in Seq(Event) /\ task[c].events # <<>>
    BY <1>13 DEF PublishToStore, TypeOK, Task, TaskShape
  <2>2. Head(task[c].events) \in Event
    BY <2>1, RangeOfTail
  <2>3. store' \in Seq(Event) /\ Len(store') <= ReplayLimit
    BY <1>13, <2>2, PushBoundedFacts DEF PublishToStore, TypeOK
  <2>a. task \in [Conns -> Task] /\ Advance(c, "stored", task[c].events) /\ "stored" \in Stages
    BY <1>13 DEF PublishToStore, TypeOK, Stages
  <2>4. /\ task' \in [Conns -> Task]
        /\ task'[c].stage = "stored" /\ task'[c].events # <<>>
        /\ task'[c].cmd = task[c].cmd /\ task'[c].seq = task[c].seq
        /\ \A d \in Conns \ {c} : task'[d] = task[d]
    BY <2>1, <2>a, AdvanceFacts
  <2>5. TypeOK'
    BY <1>13, <1>c, <2>3, <2>4 DEF PublishToStore, TypeOK
  <2>6. TaskShape'
    BY <1>13, <2>4 DEF PublishToStore, TaskShape
  <2> QED BY <2>5, <2>6
<1>14. ASSUME NEW c \in Conns, PublishToQueues(c) PROVE TypeInv'
  <2> DEFINE e == Head(task[c].events)
  <2>1. task[c].events \in Seq(Event) /\ task[c].events # <<>>
    BY <1>14 DEF PublishToQueues, TypeOK, Task, TaskShape
  <2>2. e \in Event /\ Tail(task[c].events) \in Seq(Event)
    BY <2>1, RangeOfTail
  <2> HIDE DEF e
  <2>3. \A d \in Conns : /\ PushBounded(queue[d], e) \in Seq(Event)
                         /\ Len(PushBounded(queue[d], e)) <= ReplayLimit
    BY <2>2, PushBoundedFacts DEF TypeOK
  <2>4. queue' = [d \in Conns |-> IF d \in Open THEN PushBounded(queue[d], e) ELSE queue[d]]
    BY <1>14 DEF PublishToQueues, e
  <2>5. queue' \in [Conns -> Seq(Event)] /\ \A d \in Conns : Len(queue'[d]) <= ReplayLimit
    BY <2>3, <2>4 DEF TypeOK
  <2>a. task \in [Conns -> Task] /\ "publishing" \in Stages
    BY DEF TypeOK, Stages
  <2>6. /\ task' \in [Conns -> Task]
        /\ \/ task'[c].stage = "idle"
           \/ /\ task'[c].stage = "publishing" /\ task'[c].events # <<>>
              /\ task'[c].cmd = task[c].cmd /\ task'[c].seq = task[c].seq
        /\ \A d \in Conns \ {c} : task'[d] = task[d]
    <3>1. CASE Tail(task[c].events) = <<>>
      <4>1. Finish(c)
        BY <1>14, <3>1 DEF PublishToQueues
      <4> QED BY <2>a, <4>1, FinishFacts
    <3>2. CASE Tail(task[c].events) # <<>>
      <4>1. Advance(c, "publishing", Tail(task[c].events))
        BY <1>14, <3>2 DEF PublishToQueues
      <4> QED BY ZenonT(40), <2>2, <2>a, <3>2, <4>1, AdvanceFacts
    <3> QED BY <3>1, <3>2
  <2>7. broadcast' \subseteq Event /\ lagged' \in [Conns -> BOOLEAN]
    BY <1>14, <2>2 DEF PublishToQueues, TypeOK, e
  <2>8. TypeOK'
    BY <1>14, <2>5, <2>6, <2>7 DEF PublishToQueues, TypeOK
  <2>9. TaskShape'
    BY <1>14, <2>6 DEF PublishToQueues, TaskShape
  <2> QED BY <2>8, <2>9
<1>15. ASSUME NEW c \in Conns, ReceiveEvent(c) PROVE TypeInv'
  <2>1. queue[c] \in Seq(Event) /\ queue[c] # <<>> /\ Len(queue[c]) <= ReplayLimit
    BY <1>15 DEF ReceiveEvent, TypeOK
  <2>2. Head(queue[c]) \in Event /\ Tail(queue[c]) \in Seq(Event) /\ Len(Tail(queue[c])) = Len(queue[c]) - 1
    BY <2>1, RangeOfTail
  <2>3. Head(queue[c]).seq \in Nat
    BY <2>2 DEF Event
  <2>4. queue' \in [Conns -> Seq(Event)] /\ \A d \in Conns : Len(queue'[d]) <= ReplayLimit
    BY <1>15, <2>1, <2>2 DEF ReceiveEvent, TypeOK
  <2>5. known' \in [Conns -> SUBSET Nat] /\ cursor' \in [Clients -> Nat \cup {None}]
    <3> DEFINE e == Head(queue[c])
    <3> HIDE DEF e
    <3>1. e.seq \in Nat
      BY <2>3 DEF e
    <3>2. CASE e.seq <= highWater[c]
      BY <1>15, <3>2 DEF ReceiveEvent, TypeOK, e
    <3>3. CASE ~ (e.seq <= highWater[c])
      <4>1. /\ known' = [known EXCEPT ![c] = @ \cup {s \in {e.seq} : e.graph}]
            /\ cursor' = [cursor EXCEPT ![peer[c]] = e.seq]
        BY <1>15, <3>3 DEF ReceiveEvent, e
      <4> QED BY <3>1, <4>1 DEF TypeOK
    <3> QED BY <3>2, <3>3
  <2>6. TypeOK'
    BY <1>15, <2>4, <2>5 DEF ReceiveEvent, TypeOK
  <2> QED BY <1>15, <2>6 DEF ReceiveEvent, TaskShape
<1>16. ASSUME NEW c \in Conns, ReceiveLagged(c) PROVE TypeInv'
  <2>1. known' \in [Conns -> SUBSET Nat] /\ cursor' \in [Clients -> Nat \cup {None}]
    <3>1. CASE identity[c] = None
      BY <1>16, <3>1 DEF ReceiveLagged, TypeOK
    <3>2. CASE identity[c] # None
      <4>1. /\ known' = [known EXCEPT ![c] = AppliedSeqs]
            /\ cursor' = [cursor EXCEPT ![peer[c]] = current_sequence]
        BY <1>16, <3>2 DEF ReceiveLagged
      <4> QED BY <4>1, <1>a DEF TypeOK
    <3> QED BY <3>1, <3>2
  <2>2. TypeOK'
    BY <1>16, <2>1 DEF ReceiveLagged, TypeOK
  <2> QED BY <1>16, <2>2 DEF ReceiveLagged, TaskShape
<1>17. ASSUME NEW t \in DOMAIN resumeTokens, ExpireToken(t) PROVE TypeInv'
  BY <1>17 DEF ExpireToken, TypeOK, TaskShape, Restrict
<1>18. ASSUME NEW k \in DOMAIN results, ResultAges(k) PROVE TypeInv'
  <2>1. results[k].seq \in Nat
    BY DEF TypeOK
  <2> QED BY <1>18, <2>1 DEF ResultAges, TypeOK, TaskShape
<1>19. CASE UNCHANGED vars
  BY <1>19 DEF vars, TypeOK, TaskShape
<1> QED
  BY <1>1, <1>2, <1>3, <1>4, <1>5, <1>6, <1>7, <1>8, <1>9, <1>10, <1>11, <1>12,
     <1>13, <1>14, <1>15, <1>16, <1>17, <1>18, <1>19
     DEF Next, Attach, HandleCommand, Receive

\* Every variable keeps its type, with any number of sockets, clients and
\* commands: store and queues stay within the replay limit, and a handler
\* never publishes without an event (publish, handle_graph_command).
THEOREM TypeCorrect == Spec => [](TypeOK /\ TaskShape)
<1>1. Init => TypeInv
  BY TypeInit
<1>2. TypeInv /\ [Next]_vars => TypeInv'
  BY TypeStep
<1> QED BY <1>1, <1>2, PTL DEF Spec, TypeInv

----------------------------------------------------------------------------
(* Resume tokens.                                                          *)

\* Tokens and identities come from one counter that only grows.
TokensIssued ==
    \A t \in DOMAIN resumeTokens : t < connectionSequence /\ resumeTokens[t] < connectionSequence

TokenInv == TypeInv /\ TokensIssued /\ OneTokenPerIdentity

\* consume_resume_token takes the old token of an identity away before
\* issue_connection_identity makes a new one.
LEMMA TokenStep == TokenInv /\ [Next]_vars => TokenInv'
<1> SUFFICES ASSUME TokenInv, [Next]_vars PROVE TokenInv'
  OBVIOUS
<1>1. TypeInv'
  BY TypeStep DEF TokenInv
<1>2. ASSUME NEW r, issue_connection_identity(r) PROVE (TokensIssued /\ OneTokenPerIdentity)'
  <2> DEFINE id == ResumedIdentity(r)
             rest == consume_resume_token(r)
  <2>1. connectionSequence \in Nat /\ connectionSequence' = connectionSequence + 1
    BY <1>2 DEF TokenInv, TypeInv, TypeOK, issue_connection_identity
  <2>2. /\ DOMAIN rest = DOMAIN resumeTokens \ {r}
        /\ \A t \in DOMAIN rest : rest[t] = resumeTokens[t] /\ rest[t] \in Nat /\ t \in Nat
    BY DEF TokenInv, TypeInv, TypeOK, consume_resume_token, Restrict
  <2>3. /\ id \in Nat /\ id <= connectionSequence
        /\ \A t \in DOMAIN rest : rest[t] # id
    BY <2>1, <2>2 DEF ResumedIdentity, TokenInv, TypeInv, TypeOK, TokensIssued, OneTokenPerIdentity
  <2>4. /\ DOMAIN resumeTokens' = DOMAIN rest \cup {connectionSequence}
        /\ \A t \in DOMAIN resumeTokens' :
             resumeTokens'[t] = IF t = connectionSequence THEN id ELSE rest[t]
    BY <1>2 DEF issue_connection_identity, Put
  <2> HIDE DEF id, rest
  <2>5. TokensIssued'
    BY <2>1, <2>2, <2>3, <2>4 DEF TokenInv, TypeInv, TypeOK, TokensIssued
  <2>6. OneTokenPerIdentity'
    BY <2>2, <2>3, <2>4 DEF TokenInv, OneTokenPerIdentity
  <2> QED BY <2>5, <2>6
<1>3. ASSUME NEW t \in DOMAIN resumeTokens, ExpireToken(t)
      PROVE  (TokensIssued /\ OneTokenPerIdentity)'
  BY <1>3 DEF ExpireToken, Restrict, TokenInv, TokensIssued, OneTokenPerIdentity
<1>4. CASE UNCHANGED <<resumeTokens, connectionSequence>>
  BY <1>1, <1>4 DEF TokenInv, TokensIssued, OneTokenPerIdentity
<1>5. ASSUME NEW c \in Conns,
             \/ \E w \in Clients : Connect(c, w)
             \/ Disconnect(c) \/ HelloSnapshot(c) \/ AckFails(c)
             \/ \E k \in Commands : BeginCommand(c, k) \/ CachedCommand(c, k)
             \/ HandleCommand(c) \/ Receive(c)
      PROVE  UNCHANGED <<resumeTokens, connectionSequence>>
  BY <1>5 DEF HandleCommand, Receive, shared, Connect, Disconnect, HelloSnapshot, BeginCommand,
              CachedCommand, ApplyCommand, RejectCommand, Remember, AckSent, AckFails,
              PublishToStore, PublishToQueues, ReceiveEvent, ReceiveLagged
<1>6. ASSUME NEW c \in Conns, Attach(c) \/ \E r \in {None, token[peer[c]]} : HelloFails(c, r)
      PROVE  \E r : issue_connection_identity(r)
  BY <1>6 DEF Attach, HelloAttach, HelloFails
<1>7. CASE UNCHANGED vars
  BY <1>4, <1>7 DEF vars, shared
<1>9. ASSUME NEW k \in DOMAIN results, ResultAges(k)
      PROVE  UNCHANGED <<resumeTokens, connectionSequence>>
  BY <1>9 DEF ResultAges
<1>8. CASE Next
  <2>1. \/ \E r : issue_connection_identity(r)
        \/ \E t \in DOMAIN resumeTokens : ExpireToken(t)
        \/ UNCHANGED <<resumeTokens, connectionSequence>>
    BY <1>5, <1>6, <1>8, <1>9 DEF Next
  <2> QED BY <1>1, <1>2, <1>3, <1>4, <2>1 DEF TokenInv
<1> QED BY <1>7, <1>8

\* An identity never has two resume tokens: consume_resume_token takes the old
\* one away before issue_connection_identity makes a new one, also when the
\* frame that carries it is lost.
THEOREM OneToken == Spec => []OneTokenPerIdentity
<1>1. Init => TokenInv
  BY TypeInit DEF TokenInv, Init, TokensIssued, OneTokenPerIdentity
<1>2. TokenInv /\ [Next]_vars => TokenInv'
  BY TokenStep
<1>3. TokenInv => OneTokenPerIdentity
  BY DEF TokenInv
<1> QED BY <1>1, <1>2, <1>3, PTL DEF Spec

----------------------------------------------------------------------------
(* What clients are shown was applied.                                     *)

\* Graph events, wherever they are -- on their way, stored, queued, replayed
\* or remembered -- tell of commands that the session has applied.
GraphApplied(S) == \A e \in S : e.graph => e.seq \in AppliedSeqs

EventsApplied ==
    /\ GraphApplied(broadcast) /\ GraphApplied(Range(store))
    /\ \A k \in DOMAIN results : results[k].emitted => results[k].seq \in AppliedSeqs
    /\ \A c \in Conns :
         /\ GraphApplied(Range(queue[c])) /\ GraphApplied(Range(task[c].events))
         /\ (task[c].stage = "applied" /\ task[c].events # <<>>) => task[c].seq \in AppliedSeqs
         /\ snap[c] \subseteq AppliedSeqs /\ known[c] \subseteq AppliedSeqs

AppliedInv == TypeInv /\ EventsApplied

\* The session's commands are never taken back.
LEMMA AppliedGrows == TypeInv /\ [Next]_vars => AppliedSeqs \subseteq AppliedSeqs'
<1> SUFFICES ASSUME TypeInv, [Next]_vars PROVE AppliedSeqs \subseteq AppliedSeqs'
  OBVIOUS
<1> DEFINE Entry == [cmd : Commands, id : Nat, seq : Nat \ {0}]
<1>1. applied' = applied \/ \E c \in Conns : ApplyCommand(c)
  <2> SUFFICES ASSUME Next, \A c \in Conns : ~ApplyCommand(c) PROVE applied' = applied
    BY DEF vars, shared
  <2> USE DEF shared
  <2>1. ASSUME NEW c \in Conns PROVE HandleCommand(c) => applied' = applied
    BY DEF HandleCommand, RejectCommand, Remember, AckSent, PublishToStore, PublishToQueues
  <2>2. ASSUME NEW c \in Conns PROVE Attach(c) \/ Receive(c) => applied' = applied
    BY DEF Attach, HelloAttach, Receive, ReceiveEvent, ReceiveLagged
  <2>3. ASSUME NEW c \in Conns, NEW w PROVE Connect(c, w) \/ HelloFails(c, w) => applied' = applied
    BY DEF Connect, HelloFails
  <2>4. ASSUME NEW c \in Conns, NEW k PROVE BeginCommand(c, k) \/ CachedCommand(c, k) => applied' = applied
    BY DEF BeginCommand, CachedCommand
  <2>5. ASSUME NEW c \in Conns PROVE Disconnect(c) \/ HelloSnapshot(c) \/ AckFails(c) => applied' = applied
    BY DEF Disconnect, HelloSnapshot, AckFails
  <2>6. ASSUME NEW t PROVE ExpireToken(t) => applied' = applied
    BY DEF ExpireToken
  <2>7. ASSUME NEW k PROVE ResultAges(k) => applied' = applied
    BY DEF ResultAges
  <2> QED BY <2>1, <2>2, <2>3, <2>4, <2>5, <2>6, <2>7 DEF Next
<1>2. CASE applied' = applied
  BY <1>2 DEF AppliedSeqs
<1>3. ASSUME NEW c \in Conns, ApplyCommand(c) PROVE AppliedSeqs \subseteq AppliedSeqs'
  <2>1. applied \in Seq(Entry)
    BY DEF TypeInv, TypeOK
  <2>2. PICK x : applied' = Append(applied, x)
    BY <1>3 DEF ApplyCommand
  <2>3. DOMAIN applied \subseteq DOMAIN applied' /\ \A i \in DOMAIN applied : applied'[i] = applied[i]
    BY <2>1, <2>2
  <2> QED BY <2>3 DEF AppliedSeqs
<1> QED BY <1>1, <1>2, <1>3

\* An applied command's sequence is among those of the session.
LEMMA AppliedIsIn ==
    ASSUME TypeInv, NEW c \in Conns, ApplyCommand(c)
    PROVE  task[c].seq \in AppliedSeqs'
<1> DEFINE x == [cmd |-> task[c].cmd, id |-> identity[c], seq |-> task[c].seq]
<1>1. applied \in Seq([cmd : Commands, id : Nat, seq : Nat \ {0}]) /\ applied' = Append(applied, x)
  BY DEF ApplyCommand, TypeInv, TypeOK
<1> HIDE DEF x
<1>2. Len(applied) + 1 \in DOMAIN applied' /\ applied'[Len(applied) + 1] = x
  BY <1>1
<1>3. x.seq = task[c].seq
  BY DEF x
<1> QED BY <1>2, <1>3 DEF AppliedSeqs

\* Initially there is nothing to tell.
LEMMA AppliedInit == Init => AppliedInv
<1> SUFFICES ASSUME Init PROVE EventsApplied
  BY TypeInit DEF AppliedInv
<1>1. Range(<<>>) = {}
  BY DEF Range
<1> QED BY <1>1 DEF Init, EventsApplied, GraphApplied, Idle

\* Every step keeps it so.
LEMMA AppliedStep == AppliedInv /\ [Next]_vars => AppliedInv'
<1> SUFFICES ASSUME AppliedInv, [Next]_vars PROVE EventsApplied'
  BY TypeStep DEF AppliedInv
<1>t. TypeInv /\ EventsApplied /\ TypeInv'
  BY TypeStep DEF AppliedInv
<1>g. AppliedSeqs \subseteq AppliedSeqs'
  BY <1>t, AppliedGrows
<1>e. Range(<<>>) = {}
  BY DEF Range
<1>v. \A c \in Conns : task[c] \in Task /\ task[c].events \in Seq(Event) /\ queue[c] \in Seq(Event)
  BY <1>t DEF TypeInv, TypeOK, Task
<1>p. ASSUME NEW s PROVE
        LET f == prune_idempotency_results(results, aged, s) IN
          \A k \in DOMAIN f : f[k].emitted => f[k].seq \in AppliedSeqs
  BY <1>t, PruneFacts DEF EventsApplied
<1> USE DEF shared, socket, client
<1>1. ASSUME NEW c \in Conns, NEW w \in Clients, Connect(c, w) PROVE EventsApplied'
  BY <1>1, <1>t, <1>g DEF Connect, EventsApplied, GraphApplied
<1>2. ASSUME NEW c \in Conns, Close(c), UNCHANGED <<store, results, broadcast>> PROVE EventsApplied'
  BY <1>2, <1>t, <1>g, <1>e DEF Close, EventsApplied, GraphApplied, TypeInv, TypeOK, Idle
<1>3. ASSUME NEW c \in Conns, HelloSnapshot(c) PROVE EventsApplied'
  BY <1>3, <1>t, <1>g DEF HelloSnapshot, EventsApplied, GraphApplied, TypeInv, TypeOK
<1>4. ASSUME NEW c \in Conns, NEW r, NEW l, HelloAttach(c, r, l) PROVE EventsApplied'
  <2>1. AttachKnown(c, r, l) \subseteq AppliedSeqs
    BY <1>t DEF AttachKnown, ReplayEvents, EventsApplied, GraphApplied
  <2> QED
    BY <1>4, <1>t, <1>g, <2>1 DEF HelloAttach, EventsApplied, GraphApplied, TypeInv, TypeOK
<1>6. ASSUME NEW c \in Conns, NEW k \in Commands, BeginCommand(c, k) PROVE EventsApplied'
  BY <1>6, <1>t, <1>g, <1>e, <1>p DEF BeginCommand, EventsApplied, GraphApplied, TypeInv, TypeOK
<1>7. ASSUME NEW c \in Conns, NEW k \in Commands, CachedCommand(c, k) PROVE EventsApplied'
  <2> DEFINE id == <<identity[c], k>>
  <2>1. id \in DOMAIN results
    BY <1>7, PruneFacts DEF CachedCommand, graph_ack_from_cached, Cached
  <2>2. {s \in {results[id].seq} : results[id].emitted} \subseteq AppliedSeqs
    BY <2>1, <1>t DEF EventsApplied
  <2>3. \A d \in Conns : known'[d] \subseteq AppliedSeqs
    BY <2>2, <1>7, <1>t DEF CachedCommand, graph_ack_from_cached, EventsApplied, TypeInv, TypeOK
  <2> QED BY <1>7, <1>t, <1>g, <1>p, <2>3 DEF CachedCommand, graph_ack_from_cached, EventsApplied, GraphApplied
<1>8. ASSUME NEW c \in Conns, ApplyCommand(c) PROVE EventsApplied'
  <2> DEFINE e == [seq |-> task[c].seq, graph |-> TRUE]
  <2>1. e.seq \in AppliedSeqs' /\ e.seq = task[c].seq
    BY <1>8, <1>t, AppliedIsIn
  <2>2. e \in Event
    BY <1>8, <1>t DEF ApplyCommand, Event, TypeInv, TaskShape
  <2> HIDE DEF e
  <2>3. Range(<<e>>) = {e}
    BY DEF Range
  <2>4. task \in [Conns -> Task] /\ Advance(c, "applied", <<e>>) /\ "applied" \in Stages /\ <<e>> \in Seq(Event)
    BY <1>8, <1>t, <2>2 DEF ApplyCommand, TypeInv, TypeOK, Stages, e
  <2>5. /\ task'[c].events = <<e>> /\ task'[c].seq = task[c].seq
        /\ \A d \in Conns \ {c} : task'[d] = task[d]
    BY <2>4, AdvanceFacts
  <2> QED BY SMTT(30), <1>8, <1>t, <1>g, <2>1, <2>3, <2>5 DEF ApplyCommand, EventsApplied, GraphApplied
<1>9. ASSUME NEW c \in Conns, RejectCommand(c) PROVE EventsApplied'
  <2>1. task \in [Conns -> Task] /\ Advance(c, "applied", <<>>) /\ "applied" \in Stages /\ <<>> \in Seq(Event)
    BY <1>9, <1>t DEF RejectCommand, TypeInv, TypeOK, Stages
  <2>2. task'[c].events = <<>> /\ \A d \in Conns \ {c} : task'[d] = task[d]
    BY <2>1, AdvanceFacts
  <2> QED BY <1>9, <1>t, <1>g, <1>e, <2>2 DEF RejectCommand, EventsApplied, GraphApplied
<1>10. ASSUME NEW c \in Conns, Remember(c) PROVE EventsApplied'
  <2> DEFINE e == [seq |-> eventSequence, graph |-> FALSE]
             key == <<identity[c], task[c].cmd>>
             put == Put(results, key, [seq |-> task[c].seq, emitted |-> task[c].events # <<>>])
  <2>1. \A k \in DOMAIN put : put[k].emitted => put[k].seq \in AppliedSeqs
    BY <1>10, <1>t DEF Remember, Put, EventsApplied
  <2>2. \A k \in DOMAIN results' : results'[k].emitted => results'[k].seq \in AppliedSeqs
    <3>1. results' = prune_idempotency_results(put, aged, store)
      BY <1>10 DEF Remember
    <3> HIDE DEF put
    <3> QED BY <2>1, <3>1, PruneFacts
  <2>3. e \in Event /\ ~ e.graph
    BY <1>t DEF Event, TypeInv, TypeOK
  <2>4. \/ Advance(c, "remembered", task[c].events)
        \/ Advance(c, "remembered", Append(task[c].events, e))
    BY <1>10 DEF Remember
  <2> HIDE DEF e
  <2>5. Append(task[c].events, e) \in Seq(Event) /\ Range(Append(task[c].events, e)) = Range(task[c].events) \cup {e}
    BY <1>v, <2>3, RangeOfAppend
  <2>6. task \in [Conns -> Task] /\ "remembered" \in Stages
    BY <1>t DEF TypeInv, TypeOK, Stages
  <2>7. /\ task'[c].stage = "remembered" /\ \A d \in Conns \ {c} : task'[d] = task[d]
        /\ Range(task'[c].events) \subseteq Range(task[c].events) \cup {e}
    <3>1. CASE Advance(c, "remembered", task[c].events)
      BY <1>v, <2>6, <3>1, AdvanceFacts
    <3>2. CASE Advance(c, "remembered", Append(task[c].events, e))
      <4>1. task'[c].stage = "remembered" /\ task'[c].events = Append(task[c].events, e)
        BY <2>5, <2>6, <3>2, AdvanceFacts
      <4>2. \A d \in Conns \ {c} : task'[d] = task[d]
        BY <2>5, <2>6, <3>2, AdvanceFacts
      <4> QED BY <2>5, <4>1, <4>2
    <3> QED BY <2>4, <3>1, <3>2
  <2>8. GraphApplied(Range(task'[c].events))
    BY <1>t, <2>3, <2>7 DEF EventsApplied, GraphApplied
  <2> QED BY <1>10, <1>t, <1>g, <2>2, <2>7, <2>8 DEF Remember, EventsApplied, GraphApplied
<1>11. ASSUME NEW c \in Conns, AckSent(c) PROVE EventsApplied'
  <2>1. task \in [Conns -> Task] /\ "publishing" \in Stages
    BY <1>t DEF TypeInv, TypeOK, Stages
  <2>2. /\ task'[c].stage # "applied" /\ \A d \in Conns \ {c} : task'[d] = task[d]
        /\ task'[c].events = task[c].events
    BY <1>11, <1>v, <2>1, AdvanceFacts, FinishFacts DEF AckSent
  <2> QED BY <1>11, <1>t, <1>g, <2>2 DEF AckSent, EventsApplied, GraphApplied
<1>13. ASSUME NEW c \in Conns, PublishToStore(c) PROVE EventsApplied'
  <2> DEFINE e == Head(task[c].events)
  <2>1. task[c].events # <<>> /\ store \in Seq(Event) /\ Len(store) <= ReplayLimit
    BY <1>13, <1>t DEF PublishToStore, TypeInv, TypeOK, TaskShape
  <2>2. e \in Event /\ e \in Range(task[c].events)
    BY <1>v, <2>1, RangeOfTail
  <2> HIDE DEF e
  <2>3. Range(store') \subseteq Range(store) \cup {e}
    BY <1>13, <2>1, <2>2, PushBoundedFacts DEF PublishToStore, e
  <2>4. task \in [Conns -> Task] /\ "stored" \in Stages
    BY <1>t DEF TypeInv, TypeOK, Stages
  <2>5. /\ task'[c].stage # "applied" /\ \A d \in Conns \ {c} : task'[d] = task[d]
        /\ task'[c].events = task[c].events
    BY <1>13, <1>v, <2>4, AdvanceFacts DEF PublishToStore
  <2>6. GraphApplied(Range(store'))
    BY <1>t, <2>2, <2>3 DEF EventsApplied, GraphApplied
  <2>7. \A k \in DOMAIN results' : results'[k].emitted => results'[k].seq \in AppliedSeqs
    BY <1>13, <1>p DEF PublishToStore
  <2> QED BY <1>13, <1>t, <1>g, <2>5, <2>6, <2>7 DEF PublishToStore, EventsApplied, GraphApplied
<1>14. ASSUME NEW c \in Conns, PublishToQueues(c) PROVE EventsApplied'
  <2> DEFINE e == Head(task[c].events)
  <2>1. task[c].events # <<>>
    BY <1>14, <1>t DEF PublishToQueues, TypeInv, TaskShape
  <2>2. /\ e \in Event /\ e \in Range(task[c].events) /\ Tail(task[c].events) \in Seq(Event)
        /\ Range(Tail(task[c].events)) \subseteq Range(task[c].events)
    BY <1>v, <2>1, RangeOfTail
  <2>3. /\ queue' = [d \in Conns |-> IF d \in Open THEN PushBounded(queue[d], e) ELSE queue[d]]
        /\ broadcast' = broadcast \cup {e}
        /\ Finish(c) \/ Advance(c, "publishing", Tail(task[c].events))
    BY <1>14 DEF PublishToQueues
  <2> HIDE DEF e
  <2>4. \A d \in Conns : Range(queue'[d]) \subseteq Range(queue[d]) \cup {e}
    BY <1>t, <1>v, <2>2, <2>3, PushBoundedFacts DEF TypeInv, TypeOK
  <2>5. task \in [Conns -> Task] /\ "publishing" \in Stages
    BY <1>t DEF TypeInv, TypeOK, Stages
  <2>6. /\ task'[c].stage # "applied" /\ \A d \in Conns \ {c} : task'[d] = task[d]
        /\ Range(task'[c].events) \subseteq Range(task[c].events)
    BY <1>e, <2>2, <2>3, <2>5, AdvanceFacts, FinishFacts
  <2>7. e.graph => e.seq \in AppliedSeqs
    BY <1>t, <2>2 DEF EventsApplied, GraphApplied
  <2>8. GraphApplied(broadcast') /\ \A d \in Conns : GraphApplied(Range(queue'[d]))
    BY <1>t, <2>3, <2>4, <2>7 DEF EventsApplied, GraphApplied
  <2>9. UNCHANGED <<store, results, applied, snap, known>>
    BY <1>14 DEF PublishToQueues
  <2>10. \A d \in Conns :
           /\ Range(task'[d].events) \subseteq Range(task[d].events)
           /\ task'[d].stage = "applied" => task'[d] = task[d]
    BY <2>6
  <2>11. GraphApplied(Range(store)) /\ \A d \in Conns : GraphApplied(Range(task'[d].events))
    BY <1>t, <2>10 DEF EventsApplied, GraphApplied
  <2>12. AppliedSeqs' = AppliedSeqs
    BY <2>9 DEF AppliedSeqs
  <2>13. GraphApplied(broadcast)' /\ GraphApplied(Range(store))'
    BY <2>8, <2>9, <2>11, <2>12 DEF GraphApplied
  <2>14. \A d \in Conns :
           /\ GraphApplied(Range(queue[d]))' /\ GraphApplied(Range(task[d].events))'
           /\ (task'[d].stage = "applied" /\ task'[d].events # <<>>) => task'[d].seq \in AppliedSeqs'
           /\ snap'[d] \subseteq AppliedSeqs' /\ known'[d] \subseteq AppliedSeqs'
    BY <1>t, <2>8, <2>9, <2>10, <2>11, <2>12 DEF EventsApplied, GraphApplied
  <2> QED BY <1>t, <2>9, <2>12, <2>13, <2>14 DEF EventsApplied
<1>15. ASSUME NEW c \in Conns, ReceiveEvent(c) PROVE EventsApplied'
  <2> DEFINE e == Head(queue[c])
  <2>1. queue[c] # <<>>
    BY <1>15 DEF ReceiveEvent
  <2>2. e \in Range(queue[c]) /\ Range(Tail(queue[c])) \subseteq Range(queue[c])
    BY <1>v, <2>1, RangeOfTail
  <2>3. {s \in {e.seq} : e.graph} \subseteq AppliedSeqs
    BY <1>t, <2>2 DEF EventsApplied, GraphApplied
  <2>4. \A d \in Conns : known'[d] \subseteq known[d] \cup {s \in {e.seq} : e.graph}
    <3>1. known' = known \/ known' = [known EXCEPT ![c] = @ \cup {s \in {e.seq} : e.graph}]
      BY <1>15 DEF ReceiveEvent
    <3>2. known \in [Conns -> SUBSET Nat]
      BY <1>t DEF TypeInv, TypeOK
    <3> HIDE DEF e
    <3> QED BY <3>1, <3>2
  <2> HIDE DEF e
  <2>5. \A d \in Conns : Range(queue'[d]) \subseteq Range(queue[d])
    BY <1>15, <1>t, <2>2 DEF ReceiveEvent, TypeInv, TypeOK
  <2> QED BY <1>15, <1>t, <1>g, <2>3, <2>4, <2>5 DEF ReceiveEvent, EventsApplied, GraphApplied
<1>16. ASSUME NEW c \in Conns, ReceiveLagged(c) PROVE EventsApplied'
  <2>1. \A d \in Conns : known'[d] \subseteq AppliedSeqs
    <3>1. known' = known \/ known' = [known EXCEPT ![c] = AppliedSeqs]
      BY <1>16 DEF ReceiveLagged
    <3> QED BY <1>t, <3>1 DEF EventsApplied, TypeInv, TypeOK
  <2> QED BY <1>16, <1>t, <1>g, <2>1 DEF ReceiveLagged, EventsApplied, GraphApplied
<1>17. ASSUME NEW t \in DOMAIN resumeTokens, ExpireToken(t) PROVE EventsApplied'
  BY <1>17, <1>t, <1>g DEF ExpireToken, EventsApplied, GraphApplied
<1>18. CASE UNCHANGED vars
  BY <1>18, <1>t, <1>g DEF vars, EventsApplied, GraphApplied
<1>19. ASSUME NEW c \in Conns, NEW r, Disconnect(c) \/ HelloFails(c, r) \/ AckFails(c)
       PROVE  EventsApplied'
  <2>1. Close(c) /\ UNCHANGED <<store, results, broadcast>>
    BY <1>19 DEF Disconnect, HelloFails, AckFails
  <2> QED BY <1>2, <2>1
<1>20. ASSUME NEW k \in DOMAIN results, ResultAges(k) PROVE EventsApplied'
  BY <1>20, <1>t, <1>g DEF ResultAges, EventsApplied, GraphApplied
<1> QED
  BY <1>1, <1>3, <1>4, <1>6, <1>7, <1>8, <1>9, <1>10, <1>11,
     <1>13, <1>14, <1>15, <1>16, <1>17, <1>18, <1>19, <1>20
     DEF Next, Attach, HandleCommand, Receive

\* No client is ever shown an edit the session did not make.
THEOREM KnownApplied == Spec => []KnownIsApplied
<1>1. Init => AppliedInv
  BY AppliedInit
<1>2. AppliedInv /\ [Next]_vars => AppliedInv'
  BY AppliedStep
<1>3. AppliedInv => KnownIsApplied
  BY DEF AppliedInv, EventsApplied, KnownIsApplied
<1> QED BY <1>1, <1>2, <1>3, PTL DEF Spec

----------------------------------------------------------------------------
(* No event is lost without notice.                                        *)

\* While session.hello is under way nothing is received, so an event that is
\* broadcast is in the snapshot already read, or in the queue, or was dropped
\* with a lag mark.
HelloCovers ==
    \A c \in Conns : status[c] = "hello" =>
      \A e \in broadcast :
        e.graph => e.seq \in snap[c] \/ e \in Range(queue[c]) \/ lagged[c]

LossInv == AppliedInv /\ HelloCovers /\ NoSilentLoss

\* Every step keeps the attached clients covered.
LEMMA LossStep == LossInv /\ [Next]_vars => LossInv'
<1> SUFFICES ASSUME LossInv, [Next]_vars PROVE HelloCovers' /\ NoSilentLoss'
  BY AppliedStep DEF LossInv
<1>t. TypeInv /\ EventsApplied /\ HelloCovers /\ NoSilentLoss
  BY DEF LossInv, AppliedInv
<1>v. \A c \in Conns : task[c].events \in Seq(Event) /\ queue[c] \in Seq(Event)
  BY <1>t DEF TypeInv, TypeOK, Task
<1>b. \A e \in broadcast : e.graph => e.seq \in AppliedSeqs
  BY <1>t DEF EventsApplied, GraphApplied
<1>n. broadcast \subseteq Event /\ \A e \in Event : e.seq \in Nat
  BY <1>t DEF TypeInv, TypeOK, Event
<1> USE DEF shared, socket, client
<1>1. ASSUME NEW c \in Conns, NEW w \in Clients, Connect(c, w) PROVE HelloCovers' /\ NoSilentLoss'
  BY <1>1, <1>t DEF Connect, HelloCovers, NoSilentLoss, TypeInv, TypeOK
<1>2. ASSUME NEW c \in Conns, Close(c), UNCHANGED broadcast PROVE HelloCovers' /\ NoSilentLoss'
  BY <1>2, <1>t DEF Close, HelloCovers, NoSilentLoss, TypeInv, TypeOK
<1>3. ASSUME NEW c \in Conns, HelloSnapshot(c) PROVE HelloCovers' /\ NoSilentLoss'
  BY <1>3, <1>t, <1>b DEF HelloSnapshot, HelloCovers, NoSilentLoss, TypeInv, TypeOK
<1>4. ASSUME NEW c \in Conns, NEW r, NEW l, HelloAttach(c, r, l) PROVE HelloCovers' /\ NoSilentLoss'
  <2>1. snap[c] \subseteq AttachKnown(c, r, l)
    BY DEF AttachKnown
  <2>2. HelloCovers'
    BY <1>4, <1>t DEF HelloAttach, HelloCovers, TypeInv, TypeOK
  <2>3. NoSilentLoss'
    BY <1>4, <1>t, <2>1 DEF HelloAttach, HelloCovers, NoSilentLoss, TypeInv, TypeOK
  <2> QED BY <2>2, <2>3
<1>5. ASSUME NEW c \in Conns, NEW k \in Commands, CachedCommand(c, k) PROVE HelloCovers' /\ NoSilentLoss'
  <2>1. \A d \in Conns : known[d] \subseteq known'[d]
    BY <1>5, <1>t DEF CachedCommand, graph_ack_from_cached, TypeInv, TypeOK
  <2> QED BY <1>5, <1>t, <2>1 DEF CachedCommand, graph_ack_from_cached, HelloCovers, NoSilentLoss
<1>6. CASE UNCHANGED <<broadcast, status, highWater, snap, queue, lagged, known>>
  BY <1>6, <1>t DEF HelloCovers, NoSilentLoss
<1>7. ASSUME NEW c \in Conns, PublishToQueues(c) PROVE HelloCovers' /\ NoSilentLoss'
  <2> DEFINE e == Head(task[c].events)
  <2>1. task[c].events # <<>>
    BY <1>7, <1>t DEF PublishToQueues, TypeInv, TaskShape
  <2>2. e \in Event
    BY <1>v, <2>1, RangeOfTail
  <2>3. /\ queue' = [d \in Conns |-> IF d \in Open THEN PushBounded(queue[d], e) ELSE queue[d]]
        /\ lagged' = [d \in Conns |-> lagged[d] \/ (d \in Open /\ Len(queue[d]) = ReplayLimit)]
        /\ broadcast' = broadcast \cup {e}
    BY <1>7 DEF PublishToQueues
  <2> HIDE DEF e
  <2>4. ASSUME NEW d \in Conns, status[d] # "closed", NEW x \in broadcast'
        PROVE  /\ x \in Range(queue[d]) => x \in Range(queue'[d]) \/ lagged'[d]
               /\ x \notin broadcast => x \in Range(queue'[d])
    <3>1. queue[d] \in Seq(Event) /\ Len(queue[d]) <= ReplayLimit /\ Len(queue[d]) \in Nat
      BY <1>t DEF TypeInv, TypeOK
    <3>2. queue'[d] = PushBounded(queue[d], e)
      BY <2>3, <2>4 DEF Open
    <3>3. lagged'[d] \/ Len(queue[d]) < ReplayLimit
      <4>1. Len(queue[d]) = ReplayLimit \/ Len(queue[d]) < ReplayLimit
        BY <3>1, RealtimeAssumption
      <4>2. CASE Len(queue[d]) = ReplayLimit
        BY <2>3, <2>4, <4>2 DEF Open
      <4> QED BY <4>1, <4>2
    <3>4. /\ e \in Range(queue'[d])
          /\ Len(queue[d]) < ReplayLimit => Range(queue'[d]) = Range(queue[d]) \cup {e}
      BY <2>2, <3>1, <3>2, PushBoundedFacts
    <3> QED BY <2>3, <2>4, <3>3, <3>4
  <2>5. \A d \in Conns : lagged[d] => lagged'[d]
    BY <2>3
  <2>6. UNCHANGED <<status, highWater, snap, known>>
    BY <1>7 DEF PublishToQueues
  <2>7. HelloCovers'
    <3> SUFFICES ASSUME NEW d \in Conns, status[d] = "hello", NEW x \in broadcast', x.graph
                 PROVE  x.seq \in snap[d] \/ x \in Range(queue'[d]) \/ lagged'[d]
      BY <2>6 DEF HelloCovers
    <3>1. x \in broadcast => x.seq \in snap[d] \/ x \in Range(queue[d]) \/ lagged[d]
      BY <1>t DEF HelloCovers
    <3> QED BY <2>3, <2>4, <2>5, <3>1
  <2>8. NoSilentLoss'
    <3> SUFFICES ASSUME NEW d \in Conns, NEW x \in broadcast',
                        status[d] = "attached", x.graph, x.seq > highWater[d]
                 PROVE  x.seq \in known[d] \/ x \in Range(queue'[d]) \/ lagged'[d]
      BY <2>6 DEF NoSilentLoss
    <3>1. x \in broadcast => x.seq \in known[d] \/ x \in Range(queue[d]) \/ lagged[d]
      BY <1>t DEF NoSilentLoss
    <3> QED BY <2>3, <2>4, <2>5, <3>1
  <2> QED BY <2>7, <2>8
<1>8. ASSUME NEW c \in Conns, ReceiveEvent(c) PROVE HelloCovers' /\ NoSilentLoss'
  <2> DEFINE e == Head(queue[c])
  <2>1. queue[c] # <<>> /\ status[c] # "hello"
    BY <1>8 DEF ReceiveEvent, CanReceive
  <2>2. e \in Event /\ Range(queue[c]) = Range(Tail(queue[c])) \cup {e}
    BY <1>v, <2>1, RangeOfTail
  <2>3. /\ queue' = [queue EXCEPT ![c] = Tail(@)]
        /\ \/ e.seq <= highWater[c] /\ known' = known
           \/ known' = [known EXCEPT ![c] = @ \cup {s \in {e.seq} : e.graph}]
        /\ UNCHANGED <<status, highWater, snap, lagged, broadcast>>
    BY <1>8 DEF ReceiveEvent
  <2> HIDE DEF e
  <2>4. /\ Range(queue[c]) = Range(queue'[c]) \cup {e}
        /\ \A d \in Conns \ {c} : queue'[d] = queue[d]
        /\ \A d \in Conns : known[d] \subseteq known'[d]
    <3>1. queue \in [Conns -> Seq(Event)] /\ known \in [Conns -> SUBSET Nat]
      BY <1>t DEF TypeInv, TypeOK
    <3>2. queue'[c] = Tail(queue[c]) /\ \A d \in Conns \ {c} : queue'[d] = queue[d]
      BY <2>3, <3>1
    <3>3. \A d \in Conns : known[d] \subseteq known'[d]
      BY <2>3, <3>1
    <3> QED BY <2>2, <3>2, <3>3
  <2>5. e.graph => e.seq <= highWater[c] \/ e.seq \in known'[c]
    BY <1>t, <2>3 DEF TypeInv, TypeOK
  <2>6. HelloCovers'
    BY <1>t, <2>1, <2>3, <2>4 DEF HelloCovers
  <2>7. ASSUME NEW d \in Conns, NEW x \in broadcast,
               status[d] = "attached", x.graph, x.seq > highWater[d]
        PROVE  x.seq \in known'[d] \/ x \in Range(queue'[d]) \/ lagged[d]
    <3>1. x.seq \in known[d] \/ x \in Range(queue[d]) \/ lagged[d]
      BY <1>t, <2>7 DEF NoSilentLoss
    <3>2. ~ (x.seq <= highWater[d])
      BY <1>t, <1>n, <2>7 DEF TypeInv, TypeOK
    <3> QED BY <2>4, <2>5, <2>7, <3>1, <3>2
  <2> QED BY <2>3, <2>6, <2>7 DEF NoSilentLoss
<1>9. ASSUME NEW c \in Conns, ReceiveLagged(c) PROVE HelloCovers' /\ NoSilentLoss'
  <2>1. status[c] # "hello" /\ (status[c] = "attached" => known'[c] = AppliedSeqs)
    BY <1>9, <1>t DEF ReceiveLagged, CanReceive, TypeInv, TypeOK, TaskShape
  <2>2. \A d \in Conns \ {c} : known'[d] = known[d] /\ lagged'[d] = lagged[d]
    BY <1>9, <1>t DEF ReceiveLagged, TypeInv, TypeOK
  <2>3. UNCHANGED <<status, highWater, snap, queue, broadcast>>
    BY <1>9 DEF ReceiveLagged
  <2>4. HelloCovers'
    BY <1>t, <2>1, <2>2, <2>3 DEF HelloCovers
  <2>5. NoSilentLoss'
    BY <1>t, <1>b, <2>1, <2>2, <2>3 DEF NoSilentLoss
  <2> QED BY <2>4, <2>5
<1>10. ASSUME NEW c \in Conns, NEW r, Disconnect(c) \/ HelloFails(c, r) \/ AckFails(c)
       PROVE  HelloCovers' /\ NoSilentLoss'
  BY <1>2, <1>10 DEF Disconnect, HelloFails, AckFails
<1>11. ASSUME NEW c \in Conns,
              \/ \E k \in Commands : BeginCommand(c, k)
              \/ ApplyCommand(c) \/ RejectCommand(c) \/ Remember(c)
              \/ AckSent(c) \/ PublishToStore(c)
       PROVE  UNCHANGED <<broadcast, status, highWater, snap, queue, lagged, known>>
  BY <1>11 DEF BeginCommand, ApplyCommand, RejectCommand, Remember, AckSent, PublishToStore
<1>12. ASSUME NEW t \in DOMAIN resumeTokens, ExpireToken(t)
       PROVE  UNCHANGED <<broadcast, status, highWater, snap, queue, lagged, known>>
  BY <1>12 DEF ExpireToken
<1>13. CASE UNCHANGED vars
  BY <1>6, <1>13 DEF vars
<1>14. ASSUME NEW k \in DOMAIN results, ResultAges(k)
       PROVE  UNCHANGED <<broadcast, status, highWater, snap, queue, lagged, known>>
  BY <1>14 DEF ResultAges
<1> QED
  BY <1>1, <1>3, <1>4, <1>5, <1>6, <1>7, <1>8, <1>9, <1>10, <1>11, <1>12, <1>13, <1>14
     DEF Next, Attach, HandleCommand, Receive

\* An attached client loses no event above its high water mark without being
\* told, for any replay limit and however snapshot, replay, live events and
\* lag interleave: the handler subscribes before it reads session.hello.
THEOREM NoLoss == Spec => []NoSilentLoss
<1>1. Init => LossInv
  BY AppliedInit DEF LossInv, Init, HelloCovers, NoSilentLoss
<1>2. LossInv /\ [Next]_vars => LossInv'
  BY LossStep
<1>3. LossInv => NoSilentLoss
  BY DEF LossInv
<1> QED BY <1>1, <1>2, <1>3, PTL DEF Spec

----------------------------------------------------------------------------
(* Every accepted command is published.                                    *)

\* A handler has nothing to publish before its command is applied.
NoEarlyEvents == \A c \in Conns : task[c].stage \in {"idle", "sequenced"} => task[c].events = <<>>

\* The event of an applied command has been broadcast, or its handler still
\* has it, unless handlers can be stopped by a frame that cannot be sent.
PublishedOrHeld ==
    ~ SendFailures => \A s \in AppliedSeqs :
      \/ [seq |-> s, graph |-> TRUE] \in broadcast
      \/ \E c \in Conns : [seq |-> s, graph |-> TRUE] \in Range(task[c].events)

DeliveryInv == TypeInv /\ NoEarlyEvents /\ PublishedOrHeld

\* Applying a command adds one entry to the session's.
LEMMA AppliedEntries ==
    ASSUME TypeInv, NEW c \in Conns, ApplyCommand(c)
    PROVE  /\ Len(applied) \in Nat /\ DOMAIN applied = 1..Len(applied)
           /\ DOMAIN applied' = 1..(Len(applied) + 1)
           /\ applied'[Len(applied) + 1] = [cmd |-> task[c].cmd, id |-> identity[c], seq |-> task[c].seq]
           /\ \A i \in DOMAIN applied : applied'[i] = applied[i]
           /\ \A i \in DOMAIN applied' : \/ i \in DOMAIN applied /\ applied'[i] = applied[i]
                                         \/ i = Len(applied) + 1 /\ applied'[i].seq = task[c].seq
<1> DEFINE x == [cmd |-> task[c].cmd, id |-> identity[c], seq |-> task[c].seq]
           Entry == [cmd : Commands, id : Nat, seq : Nat \ {0}]
<1>1. applied \in Seq(Entry) /\ applied' = Append(applied, x) /\ x.seq = task[c].seq
  BY DEF ApplyCommand, TypeInv, TypeOK
<1> HIDE DEF x, Entry
<1>2. DOMAIN applied' = 1..(Len(applied) + 1) /\ DOMAIN applied = 1..Len(applied)
      /\ Len(applied) \in Nat
  BY <1>1
<1>3. applied'[Len(applied) + 1] = x /\ \A i \in 1..Len(applied) : applied'[i] = applied[i]
  BY <1>1
<1>4. \A i \in DOMAIN applied' : i \in DOMAIN applied \/ i = Len(applied) + 1
  BY <1>2
<1> QED BY <1>1, <1>2, <1>3, <1>4 DEF x

LEMMA AppliedAdds ==
    ASSUME TypeInv, NEW c \in Conns, ApplyCommand(c)
    PROVE  AppliedSeqs' \subseteq AppliedSeqs \cup {task[c].seq}
<1>1. ASSUME NEW i \in DOMAIN applied' PROVE applied'[i].seq \in AppliedSeqs \cup {task[c].seq}
  BY <1>1, AppliedEntries DEF AppliedSeqs
<1> QED BY <1>1 DEF AppliedSeqs

\* A step after which each handler still holds, or has broadcast, what it held.
LEMMA HeldKept ==
    ASSUME PublishedOrHeld, NEW c \in Conns, broadcast \subseteq broadcast', applied' = applied,
           \A d \in Conns \ {c} : task'[d] = task[d],
           Range(task[c].events) \subseteq Range(task'[c].events) \cup broadcast'
    PROVE  PublishedOrHeld'
<1> SUFFICES ASSUME ~ SendFailures, NEW s \in AppliedSeqs
             PROVE  \/ [seq |-> s, graph |-> TRUE] \in broadcast'
                    \/ \E d \in Conns : [seq |-> s, graph |-> TRUE] \in Range(task'[d].events)
  BY DEF PublishedOrHeld, AppliedSeqs
<1> DEFINE e == [seq |-> s, graph |-> TRUE]
<1>1. e \in broadcast \/ \E d \in Conns : e \in Range(task[d].events)
  BY DEF PublishedOrHeld
<1> HIDE DEF e
<1>2. e \in broadcast' \/ \E d \in Conns : e \in Range(task'[d].events)
  BY <1>1
<1> QED BY <1>2 DEF e

LEMMA DeliveryStep == DeliveryInv /\ [Next]_vars => DeliveryInv'
<1> SUFFICES ASSUME DeliveryInv, [Next]_vars PROVE NoEarlyEvents' /\ PublishedOrHeld'
  BY TypeStep DEF DeliveryInv
<1>t. TypeInv /\ NoEarlyEvents /\ PublishedOrHeld /\ task \in [Conns -> Task]
  BY DEF DeliveryInv, TypeInv, TypeOK
<1>v. \A c \in Conns : task[c].events \in Seq(Event)
  BY <1>t DEF Task
<1>e. Range(<<>>) = {} /\ Idle.events = <<>> /\ Idle.stage = "idle"
  BY DEF Range, Idle
<1>s. {"applied", "remembered", "publishing", "stored"} \subseteq Stages
  BY DEF Stages
<1> USE DEF shared, socket, client
<1>1. CASE UNCHANGED <<task, applied, broadcast>>
  BY <1>t, <1>1 DEF NoEarlyEvents, PublishedOrHeld, AppliedSeqs
<1>2. ASSUME NEW c \in Conns, Close(c), task[c] = Idle, UNCHANGED <<applied, broadcast>>
      PROVE  NoEarlyEvents' /\ PublishedOrHeld'
  <2>1. task' = task
    BY <1>t, <1>2 DEF Close
  <2> QED BY <1>1, <1>2, <2>1
<1>3. ASSUME NEW c \in Conns, Close(c), SendFailures PROVE NoEarlyEvents' /\ PublishedOrHeld'
  BY <1>t, <1>e, <1>3 DEF Close, NoEarlyEvents, PublishedOrHeld
<1>4. ASSUME NEW c \in Conns, NEW k \in Commands, BeginCommand(c, k) PROVE NoEarlyEvents' /\ PublishedOrHeld'
  <2>1. /\ task'[c].stage = "sequenced" /\ task'[c].events = <<>> /\ task[c] = Idle
        /\ \A d \in Conns \ {c} : task'[d] = task[d]
        /\ UNCHANGED <<applied, broadcast>>
    BY <1>t, <1>4 DEF BeginCommand, CommandArrives
  <2>2. PublishedOrHeld'
    BY <1>e, <1>t, <2>1, HeldKept
  <2> QED BY <1>t, <2>1, <2>2 DEF NoEarlyEvents
<1>5. ASSUME NEW c \in Conns, ApplyCommand(c) PROVE NoEarlyEvents' /\ PublishedOrHeld'
  <2> DEFINE e == [seq |-> task[c].seq, graph |-> TRUE]
  <2>1. e \in Event
    BY <1>5, <1>t DEF ApplyCommand, Event, TypeInv, TaskShape
  <2>2. Advance(c, "applied", <<e>>) /\ task[c].stage = "sequenced" /\ broadcast' = broadcast
    BY <1>5 DEF ApplyCommand
  <2>3. AppliedSeqs' \subseteq AppliedSeqs \cup {task[c].seq}
    BY <1>5, <1>t, AppliedAdds
  <2> HIDE DEF e
  <2>4. /\ task'[c].stage = "applied" /\ task'[c].events = <<e>>
        /\ \A d \in Conns \ {c} : task'[d] = task[d]
    <3>1. <<e>> \in Seq(Event) /\ "applied" \in Stages
      BY <2>1, <1>s
    <3> QED BY <1>t, <2>2, <3>1, AdvanceFacts
  <2>5. Range(<<e>>) = {e} /\ Range(task[c].events) = {}
    BY <1>e, <1>t, <2>2 DEF Range, NoEarlyEvents
  <2>6. ASSUME ~ SendFailures, NEW s \in AppliedSeqs'
        PROVE  \/ [seq |-> s, graph |-> TRUE] \in broadcast'
               \/ \E d \in Conns : [seq |-> s, graph |-> TRUE] \in Range(task'[d].events)
    <3>1. CASE s = task[c].seq
      BY <2>4, <2>5, <3>1 DEF e
    <3>2. CASE s \in AppliedSeqs
      <4> DEFINE x == [seq |-> s, graph |-> TRUE]
      <4>1. x \in broadcast \/ \E d \in Conns : x \in Range(task[d].events)
        BY <1>t, <2>6, <3>2 DEF PublishedOrHeld
      <4> HIDE DEF x
      <4>2. x \in broadcast' \/ \E d \in Conns : x \in Range(task'[d].events)
        BY <2>2, <2>4, <2>5, <4>1
      <4> QED BY <4>2 DEF x
    <3> QED BY <2>3, <2>6, <3>1, <3>2
  <2>7. PublishedOrHeld'
    BY <2>6 DEF PublishedOrHeld
  <2> QED BY <1>t, <2>4, <2>7 DEF NoEarlyEvents
<1>6. ASSUME NEW c \in Conns, NEW st \in {"applied", "remembered", "publishing", "stored"}, NEW ev \in Seq(Event),
             Advance(c, st, ev), applied' = applied, broadcast \subseteq broadcast',
             Range(task[c].events) \subseteq Range(ev) \cup broadcast'
      PROVE  NoEarlyEvents' /\ PublishedOrHeld'
  <2>1. /\ task'[c].stage = st /\ task'[c].events = ev /\ \A d \in Conns \ {c} : task'[d] = task[d]
    BY <1>6, <1>s, <1>t, AdvanceFacts
  <2>2. PublishedOrHeld'
    BY <1>6, <1>t, <2>1, HeldKept
  <2> QED BY <1>t, <2>1, <2>2 DEF NoEarlyEvents
<1>7. ASSUME NEW c \in Conns, Finish(c), applied' = applied, broadcast \subseteq broadcast',
             Range(task[c].events) \subseteq broadcast'
      PROVE  NoEarlyEvents' /\ PublishedOrHeld'
  <2>1. task'[c].events = <<>> /\ \A d \in Conns \ {c} : task'[d] = task[d]
    BY <1>7, <1>t, FinishFacts
  <2>2. PublishedOrHeld'
    BY <1>7, <1>t, <2>1, HeldKept
  <2> QED BY <1>t, <2>1, <2>2 DEF NoEarlyEvents
<1>8. ASSUME NEW c \in Conns, RejectCommand(c) PROVE NoEarlyEvents' /\ PublishedOrHeld'
  <2>1. Advance(c, "applied", <<>>) /\ UNCHANGED <<applied, broadcast>> /\ task[c].events = <<>>
    BY <1>8, <1>t DEF RejectCommand, NoEarlyEvents
  <2>2. <<>> \in Seq(Event)
    OBVIOUS
  <2> QED BY <1>6, <1>e, <2>1, <2>2
<1>9. ASSUME NEW c \in Conns, Remember(c) PROVE NoEarlyEvents' /\ PublishedOrHeld'
  <2> DEFINE e == [seq |-> eventSequence, graph |-> FALSE]
  <2>1. e \in Event /\ UNCHANGED <<applied, broadcast>>
    BY <1>9, <1>t DEF Event, TypeInv, TypeOK, Remember
  <2>2. Advance(c, "remembered", task[c].events) \/ Advance(c, "remembered", Append(task[c].events, e))
    BY <1>9 DEF Remember
  <2> HIDE DEF e
  <2>3. Append(task[c].events, e) \in Seq(Event) /\ Range(task[c].events) \subseteq Range(Append(task[c].events, e))
    BY <1>v, <2>1, RangeOfAppend
  <2> QED BY <1>6, <1>v, <2>1, <2>2, <2>3
<1>10. ASSUME NEW c \in Conns, AckSent(c) PROVE NoEarlyEvents' /\ PublishedOrHeld'
  <2>1. UNCHANGED <<applied, broadcast>>
        /\ \/ task[c].events = <<>> /\ Finish(c)
           \/ Advance(c, "publishing", task[c].events)
    BY <1>10 DEF AckSent
  <2> QED BY <1>6, <1>7, <1>e, <1>v, <2>1
<1>11. ASSUME NEW c \in Conns, PublishToStore(c) PROVE NoEarlyEvents' /\ PublishedOrHeld'
  <2>1. Advance(c, "stored", task[c].events) /\ UNCHANGED <<applied, broadcast>>
    BY <1>11 DEF PublishToStore
  <2> QED BY <1>6, <1>v, <2>1
<1>12. ASSUME NEW c \in Conns, PublishToQueues(c) PROVE NoEarlyEvents' /\ PublishedOrHeld'
  <2> DEFINE e == Head(task[c].events)
             rest == Tail(task[c].events)
  <2>1. task[c].events # <<>>
    BY <1>12, <1>t DEF PublishToQueues, TypeInv, TaskShape
  <2>2. rest \in Seq(Event) /\ Range(task[c].events) = Range(rest) \cup {e}
    BY <1>v, <2>1, RangeOfTail
  <2>3. /\ broadcast' = broadcast \cup {e} /\ applied' = applied
        /\ IF rest = <<>> THEN Finish(c) ELSE Advance(c, "publishing", rest)
    BY <1>12 DEF PublishToQueues
  <2> HIDE DEF e, rest
  <2>4. CASE rest = <<>>
    BY <1>7, <1>e, <2>2, <2>3, <2>4
  <2>5. CASE rest # <<>>
    BY <1>6, <2>2, <2>3, <2>5
  <2> QED BY <2>4, <2>5
<1>13. ASSUME NEW c \in Conns,
              \/ \E w \in Clients : Connect(c, w)
              \/ HelloSnapshot(c) \/ Attach(c) \/ Receive(c)
              \/ \E k \in Commands : CachedCommand(c, k)
       PROVE  UNCHANGED <<task, applied, broadcast>>
  BY <1>13 DEF Connect, HelloSnapshot, Attach, HelloAttach, Receive, ReceiveEvent, ReceiveLagged, CachedCommand
<1>14. ASSUME NEW c \in Conns, Disconnect(c) PROVE NoEarlyEvents' /\ PublishedOrHeld'
  BY <1>2, <1>14 DEF Disconnect
<1>15. ASSUME NEW c \in Conns, AckFails(c) \/ \E r : HelloFails(c, r) PROVE NoEarlyEvents' /\ PublishedOrHeld'
  BY <1>3, <1>15 DEF AckFails, HelloFails
<1>16. ASSUME NEW t \in DOMAIN resumeTokens, ExpireToken(t) PROVE NoEarlyEvents' /\ PublishedOrHeld'
  BY <1>1, <1>16 DEF ExpireToken
<1>17. CASE UNCHANGED vars
  BY <1>1, <1>17 DEF vars
<1>18. ASSUME NEW k \in DOMAIN results, ResultAges(k) PROVE NoEarlyEvents' /\ PublishedOrHeld'
  BY <1>1, <1>18 DEF ResultAges
<1> QED
  BY <1>1, <1>4, <1>5, <1>8, <1>9, <1>10, <1>11, <1>12, <1>13, <1>14, <1>15, <1>16, <1>17, <1>18
     DEF Next, HandleCommand

\* Every accepted command is published, for any sockets and interleaving of
\* their handlers, unless an acknowledgement could not be sent.
THEOREM AcceptedIsPublished == Spec => []AppliedIsPublished
<1>1. Init => DeliveryInv
  <2>1. Init => TypeInv
    BY TypeInit
  <2>2. Init => NoEarlyEvents /\ AppliedSeqs = {}
    BY DEF Init, NoEarlyEvents, Idle, AppliedSeqs
  <2> QED BY <2>1, <2>2 DEF DeliveryInv, PublishedOrHeld
<1>2. DeliveryInv /\ [Next]_vars => DeliveryInv'
  BY DeliveryStep
<1>3. DeliveryInv => AppliedIsPublished
  <2>1. Range(Idle.events) = {}
    BY DEF Range, Idle
  <2> QED BY <2>1 DEF DeliveryInv, PublishedOrHeld, AppliedIsPublished, Quiet
<1> QED BY <1>1, <1>2, <1>3, PTL DEF Spec

----------------------------------------------------------------------------
(* Retries.                                                                *)

\* What pruning takes away was earlier than the first stored event, or aged, or
\* earlier than ReplayLimit later results.
LEMMA PruneReason ==
    ASSUME NEW f, NEW A, NEW s, NEW n \in Nat, NEW k \in DOMAIN f,
           \A j \in DOMAIN f : f[j].seq \in Nat /\ f[j].seq < n,
           \A i, j \in DOMAIN f : f[i].seq = f[j].seq => i = j,
           s # <<>> => s[1].seq \in Nat,
           k \notin DOMAIN prune_idempotency_results(f, A, s)
    PROVE  (s # <<>> /\ f[k].seq < s[1].seq) \/ f[k].seq \in A \/ n - f[k].seq > ReplayLimit
<1> DEFINE stored == {j \in DOMAIN f : s = <<>> \/ f[j].seq >= s[1].seq}
           h == Restrict(f, stored)
           kept == {j \in DOMAIN h : h[j].seq \notin A}
           g == Restrict(h, kept)
           later == {j \in DOMAIN g : g[j].seq > g[k].seq}
<1>0. DOMAIN h = stored /\ \A j \in stored : h[j] = f[j]
  BY DEF Restrict
<1>1. DOMAIN g = kept /\ kept \subseteq DOMAIN f /\ \A j \in kept : g[j] = f[j]
  BY <1>0 DEF Restrict
<1>2. CASE k \notin kept
  <2>1. f[k].seq \in Nat
    OBVIOUS
  <2> QED BY <1>0, <1>2, <2>1
<1>3. CASE k \in kept
  <2>1. DOMAIN prune_idempotency_results(f, A, s) = Newest(g)
    BY DEF prune_idempotency_results, Restrict
  <2>2. ~ (Cardinality(later) < ReplayLimit)
    BY <1>1, <1>3, <2>1 DEF Newest
  <2> DEFINE lo == f[k].seq + 1
             hi == n - 1
             m == [j \in later |-> f[j].seq]
  <2>3. f[k].seq \in Nat /\ f[k].seq < n /\ lo \in Int /\ hi \in Int /\ hi - lo + 1 = n - 1 - f[k].seq /\ lo <= hi + 1
    OBVIOUS
  <2>4. \A j \in later : f[j].seq \in lo..hi
    <3>1. \A j \in later : j \in DOMAIN f /\ f[j].seq > f[k].seq
      BY <1>1, <1>3
    <3>2. SUFFICES ASSUME NEW j \in later PROVE f[j].seq \in lo..hi
      OBVIOUS
    <3>3. f[j].seq \in Nat /\ f[j].seq < n /\ f[j].seq > f[k].seq
      BY <3>1
    <3> HIDE DEF later
    <3> QED BY <2>3, <3>3
  <2>5. m \in Injection(later, lo..hi)
    <3>1. later \subseteq DOMAIN f
      BY <1>1
    <3>2. m \in [later -> lo..hi]
      BY <2>4
    <3> QED BY <3>1, <3>2 DEF Injection, IsInjective
  <2> HIDE DEF lo, hi, m, later
  <2>6. IsFiniteSet(lo..hi) /\ Cardinality(lo..hi) = IF lo > hi THEN 0 ELSE hi - lo + 1
    BY <2>3, FS_Interval
  <2>7. IsFiniteSet(later) /\ Cardinality(later) <= Cardinality(lo..hi)
    BY <2>5, <2>6, FS_Injection
  <2>8. Cardinality(later) \in Nat
    BY <2>7, FS_CardinalityType
  <2>9. ReplayLimit \in Nat
    BY RealtimeAssumption
  <2>10. Cardinality(lo..hi) = n - 1 - f[k].seq
    BY <2>3, <2>6
  <2>11. ReplayLimit <= n - 1 - f[k].seq
    BY <2>2, <2>3, <2>7, <2>8, <2>9, <2>10
  <2> QED BY <2>3, <2>9, <2>11
<1> QED BY <1>2, <1>3

\* Where a client opens no second socket while its first is served, an
\* identity is held by one socket at a time, of the client it was issued to.
SocketsInv ==
    /\ \A c \in Conns : status[c] = "closed" => identity[c] = None
    /\ \A c \in Open : peer[c] \in Clients
    /\ \A c, d \in Open : peer[c] = peer[d] => c = d
    /\ \A c \in Conns : identity[c] # None => identity[c] < connectionSequence
    /\ \A w \in Clients : token[w] # None => token[w] < connectionSequence
    /\ \A v, w \in Clients : token[v] = token[w] /\ token[v] # None => v = w
    /\ \A c \in Conns, w \in Clients :
         identity[c] # None /\ token[w] \in DOMAIN resumeTokens /\ resumeTokens[token[w]] = identity[c]
         => peer[c] = w
    /\ \A c, d \in Conns : identity[c] = identity[d] /\ identity[c] # None => c = d

\* Sequences are handed out once.
SequencesInv ==
    /\ \A c \in Conns : task[c].stage # "idle" => task[c].seq < eventSequence
    /\ \A c \in Conns : \A e \in Range(task[c].events) : e.seq < eventSequence
    /\ \A e \in broadcast : e.seq < eventSequence
    /\ \A i \in DOMAIN applied : applied[i].seq < eventSequence
    /\ \A k \in DOMAIN results : results[k].seq < eventSequence
    /\ \A c, d \in Conns :
         task[c].stage # "idle" /\ task[d].stage # "idle" /\ task[c].seq = task[d].seq => c = d
    /\ \A k, l \in DOMAIN results : results[k].seq = results[l].seq => k = l
    /\ \A c \in Conns, k \in DOMAIN results :
         task[c].stage \in {"sequenced", "applied"} => results[k].seq # task[c].seq

StoreInv == Range(store) \subseteq Published

\* Why the result of sequence s may be forgotten when sequence n is handed out,
\* P being the published events and A the aged results.
Reason(P, A, s, n) ==
    (\E e \in P : e.seq \in (s + 1)..(n - 1)) \/ s \in A \/ n - s > ReplayLimit

\* An applied command is remembered in the results R, about to be by a handler
\* (of tasks T and identities I), or forgotten for a reason.
Kept(R, a) ==
    /\ <<a.id, a.cmd>> \in DOMAIN R
    /\ R[<<a.id, a.cmd>>].seq = a.seq
Pending(T, I, a) ==
    \E c \in Conns :
      T[c].stage = "applied" /\ I[c] = a.id /\ T[c].cmd = a.cmd /\ T[c].seq = a.seq
RememberedInv ==
    \A i \in DOMAIN applied :
      \/ Kept(results, applied[i]) \/ Pending(task, identity, applied[i])
      \/ Reason(Published, aged, applied[i].seq, eventSequence)

\* What a command under way on a socket of identity I repeats was not in the
\* cache for a reason, P, A as in Reason, T the handler's task.
Repeats(I, T, a) == a.id = I /\ a.cmd = T.cmd
UnderWay(P, A, I, T, a) ==
    Repeats(I, T, a) =>
      /\ T.stage = "sequenced" => Reason(P, A, a.seq, T.seq)
      /\ T.stage = "applied" => a.seq = T.seq \/ Reason(P, A, a.seq, T.seq)
UnderWayInv ==
    \A c \in Conns, i \in DOMAIN applied :
      UnderWay(Published, aged, identity[c], task[c], applied[i])

RetryInv ==
    /\ TokenInv /\ DeliveryInv /\ SocketsInv /\ SequencesInv /\ StoreInv
    /\ RememberedInv /\ UnderWayInv /\ RetryIsRemembered

\* The kinds of step, as the invariants of the retries tell them apart.
LEMMA Kinds ==
    ASSUME TypeInv, [Next]_vars
    PROVE  \/ /\ UNCHANGED <<task, results, store, broadcast, eventSequence, applied>>
              /\ \A c \in Conns : task[c].stage # "idle" => identity'[c] = identity[c]
           \/ \E c \in Conns : /\ Close(c) /\ task[c].stage \in {"idle", "remembered"}
                               /\ UNCHANGED <<results, store, broadcast, eventSequence, applied>>
           \/ \E c \in Conns : HandleCommand(c) \/ \E k \in Commands : BeginCommand(c, k) \/ CachedCommand(c, k)
<1> USE DEF shared, socket, client
<1>1. ASSUME NEW c \in Conns, \E w \in Clients : Connect(c, w)
      PROVE  UNCHANGED <<task, results, store, broadcast, eventSequence, applied, identity>>
  BY <1>1 DEF Connect
<1>2. ASSUME NEW c \in Conns, HelloSnapshot(c) \/ Receive(c)
      PROVE  UNCHANGED <<task, results, store, broadcast, eventSequence, applied, identity>>
  BY <1>2 DEF HelloSnapshot, Receive, ReceiveEvent, ReceiveLagged
<1>3. ASSUME NEW t \in DOMAIN resumeTokens, ExpireToken(t)
      PROVE  UNCHANGED <<task, results, store, broadcast, eventSequence, applied, identity>>
  BY <1>3 DEF ExpireToken
<1>8. ASSUME NEW k \in DOMAIN results, ResultAges(k)
      PROVE  UNCHANGED <<task, results, store, broadcast, eventSequence, applied, identity>>
  BY <1>8 DEF ResultAges
<1>4. ASSUME UNCHANGED vars
      PROVE  UNCHANGED <<task, results, store, broadcast, eventSequence, applied, identity>>
  BY <1>4 DEF vars
<1>5. ASSUME NEW c \in Conns, Disconnect(c) \/ AckFails(c)
      PROVE  /\ Close(c) /\ task[c].stage \in {"idle", "remembered"}
             /\ UNCHANGED <<results, store, broadcast, eventSequence, applied>>
  BY <1>5 DEF Disconnect, AckFails, Idle
<1>6. ASSUME NEW c \in Conns, NEW r, HelloFails(c, r)
      PROVE  /\ Close(c) /\ task[c].stage \in {"idle", "remembered"}
             /\ UNCHANGED <<results, store, broadcast, eventSequence, applied>>
  BY <1>6 DEF HelloFails, TypeInv, TaskShape
<1>7. ASSUME NEW c \in Conns, Attach(c)
      PROVE  /\ UNCHANGED <<task, results, store, broadcast, eventSequence, applied>>
             /\ \A d \in Conns : task[d].stage # "idle" => identity'[d] = identity[d]
  BY <1>7 DEF Attach, HelloAttach, TypeInv, TypeOK, TaskShape
<1> QED BY <1>1, <1>2, <1>3, <1>4, <1>5, <1>6, <1>7, <1>8 DEF Next

LEMMA SequenceTypes ==
    ASSUME TypeInv
    PROVE  /\ eventSequence \in Nat \ {0}
           /\ \A c \in Conns : task[c].seq \in Nat /\ task[c].events \in Seq(Event)
                               /\ \A e \in Range(task[c].events) : e \in Event /\ e.seq \in Nat
           /\ \A e \in broadcast : e.seq \in Nat
           /\ \A i \in DOMAIN applied :
                applied[i].seq \in Nat /\ applied[i].id \in Nat /\ applied[i].cmd \in Commands
           /\ \A k \in DOMAIN results : results[k].seq \in Nat
           /\ store # <<>> => store[1].seq \in Nat /\ store[1] \in Range(store)
<1>1. \A c \in Conns : task[c].seq \in Nat /\ task[c].events \in Seq(Event)
  BY DEF TypeInv, TypeOK, Task
<1>2. ASSUME NEW s \in Seq(Event) PROVE Range(s) \subseteq Event
  BY DEF Range
<1>3. \A i \in DOMAIN applied : applied[i].seq \in Nat /\ applied[i].id \in Nat /\ applied[i].cmd \in Commands
  <2> DEFINE Entry == [cmd : Commands, id : Nat, seq : Nat \ {0}]
  <2>1. applied \in Seq(Entry)
    BY DEF TypeInv, TypeOK
  <2>2. ASSUME NEW i \in DOMAIN applied PROVE applied[i] \in Entry
    <3> HIDE DEF Entry
    <3> QED BY <2>1, <2>2
  <2> QED BY <2>2
<1>4. \A k \in DOMAIN results : results[k].seq \in Nat
  BY DEF TypeInv, TypeOK
<1>5. store # <<>> => store[1].seq \in Nat /\ store[1] \in Range(store)
  <2> SUFFICES ASSUME store # <<>> PROVE store[1].seq \in Nat /\ store[1] \in Range(store)
    OBVIOUS
  <2>1. store \in Seq(Event)
    BY DEF TypeInv, TypeOK
  <2>2. 1 \in DOMAIN store /\ store[1] \in Event
    BY <2>1
  <2> QED BY <2>2 DEF Event, Range
<1>6. \A e \in Event : e.seq \in Nat
  BY DEF Event
<1> QED BY <1>1, <1>2, <1>3, <1>4, <1>5, <1>6 DEF TypeInv, TypeOK

\* What an event has entered the store for good is published.
LEMMA PublishedStep ==
    ASSUME TypeInv, StoreInv, [Next]_vars
    PROVE  StoreInv' /\ Published \subseteq Published'
<1>t. task \in [Conns -> Task] /\ {"applied", "remembered", "publishing", "stored"} \subseteq Stages
  BY DEF TypeInv, TypeOK, Stages
<1>v. \A c \in Conns : task[c].events \in Seq(Event)
  BY SequenceTypes
<1>1. ASSUME broadcast \subseteq broadcast',
             \A d \in Conns : task[d].stage = "stored" =>
               Head(task[d].events) \in broadcast' \/ (task'[d].stage = "stored" /\ task'[d].events = task[d].events)
      PROVE  Published \subseteq Published'
  BY <1>1 DEF Published
<1>2. ASSUME store' = store, Published \subseteq Published' PROVE StoreInv' /\ Published \subseteq Published'
  BY <1>2 DEF StoreInv
<1>3. ASSUME UNCHANGED <<store, broadcast>>, NEW c \in Conns, task[c].stage # "stored",
             \A d \in Conns \ {c} : task'[d] = task[d]
      PROVE  StoreInv' /\ Published \subseteq Published'
  BY <1>1, <1>2, <1>3
<1>4. CASE UNCHANGED <<task, store, broadcast>>
  BY <1>1, <1>2, <1>4
<1>5. ASSUME NEW c \in Conns, Close(c), task[c].stage \in {"idle", "remembered"}, UNCHANGED <<store, broadcast>>
      PROVE  StoreInv' /\ Published \subseteq Published'
  BY <1>3, <1>5, <1>t DEF Close
<1>6. ASSUME NEW c \in Conns, NEW k \in Commands, BeginCommand(c, k) PROVE StoreInv' /\ Published \subseteq Published'
  BY <1>3, <1>6, <1>t DEF BeginCommand, CommandArrives, Idle
<1>7. ASSUME NEW c \in Conns, NEW k \in Commands, CachedCommand(c, k) PROVE StoreInv' /\ Published \subseteq Published'
  BY <1>4, <1>7 DEF CachedCommand, socket
<1>8. ASSUME NEW c \in Conns, ApplyCommand(c) \/ RejectCommand(c) \/ Remember(c) \/ AckSent(c)
      PROVE  StoreInv' /\ Published \subseteq Published'
  BY <1>3, <1>8, <1>t DEF ApplyCommand, RejectCommand, Remember, AckSent, Advance, Finish, shared
<1>9. ASSUME NEW c \in Conns, PublishToStore(c) PROVE StoreInv' /\ Published \subseteq Published'
  <2> DEFINE e == Head(task[c].events)
  <2>1. /\ task[c].stage = "publishing" /\ broadcast' = broadcast /\ store' = PushBounded(store, e)
        /\ Advance(c, "stored", task[c].events)
    BY <1>9 DEF PublishToStore
  <2>2. task'[c].stage = "stored" /\ task'[c].events = task[c].events /\ \A d \in Conns \ {c} : task'[d] = task[d]
    BY <1>t, <1>v, <2>1, AdvanceFacts
  <2>3. Published \subseteq Published'
    BY <1>1, <2>1, <2>2
  <2>4. e \in Published'
    BY <2>2 DEF Published
  <2>5. e \in Event
    BY <1>v, <2>1, RangeOfTail DEF TypeInv, TaskShape
  <2> HIDE DEF e
  <2>6. Range(store') \subseteq Range(store) \cup {e}
    BY <2>1, <2>5, PushBoundedFacts DEF TypeInv, TypeOK
  <2> QED BY <2>3, <2>4, <2>6 DEF StoreInv
<1>10. ASSUME NEW c \in Conns, PublishToQueues(c) PROVE StoreInv' /\ Published \subseteq Published'
  <2> DEFINE e == Head(task[c].events)
  <2>1. store' = store /\ broadcast' = broadcast \cup {e} /\ \A d \in Conns \ {c} : task'[d] = task[d]
    BY <1>10, <1>t DEF PublishToQueues, Advance, Finish
  <2> HIDE DEF e
  <2>2. Published \subseteq Published'
    BY <1>1, <2>1 DEF e
  <2> QED BY <1>2, <2>1, <2>2
<1> QED BY Kinds, <1>4, <1>5, <1>6, <1>7, <1>8, <1>9, <1>10 DEF HandleCommand

\* A second hello of one socket, a lost attach frame and an expired token
\* leave each identity with one socket.
LEMMA SocketsStep ==
    ASSUME Overlap = FALSE, TokenInv, SocketsInv, [Next]_vars
    PROVE  SocketsInv'
<1> USE DEF shared, socket, client
<1>t. /\ connectionSequence \in Nat /\ None \notin Nat /\ None \notin Clients
      /\ \A c \in Conns : identity[c] \in Nat \cup {None} /\ peer[c] \in Clients \cup {None}
      /\ \A w \in Clients : token[w] \in Nat \cup {None}
      /\ \A t \in DOMAIN resumeTokens : t \in Nat /\ resumeTokens[t] \in Nat
  BY RealtimeAssumption DEF TokenInv, TypeInv, TypeOK
<1>i. /\ identity \in [Conns -> Nat \cup {None}] /\ peer \in [Conns -> Clients \cup {None}]
      /\ token \in [Clients -> Nat \cup {None}]
      /\ status \in [Conns -> {"closed", "connected", "hello", "attached"}]
  BY DEF TokenInv, TypeInv, TypeOK
<1>1. ASSUME Open' = Open, UNCHANGED <<peer, identity, connectionSequence, token>>,
             DOMAIN resumeTokens' \subseteq DOMAIN resumeTokens,
             \A t \in DOMAIN resumeTokens' : resumeTokens'[t] = resumeTokens[t]
      PROVE  SocketsInv'
  <2>1. \A c \in Conns : status'[c] = "closed" <=> status[c] = "closed"
    BY <1>1 DEF Open
  <2> QED BY <1>1, <2>1 DEF SocketsInv
<1>2. ASSUME UNCHANGED <<status, peer, identity, connectionSequence, token, resumeTokens>> PROVE SocketsInv'
  BY <1>1, <1>2 DEF Open
<1>3. ASSUME NEW t \in DOMAIN resumeTokens, ExpireToken(t) PROVE SocketsInv'
  <2>1. UNCHANGED <<status, peer, identity, connectionSequence, token>> /\ Open' = Open
    BY <1>3 DEF ExpireToken, Open
  <2>2. DOMAIN resumeTokens' \subseteq DOMAIN resumeTokens
        /\ \A u \in DOMAIN resumeTokens' : resumeTokens'[u] = resumeTokens[u]
    BY <1>3 DEF ExpireToken, Restrict
  <2> QED BY <1>1, <2>1, <2>2
<1>4. ASSUME NEW c \in Conns, HelloSnapshot(c) PROVE SocketsInv'
  <2>1. UNCHANGED <<peer, identity, connectionSequence, token, resumeTokens>> /\ Open' = Open
    BY <1>i, <1>4 DEF HelloSnapshot, Open
  <2> QED BY <1>1, <2>1
<1>5. ASSUME NEW c \in Conns, NEW w \in Clients, Connect(c, w) PROVE SocketsInv'
  <2>1. /\ Open' = Open \cup {c} /\ c \notin Open /\ \A d \in Open : peer[d] # w
        /\ peer'[c] = w /\ \A d \in Conns \ {c} : peer'[d] = peer[d] /\ status'[d] = status[d]
        /\ status'[c] # "closed"
        /\ UNCHANGED <<identity, connectionSequence, token, resumeTokens>>
    BY <1>i, <1>5 DEF Connect, Open
  <2>2. identity[c] = None
    BY <2>1 DEF SocketsInv, Open
  <2>3. Open \subseteq Conns
    BY DEF Open
  <2> QED BY <2>1, <2>2, <2>3 DEF SocketsInv
<1>6. ASSUME NEW c \in Conns, Close(c), connectionSequence' \in Nat, connectionSequence <= connectionSequence',
             \A w \in Clients : token[w] \in DOMAIN resumeTokens' =>
               token[w] \in DOMAIN resumeTokens /\ resumeTokens'[token[w]] = resumeTokens[token[w]]
      PROVE  SocketsInv'
  <2>1. /\ Open' = Open \ {c} /\ token' = token /\ identity'[c] = None /\ status'[c] = "closed"
        /\ \A d \in Conns \ {c} : peer'[d] = peer[d] /\ identity'[d] = identity[d] /\ status'[d] = status[d]
    BY <1>i, <1>6 DEF Close, Open
  <2>2. \A d \in Conns : identity'[d] # None => identity'[d] < connectionSequence'
    BY <1>6, <1>t, <2>1 DEF SocketsInv
  <2>3. \A w \in Clients : token'[w] # None => token'[w] < connectionSequence'
    BY <1>6, <1>t, <2>1 DEF SocketsInv
  <2>4. Open \subseteq Conns
    BY DEF Open
  <2> QED BY <1>6, <2>1, <2>2, <2>3, <2>4 DEF SocketsInv
<1>7. ASSUME NEW c \in Conns, Disconnect(c) \/ AckFails(c) PROVE SocketsInv'
  <2>1. Close(c) /\ UNCHANGED <<connectionSequence, resumeTokens>>
    BY <1>7 DEF Disconnect, AckFails
  <2> QED BY <1>t, <1>6, <2>1
<1>8. ASSUME NEW r, issue_connection_identity(r)
      PROVE  /\ connectionSequence' = connectionSequence + 1
             /\ \A t \in DOMAIN resumeTokens' :
                  \/ t = connectionSequence /\ resumeTokens'[t] = ResumedIdentity(r)
                  \/ t \in DOMAIN resumeTokens \ {r} /\ resumeTokens'[t] = resumeTokens[t]
             /\ ResumedIdentity(r) \in Nat /\ ResumedIdentity(r) <= connectionSequence
  <2>1. resumeTokens' = Put(consume_resume_token(r), connectionSequence, ResumedIdentity(r))
        /\ connectionSequence' = connectionSequence + 1
    BY <1>8 DEF issue_connection_identity
  <2>2. ResumedIdentity(r) \in Nat /\ ResumedIdentity(r) <= connectionSequence
    BY <1>t DEF ResumedIdentity, TokenInv, TokensIssued
  <2>3. ASSUME NEW t \in DOMAIN resumeTokens'
        PROVE  \/ t = connectionSequence /\ resumeTokens'[t] = ResumedIdentity(r)
               \/ t \in DOMAIN resumeTokens \ {r} /\ resumeTokens'[t] = resumeTokens[t]
    BY <2>1, <2>3 DEF Put, consume_resume_token, Restrict
  <2> QED BY <2>1, <2>2, <2>3
<1>9. ASSUME NEW c \in Conns, NEW r, HelloFails(c, r) PROVE SocketsInv'
  <2>1. Close(c) /\ issue_connection_identity(r)
    BY <1>9 DEF HelloFails
  <2>2. ASSUME NEW w \in Clients, token[w] \in DOMAIN resumeTokens'
        PROVE  token[w] \in DOMAIN resumeTokens /\ resumeTokens'[token[w]] = resumeTokens[token[w]]
    <3>1. token[w] # connectionSequence
      BY <1>t DEF SocketsInv
    <3> QED BY <1>8, <2>1, <2>2, <3>1
  <2> QED BY <1>t, <1>6, <1>8, <2>1, <2>2
<1>10. ASSUME NEW c \in Conns, NEW r \in {None, token[peer[c]]}, NEW l, HelloAttach(c, r, l) PROVE SocketsInv'
  <2> DEFINE id == ResumedIdentity(r)
             p == peer[c]
  <2>1. /\ c \in Open /\ Open' = Open /\ peer' = peer /\ issue_connection_identity(r)
        /\ identity'[c] = id /\ \A d \in Conns \ {c} : identity'[d] = identity[d]
        /\ \A d \in Conns : status'[d] = "closed" <=> status[d] = "closed"
    BY <1>i, <1>10 DEF HelloAttach, Open
  <2>2. p \in Clients
    BY <2>1 DEF SocketsInv
  <2>3. token'[p] = connectionSequence /\ \A w \in Clients \ {p} : token'[w] = token[w]
    BY <1>i, <1>10, <2>2 DEF HelloAttach
  <2>4. /\ id \in Nat /\ id <= connectionSequence /\ connectionSequence' = connectionSequence + 1
        /\ \A t \in DOMAIN resumeTokens' :
             \/ t = connectionSequence /\ resumeTokens'[t] = id
             \/ t \in DOMAIN resumeTokens \ {r} /\ resumeTokens'[t] = resumeTokens[t]
    BY <1>8, <2>1
  <2>5. \/ r \notin DOMAIN resumeTokens /\ id = connectionSequence
        \/ r \in DOMAIN resumeTokens /\ r = token[p] /\ id = resumeTokens[r]
    BY <1>t, <1>10 DEF ResumedIdentity
  <2>6. ASSUME NEW d \in Conns \ {c} PROVE identity[d] # id
    <3>1. CASE id = connectionSequence
      BY <1>t, <3>1 DEF SocketsInv
    <3>2. CASE r \in DOMAIN resumeTokens /\ r = token[p] /\ id = resumeTokens[r]
      <4> SUFFICES ASSUME identity[d] = id PROVE FALSE
        OBVIOUS
      <4>1. identity[d] # None
        BY <1>t, <2>4
      <4>2. peer[d] = p
        BY <2>2, <3>2, <4>1 DEF SocketsInv
      <4>3. d \in Open
        BY <4>1 DEF SocketsInv, Open
      <4> QED BY <2>1, <4>2, <4>3 DEF SocketsInv
    <3> QED BY <2>5, <3>1, <3>2
  <2>7. ASSUME NEW t \in DOMAIN resumeTokens \ {r} PROVE resumeTokens[t] # id /\ t < connectionSequence
    BY <1>t, <2>5 DEF TokenInv, TokensIssued, OneTokenPerIdentity
  <2> HIDE DEF id, p
  <2>8. /\ \A d \in Conns : identity'[d] # None => identity'[d] < connectionSequence'
        /\ \A w \in Clients : token'[w] # None => token'[w] < connectionSequence'
    <3>1. \A d \in Conns : identity'[d] # None => identity'[d] < connectionSequence'
      BY <1>t, <2>1, <2>4 DEF SocketsInv
    <3>2. \A w \in Clients : token'[w] # None => token'[w] < connectionSequence'
      BY <1>t, <2>3, <2>4 DEF SocketsInv
    <3> QED BY <3>1, <3>2
  <2>9. \A v, w \in Clients : token'[v] = token'[w] /\ token'[v] # None => v = w
    BY <1>t, <2>3 DEF SocketsInv
  <2>10. ASSUME NEW d \in Conns, NEW w \in Clients,
                identity'[d] # None, token'[w] \in DOMAIN resumeTokens', resumeTokens'[token'[w]] = identity'[d]
         PROVE  peer[d] = w
    <3>1. CASE w = p
      <4>1. identity'[d] = id
        BY <2>3, <2>4, <2>7, <2>10, <3>1, <1>t
      <4> QED BY <2>1, <2>6, <3>1, <4>1 DEF p
    <3>2. CASE w # p
      <4>1. token'[w] = token[w] /\ token[w] # connectionSequence
        BY <1>t, <2>3, <3>2 DEF SocketsInv
      <4>2. token[w] \in DOMAIN resumeTokens \ {r} /\ resumeTokens[token[w]] = identity'[d]
        BY <2>4, <2>10, <4>1
      <4>3. d # c
        BY <2>1, <2>7, <4>2
      <4> QED BY <2>1, <2>10, <4>2, <4>3 DEF SocketsInv
    <3> QED BY <3>1, <3>2
  <2>11. \A d, e \in Conns : identity'[d] = identity'[e] /\ identity'[d] # None => d = e
    BY <2>1, <2>6 DEF SocketsInv
  <2>12. /\ \A d \in Conns : status'[d] = "closed" => identity'[d] = None
         /\ \A d \in Open' : peer'[d] \in Clients
         /\ \A d, e \in Open' : peer'[d] = peer'[e] => d = e
    <3>1. status[c] # "closed"
      BY <2>1 DEF Open
    <3> QED BY <2>1, <3>1 DEF SocketsInv
  <2> QED BY <2>1, <2>8, <2>9, <2>10, <2>11, <2>12 DEF SocketsInv
<1>11. ASSUME NEW c \in Conns,
              \/ \E k \in Commands : BeginCommand(c, k) \/ CachedCommand(c, k)
              \/ HandleCommand(c) \/ Receive(c)
       PROVE  UNCHANGED <<status, peer, identity, connectionSequence, token, resumeTokens>>
  BY <1>11 DEF HandleCommand, Receive, BeginCommand, CachedCommand, ApplyCommand, RejectCommand,
               Remember, AckSent, PublishToStore, PublishToQueues, ReceiveEvent, ReceiveLagged
<1>12. CASE UNCHANGED vars
  BY <1>2, <1>12 DEF vars
<1>13. ASSUME NEW c \in Conns, Attach(c) PROVE SocketsInv'
  BY <1>10, <1>13 DEF Attach
<1>14. ASSUME NEW k \in DOMAIN results, ResultAges(k)
       PROVE  UNCHANGED <<status, peer, identity, connectionSequence, token, resumeTokens>>
  BY <1>14 DEF ResultAges
<1> QED BY <1>2, <1>3, <1>4, <1>5, <1>7, <1>9, <1>11, <1>12, <1>13, <1>14 DEF Next

\* What a step does to the results is to forget some, but for remember_ack.
ResultsKept ==
    DOMAIN results' \subseteq DOMAIN results /\ \A k \in DOMAIN results' : results'[k] = results[k]

\* Steps that hand out no sequence and remember nothing.
LEMMA SequencesKept ==
    ASSUME TypeInv, SequencesInv, eventSequence' = eventSequence, ResultsKept,
           \A d \in Conns : task'[d].stage # "idle" => task[d].stage # "idle" /\ task'[d].seq = task[d].seq,
           \A d \in Conns : task'[d].stage \in {"sequenced", "applied"} => task[d].stage \in {"sequenced", "applied"},
           \A d \in Conns : \A e \in Range(task'[d].events) : e.seq < eventSequence,
           \A e \in broadcast' : e.seq < eventSequence,
           \A i \in DOMAIN applied' : applied'[i].seq < eventSequence
    PROVE  SequencesInv'
<1>1. /\ \A c \in Conns : task'[c].stage # "idle" => task'[c].seq < eventSequence'
      /\ \A c \in Conns : \A e \in Range(task'[c].events) : e.seq < eventSequence'
      /\ \A e \in broadcast' : e.seq < eventSequence'
      /\ \A i \in DOMAIN applied' : applied'[i].seq < eventSequence'
  BY DEF SequencesInv
<1>2. /\ \A k \in DOMAIN results' : results'[k].seq < eventSequence'
      /\ \A k, l \in DOMAIN results' : results'[k].seq = results'[l].seq => k = l
  BY DEF SequencesInv, ResultsKept
<1>3. \A c, d \in Conns :
        task'[c].stage # "idle" /\ task'[d].stage # "idle" /\ task'[c].seq = task'[d].seq => c = d
  BY DEF SequencesInv
<1>4. \A c \in Conns, k \in DOMAIN results' :
        task'[c].stage \in {"sequenced", "applied"} => results'[k].seq # task'[c].seq
  BY DEF SequencesInv, ResultsKept
<1> QED BY <1>1, <1>2, <1>3, <1>4 DEF SequencesInv

\* The results that pruning leaves.
LEMMA PruneKeeps ==
    ASSUME NEW s, results' = prune_idempotency_results(results, aged, s)
    PROVE  ResultsKept
BY PruneFacts DEF ResultsKept

\* What remember_ack leaves in the cache.
LEMMA RememberedResults ==
    ASSUME NEW c \in Conns, Remember(c)
    PROVE  \A k \in DOMAIN results' :
             \/ k = <<identity[c], task[c].cmd>> /\ results'[k].seq = task[c].seq
             \/ k \in DOMAIN results /\ results'[k] = results[k]
<1> DEFINE x == <<identity[c], task[c].cmd>>
           v == [seq |-> task[c].seq, emitted |-> task[c].events # <<>>]
           put == Put(results, x, v)
<1>1. results' = prune_idempotency_results(put, aged, store)
  BY DEF Remember
<1>2. \A k \in DOMAIN put : \/ k = x /\ put[k].seq = task[c].seq
                            \/ k \in DOMAIN results /\ put[k] = results[k]
  BY DEF Put
<1> HIDE DEF put
<1> QED BY <1>1, <1>2, PruneFacts

\* A sequence is handed out to one command or catalog event, and remembered
\* under one key.
LEMMA SequencesStep ==
    ASSUME TypeInv, SequencesInv, [Next]_vars
    PROVE  SequencesInv'
<1> USE DEF shared, socket, client
<1>t. task \in [Conns -> Task] /\ {"applied", "remembered", "publishing", "stored"} \subseteq Stages
  BY DEF TypeInv, TypeOK, Stages
<1>v. /\ eventSequence \in Nat
      /\ \A c \in Conns : task[c].seq \in Nat /\ task[c].events \in Seq(Event)
      /\ \A e \in broadcast : e.seq \in Nat
      /\ \A i \in DOMAIN applied : applied[i].seq \in Nat
      /\ \A k \in DOMAIN results : results[k].seq \in Nat
  BY SequenceTypes
<1>e. Range(<<>>) = {} /\ Idle.events = <<>> /\ Idle.stage = "idle"
  BY DEF Range, Idle
<1>o. /\ \A d \in Conns : \A e \in Range(task[d].events) : e.seq < eventSequence
      /\ \A e \in broadcast : e.seq < eventSequence
      /\ \A i \in DOMAIN applied : applied[i].seq < eventSequence
      /\ \A d \in Conns : task[d].stage # "idle" => task[d].seq < eventSequence
  BY DEF SequencesInv
<1>k. results' = results => ResultsKept
  BY DEF ResultsKept
<1>1. CASE UNCHANGED <<task, results, store, broadcast, eventSequence, applied>>
  BY <1>1, <1>k, <1>o, SequencesKept
<1>2. ASSUME NEW c \in Conns, Close(c), UNCHANGED <<results, store, broadcast, eventSequence, applied>>
      PROVE  SequencesInv'
  <2>1. task'[c] = Idle /\ \A d \in Conns \ {c} : task'[d] = task[d]
    BY <1>2, <1>t DEF Close
  <2> QED BY <1>2, <1>e, <1>k, <1>o, <2>1, SequencesKept
<1>3. ASSUME NEW c \in Conns, NEW k \in Commands, CachedCommand(c, k) PROVE SequencesInv'
  BY <1>3, <1>o, PruneKeeps, SequencesKept DEF CachedCommand
<1>4. ASSUME NEW c \in Conns, NEW st \in {"applied", "publishing", "stored"}, NEW ev \in Seq(Event),
             st = "applied" => task[c].stage = "sequenced",
             task[c].stage # "idle", Advance(c, st, ev), eventSequence' = eventSequence, ResultsKept,
             \A e \in Range(ev) : e.seq < eventSequence,
             \A e \in broadcast' : e.seq < eventSequence,
             \A i \in DOMAIN applied' : applied'[i].seq < eventSequence
      PROVE  SequencesInv'
  <2>1. /\ task'[c].stage = st /\ task'[c].events = ev /\ task'[c].seq = task[c].seq
        /\ \A d \in Conns \ {c} : task'[d] = task[d]
    BY <1>4, <1>t, AdvanceFacts
  <2> QED BY <1>4, <1>o, <2>1, SequencesKept
<1>5. ASSUME NEW c \in Conns, Finish(c), eventSequence' = eventSequence, results' = results, applied' = applied,
             \A e \in broadcast' : e.seq < eventSequence
      PROVE  SequencesInv'
  <2>1. task'[c].stage = "idle" /\ task'[c].events = <<>> /\ \A d \in Conns \ {c} : task'[d] = task[d]
    BY <1>5, <1>t, FinishFacts
  <2> QED BY <1>5, <1>e, <1>k, <1>o, <2>1, SequencesKept
<1>6. ASSUME NEW c \in Conns, ApplyCommand(c) PROVE SequencesInv'
  <2> DEFINE e == [seq |-> task[c].seq, graph |-> TRUE]
  <2>1. /\ task[c].stage = "sequenced" /\ Advance(c, "applied", <<e>>)
        /\ UNCHANGED <<eventSequence, results, broadcast>>
    BY <1>6 DEF ApplyCommand
  <2>2. \A i \in DOMAIN applied' : applied'[i].seq < eventSequence
    <3>1. \A i \in DOMAIN applied' : \/ (i \in DOMAIN applied /\ applied'[i] = applied[i])
                                    \/ applied'[i].seq = task[c].seq
      BY <1>6, AppliedEntries
    <3> QED BY <1>o, <2>1, <3>1
  <2>3. e \in Event /\ e.seq = task[c].seq
    BY <2>1 DEF Event, TypeInv, TaskShape
  <2> HIDE DEF e
  <2>4. <<e>> \in Seq(Event) /\ Range(<<e>>) = {e}
    BY <2>3 DEF Range
  <2> QED BY <1>4, <1>k, <1>o, <2>1, <2>2, <2>3, <2>4
<1>7. ASSUME NEW c \in Conns, RejectCommand(c) PROVE SequencesInv'
  <2>1. /\ task[c].stage = "sequenced" /\ Advance(c, "applied", <<>>)
        /\ UNCHANGED <<eventSequence, results, broadcast, applied>>
    BY <1>7 DEF RejectCommand
  <2>2. <<>> \in Seq(Event)
    OBVIOUS
  <2> QED BY <1>4, <1>e, <1>k, <1>o, <2>1, <2>2
<1>8. ASSUME NEW c \in Conns, AckSent(c) PROVE SequencesInv'
  <2>1. /\ task[c].stage = "remembered" /\ (Finish(c) \/ Advance(c, "publishing", task[c].events))
        /\ UNCHANGED <<eventSequence, results, broadcast, applied>>
    BY <1>8 DEF AckSent
  <2> QED BY <1>4, <1>5, <1>k, <1>o, <1>v, <2>1
<1>9. ASSUME NEW c \in Conns, PublishToStore(c) PROVE SequencesInv'
  <2>1. /\ task[c].stage = "publishing" /\ Advance(c, "stored", task[c].events) /\ ResultsKept
        /\ UNCHANGED <<eventSequence, broadcast, applied>>
    BY <1>9, PruneKeeps DEF PublishToStore
  <2> QED BY <1>4, <1>o, <1>v, <2>1
<1>10. ASSUME NEW c \in Conns, PublishToQueues(c) PROVE SequencesInv'
  <2> DEFINE e == Head(task[c].events)
             rest == Tail(task[c].events)
  <2>1. task[c].events # <<>> /\ task[c].stage = "stored"
    BY <1>10 DEF PublishToQueues, TypeInv, TaskShape
  <2>2. rest \in Seq(Event) /\ Range(task[c].events) = Range(rest) \cup {e}
    BY <1>v, <2>1, RangeOfTail
  <2>3. /\ broadcast' = broadcast \cup {e} /\ UNCHANGED <<eventSequence, results, applied>>
        /\ Finish(c) \/ Advance(c, "publishing", rest)
    BY <1>10 DEF PublishToQueues
  <2> HIDE DEF e, rest
  <2>4. /\ \A x \in Range(rest) : x.seq < eventSequence
        /\ \A x \in broadcast' : x.seq < eventSequence
    BY <1>o, <2>2, <2>3
  <2> QED BY <1>4, <1>5, <1>k, <1>o, <2>1, <2>2, <2>3, <2>4
<1>11. ASSUME NEW c \in Conns, NEW k \in Commands, BeginCommand(c, k) PROVE SequencesInv'
  <2>1. /\ task'[c].stage = "sequenced" /\ task'[c].seq = eventSequence /\ task'[c].events = <<>>
        /\ \A d \in Conns \ {c} : task'[d] = task[d]
    BY <1>t, <1>11 DEF BeginCommand
  <2>2. eventSequence' = eventSequence + 1 /\ UNCHANGED <<applied, broadcast>> /\ ResultsKept
    BY <1>11, PruneKeeps DEF BeginCommand
  <2>3. \A d \in Conns : \A e \in Range(task[d].events) : e.seq \in Nat
    BY SequenceTypes
  <2>4. \A d \in Conns : task'[d].stage # "idle" => task'[d].seq < eventSequence'
    BY <1>o, <1>v, <2>1, <2>2
  <2>5. \A d \in Conns : \A e \in Range(task'[d].events) : e.seq < eventSequence'
    BY <1>e, <1>o, <1>v, <2>1, <2>2, <2>3
  <2>6. /\ \A e \in broadcast' : e.seq < eventSequence'
        /\ \A i \in DOMAIN applied' : applied'[i].seq < eventSequence'
    BY <1>o, <1>v, <2>2
  <2>7. /\ \A l \in DOMAIN results' : results'[l].seq < eventSequence
        /\ \A l \in DOMAIN results' : results'[l].seq < eventSequence'
        /\ \A l, m \in DOMAIN results' : results'[l].seq = results'[m].seq => l = m
    BY <1>v, <2>2 DEF SequencesInv, ResultsKept
  <2>8. \A a, b \in Conns :
          task'[a].stage # "idle" /\ task'[b].stage # "idle" /\ task'[a].seq = task'[b].seq => a = b
    BY <1>o, <1>v, <2>1 DEF SequencesInv
  <2>9. \A d \in Conns, l \in DOMAIN results' :
          task'[d].stage \in {"sequenced", "applied"} => results'[l].seq # task'[d].seq
    BY <1>v, <2>1, <2>2, <2>7 DEF SequencesInv, ResultsKept
  <2> QED BY <2>4, <2>5, <2>6, <2>7, <2>8, <2>9 DEF SequencesInv
<1>12. ASSUME NEW c \in Conns, Remember(c) PROVE SequencesInv'
  <2> DEFINE x == <<identity[c], task[c].cmd>>
             ev == task'[c].events
  <2>1. /\ task[c].stage = "applied" /\ UNCHANGED <<applied, broadcast>>
        /\ eventSequence' \in Nat /\ eventSequence <= eventSequence'
    BY <1>v, <1>12 DEF Remember
  <2>2. /\ task'[c].stage = "remembered" /\ task'[c].seq = task[c].seq
        /\ \A d \in Conns \ {c} : task'[d] = task[d]
        /\ \A e \in Range(task'[c].events) : e.seq < eventSequence'
    <3> DEFINE new == [seq |-> eventSequence, graph |-> FALSE]
    <3>1. \/ Advance(c, "remembered", task[c].events) /\ eventSequence' = eventSequence
          \/ Advance(c, "remembered", Append(task[c].events, new)) /\ eventSequence' = eventSequence + 1
      BY <1>12 DEF Remember
    <3>2. new \in Event /\ new.seq = eventSequence
      BY DEF Event, TypeInv, TypeOK
    <3>3. \A e \in Range(task[c].events) : e.seq \in Nat
      BY SequenceTypes
    <3> HIDE DEF new
    <3>4. Append(task[c].events, new) \in Seq(Event)
          /\ Range(Append(task[c].events, new)) = Range(task[c].events) \cup {new}
      BY <1>v, <3>2, RangeOfAppend
    <3>5. CASE Advance(c, "remembered", task[c].events) /\ eventSequence' = eventSequence
      BY <1>t, <1>v, <1>o, <3>5, AdvanceFacts
    <3>6. CASE Advance(c, "remembered", Append(task[c].events, new)) /\ eventSequence' = eventSequence + 1
      <4>1. \A e \in Range(task[c].events) \cup {new} : e.seq < eventSequence'
        BY <1>v, <1>o, <3>2, <3>3, <3>6
      <4> QED BY ZenonT(40), <1>t, <3>4, <3>6, <4>1, AdvanceFacts
    <3> QED BY <3>1, <3>5, <3>6
  <2>3. \A l \in DOMAIN results' :
          \/ l = x /\ results'[l].seq = task[c].seq
          \/ l \in DOMAIN results /\ results'[l] = results[l]
    BY <1>12, RememberedResults
  <2>4. \A l \in DOMAIN results : results[l].seq < eventSequence /\ results[l].seq # task[c].seq
    BY <2>1 DEF SequencesInv
  <2>5. task[c].seq < eventSequence
    BY <1>o, <2>1
  <2>6. /\ \A d \in Conns : task'[d].stage # "idle" => task'[d].seq < eventSequence'
        /\ \A e \in broadcast' : e.seq < eventSequence'
        /\ \A i \in DOMAIN applied' : applied'[i].seq < eventSequence'
    BY <1>o, <1>v, <2>1, <2>2, <2>5
  <2>7. \A d \in Conns : \A e \in Range(task'[d].events) : e.seq < eventSequence'
    <3>1. \A d \in Conns : \A e \in Range(task[d].events) : e.seq \in Nat
      BY SequenceTypes
    <3> QED BY <1>o, <1>v, <2>1, <2>2, <3>1
  <2>8. \A l \in DOMAIN results' : results'[l].seq < eventSequence'
    BY <1>v, <2>1, <2>3, <2>4, <2>5
  <2>9. \A l, m \in DOMAIN results' : results'[l].seq = results'[m].seq => l = m
    BY <2>3, <2>4 DEF SequencesInv
  <2>10. \A a, b \in Conns :
           task'[a].stage # "idle" /\ task'[b].stage # "idle" /\ task'[a].seq = task'[b].seq => a = b
    BY <2>1, <2>2 DEF SequencesInv
  <2>11. \A d \in Conns, l \in DOMAIN results' :
           task'[d].stage \in {"sequenced", "applied"} => results'[l].seq # task'[d].seq
    <3>1. \A d \in Conns \ {c} : task[d].stage \in {"sequenced", "applied"} => task[d].seq # task[c].seq
      BY <2>1 DEF SequencesInv
    <3> QED BY <2>2, <2>3, <3>1 DEF SequencesInv
  <2> QED BY <2>6, <2>7, <2>8, <2>9, <2>10, <2>11 DEF SequencesInv
<1> QED BY Kinds, <1>1, <1>2, <1>3, <1>6, <1>7, <1>8, <1>9, <1>10, <1>11, <1>12 DEF HandleCommand

----------------------------------------------------------------------------
(* What a retry finds.                                                     *)

\* Every published event has an earlier sequence than the next.
PublishedInv == \A e \in Published : e.seq \in Nat /\ e.seq < eventSequence

LEMMA PublishedTypes == TypeInv /\ SequencesInv => PublishedInv
<1> SUFFICES ASSUME TypeInv, SequencesInv, NEW e \in Published PROVE e.seq \in Nat /\ e.seq < eventSequence
  BY DEF PublishedInv
<1>1. CASE e \in broadcast
  BY <1>1, SequenceTypes DEF SequencesInv
<1>2. ASSUME NEW c \in Conns, task[c].stage = "stored", e = Head(task[c].events)
      PROVE  e.seq \in Nat /\ e.seq < eventSequence
  <2>1. e \in Range(task[c].events)
    BY <1>2, SequenceTypes, RangeOfTail DEF TypeInv, TaskShape
  <2> QED BY <2>1, SequenceTypes DEF SequencesInv
<1> QED BY <1>1, <1>2 DEF Published

\* A result that has aged stays aged.
LEMMA AgedGrows == [Next]_vars => aged \subseteq aged'
<1> SUFFICES ASSUME [Next]_vars PROVE aged \subseteq aged'
  OBVIOUS
<1> USE DEF shared
<1>1. ASSUME NEW c \in Conns PROVE HandleCommand(c) \/ Receive(c) \/ Attach(c) => aged' = aged
  BY DEF HandleCommand, ApplyCommand, RejectCommand, Remember, AckSent, PublishToStore, PublishToQueues,
         Receive, ReceiveEvent, ReceiveLagged, Attach, HelloAttach
<1>2. ASSUME NEW c \in Conns, NEW w
      PROVE  Connect(c, w) \/ HelloFails(c, w) \/ BeginCommand(c, w) \/ CachedCommand(c, w) => aged' = aged
  BY DEF Connect, HelloFails, BeginCommand, CachedCommand
<1>3. ASSUME NEW c \in Conns PROVE Disconnect(c) \/ HelloSnapshot(c) \/ AckFails(c) => aged' = aged
  BY DEF Disconnect, HelloSnapshot, AckFails
<1>4. ASSUME NEW t PROVE /\ ExpireToken(t) => aged' = aged
                         /\ ResultAges(t) => aged \subseteq aged'
  BY DEF ExpireToken, ResultAges
<1>5. CASE UNCHANGED vars
  BY <1>5 DEF vars
<1> QED BY <1>1, <1>2, <1>3, <1>4, <1>5 DEF Next

\* A reason stays one as events are published, results age and sequences are
\* used.
LEMMA ReasonGrows ==
    ASSUME NEW P, NEW Q, P \subseteq Q, NEW A, NEW B, A \subseteq B, NEW s \in Nat,
           NEW n \in Nat, NEW m \in Nat, n <= m, \A e \in P : e.seq \in Nat, Reason(P, A, s, n)
    PROVE  Reason(Q, B, s, m)
<1> USE RealtimeAssumption
<1>1. CASE n - s > ReplayLimit \/ s \in A
  BY <1>1 DEF Reason
<1>2. ASSUME NEW e \in P, e.seq \in (s + 1)..(n - 1) PROVE Reason(Q, B, s, m)
  <2>1. e.seq \in (s + 1)..(m - 1)
    BY <1>2
  <2> QED BY <2>1 DEF Reason
<1> QED BY <1>1, <1>2 DEF Reason

\* A result that pruning takes away is forgotten for a reason.
LEMMA Forgotten ==
    ASSUME NEW f, NEW A, NEW s, NEW n \in Nat, NEW P, NEW k \in DOMAIN f,
           \A j \in DOMAIN f : f[j].seq \in Nat /\ f[j].seq < n,
           \A i, j \in DOMAIN f : f[i].seq = f[j].seq => i = j,
           s # <<>> => s[1] \in P /\ s[1].seq \in Nat /\ s[1].seq < n
    PROVE  \/ /\ k \in DOMAIN prune_idempotency_results(f, A, s)
              /\ prune_idempotency_results(f, A, s)[k] = f[k]
           \/ Reason(P, A, f[k].seq, n)
<1>1. CASE k \in DOMAIN prune_idempotency_results(f, A, s)
  BY <1>1, PruneFacts
<1>2. CASE k \notin DOMAIN prune_idempotency_results(f, A, s)
  <2>1. s # <<>> => s[1].seq \in Nat
    OBVIOUS
  <2>2. (s # <<>> /\ f[k].seq < s[1].seq) \/ f[k].seq \in A \/ n - f[k].seq > ReplayLimit
    BY <1>2, <2>1, PruneReason
  <2>3. ASSUME s # <<>>, f[k].seq < s[1].seq PROVE s[1].seq \in (f[k].seq + 1)..(n - 1)
    BY <2>3
  <2> QED BY <2>2, <2>3 DEF Reason
<1> QED BY <1>1, <1>2

\* Steps that apply, begin and remember no command.
LEMMA RetryKept ==
    ASSUME TypeInv, SequencesInv, StoreInv, RememberedInv, UnderWayInv, RetryIsRemembered,
           TypeInv', SequencesInv', StoreInv', Published \subseteq Published', aged \subseteq aged',
           applied' = applied, eventSequence' = eventSequence,
           results' = results \/ results' = prune_idempotency_results(results, aged, store'),
           \A d \in Conns : task'[d].stage # "idle" =>
             /\ task[d].stage # "idle" /\ task'[d].seq = task[d].seq /\ task'[d].cmd = task[d].cmd
             /\ identity'[d] = identity[d],
           \A d \in Conns : task'[d].stage = "sequenced" => task[d].stage = "sequenced",
           \A d \in Conns : task'[d].stage = "applied" => task[d].stage \in {"sequenced", "applied"},
           \A d \in Conns : task[d].stage = "applied" => task'[d].stage = "applied"
    PROVE  RememberedInv' /\ UnderWayInv' /\ RetryIsRemembered'
<1>t. /\ eventSequence \in Nat
      /\ \A c \in Conns : task[c].seq \in Nat
      /\ \A i \in DOMAIN applied : applied[i].seq \in Nat
      /\ \A k \in DOMAIN results : results[k].seq \in Nat
  BY SequenceTypes
<1>p. PublishedInv /\ PublishedInv'
  BY PublishedTypes, PTL
<1>r. \A s \in Nat, n \in Nat : Reason(Published, aged, s, n) => Reason(Published', aged', s, n)
  BY <1>p, ReasonGrows DEF PublishedInv
<1>s. store' # <<>> => store'[1] \in Published' /\ store'[1].seq \in Nat /\ store'[1].seq < eventSequence
  <2>1. store' # <<>> => store'[1] \in Range(store')
    BY DEF TypeInv, TypeOK, Range
  <2> QED BY <1>p, <2>1 DEF StoreInv, PublishedInv
<1>1. ASSUME NEW k \in DOMAIN results
      PROVE  \/ k \in DOMAIN results' /\ results'[k] = results[k]
             \/ Reason(Published', aged', results[k].seq, eventSequence)
  <2>1. /\ \A j \in DOMAIN results : results[j].seq \in Nat /\ results[j].seq < eventSequence
        /\ \A i, j \in DOMAIN results : results[i].seq = results[j].seq => i = j
    BY <1>t DEF SequencesInv
  <2> DEFINE P == Published'
             S == store'
             g == prune_idempotency_results(results, aged, S)
  <2>2. S # <<>> => S[1] \in P /\ S[1].seq \in Nat /\ S[1].seq < eventSequence
    BY <1>s
  <2>3. results' = results \/ results' = g
    OBVIOUS
  <2> HIDE DEF P, S
  <2>4. (k \in DOMAIN g /\ g[k] = results[k]) \/ Reason(P, aged, results[k].seq, eventSequence)
    BY <1>t, <2>1, <2>2, Forgotten
  <2>5. Reason(P, aged, results[k].seq, eventSequence) => Reason(P, aged', results[k].seq, eventSequence)
    BY DEF Reason
  <2> QED BY <2>3, <2>4, <2>5 DEF P
<1>2. RememberedInv'
  <2> SUFFICES ASSUME NEW i \in DOMAIN applied
               PROVE  \/ Kept(results', applied[i]) \/ Pending(task', identity', applied[i])
                      \/ Reason(Published', aged', applied[i].seq, eventSequence)
    BY DEF RememberedInv
  <2> DEFINE a == applied[i]
  <2>0. a.seq \in Nat
    BY <1>t
  <2>1. Kept(results, a) \/ Pending(task, identity, a) \/ Reason(Published, aged, a.seq, eventSequence)
    BY DEF RememberedInv
  <2> HIDE DEF a
  <2>2. CASE Kept(results, a)
    <3> DEFINE k == <<a.id, a.cmd>>
    <3>1. k \in DOMAIN results /\ results[k].seq = a.seq
      BY <2>2 DEF Kept
    <3>2. CASE k \in DOMAIN results' /\ results'[k] = results[k]
      BY <3>1, <3>2 DEF Kept, a
    <3>3. CASE Reason(Published', aged', results[k].seq, eventSequence)
      BY <3>1, <3>3 DEF a
    <3> QED BY <1>1, <3>1, <3>2, <3>3
  <2>3. CASE Pending(task, identity, a)
    BY <2>3 DEF Pending, a
  <2>4. CASE Reason(Published, aged, a.seq, eventSequence)
    BY <1>r, <1>t, <2>0, <2>4 DEF a
  <2> QED BY <2>1, <2>2, <2>3, <2>4
<1>3. UnderWayInv'
  <2> SUFFICES ASSUME NEW c \in Conns, NEW i \in DOMAIN applied, Repeats(identity'[c], task'[c], applied[i]),
                      task'[c].stage \in {"sequenced", "applied"}
               PROVE  \/ task'[c].stage = "applied" /\ applied[i].seq = task'[c].seq
                      \/ Reason(Published', aged', applied[i].seq, task'[c].seq)
    BY DEF UnderWayInv, UnderWay
  <2>1. /\ task[c].stage = task'[c].stage \/ task[c].stage = "sequenced"
        /\ task'[c].seq = task[c].seq
        /\ Repeats(identity[c], task[c], applied[i])
    BY DEF Repeats
  <2>2. UnderWay(Published, aged, identity[c], task[c], applied[i])
    BY DEF UnderWayInv
  <2>3. Reason(Published, aged, applied[i].seq, task[c].seq) => Reason(Published', aged', applied[i].seq, task[c].seq)
    BY <1>r, <1>t
  <2> QED BY <2>1, <2>2, <2>3 DEF UnderWay
<1>4. RetryIsRemembered'
  <2> SUFFICES ASSUME NEW i \in DOMAIN applied, NEW j \in DOMAIN applied, i < j,
                      applied[i].cmd = applied[j].cmd, applied[i].id = applied[j].id
               PROVE  Reason(Published', aged', applied[i].seq, applied[j].seq)
    BY DEF RetryIsRemembered, Reason
  <2>1. Reason(Published, aged, applied[i].seq, applied[j].seq)
    BY DEF RetryIsRemembered, Reason
  <2> QED BY <1>r, <1>t, <2>1
<1> QED BY <1>2, <1>3, <1>4

\* A command begun, applied or remembered.
LEMMA RetryBegun ==
    ASSUME RetryInv, NEW c \in Conns, NEW k \in Commands, BeginCommand(c, k),
           TypeInv', SequencesInv', StoreInv', Published \subseteq Published', aged \subseteq aged'
    PROVE  RememberedInv' /\ UnderWayInv' /\ RetryIsRemembered'
<1>t. /\ eventSequence \in Nat
      /\ \A d \in Conns : task[d].seq \in Nat
      /\ \A i \in DOMAIN applied : applied[i].seq \in Nat /\ applied[i].id \in Nat
      /\ \A l \in DOMAIN results : results[l].seq \in Nat
  BY SequenceTypes DEF RetryInv, TokenInv
<1>i. TypeInv /\ SequencesInv /\ StoreInv /\ RememberedInv /\ UnderWayInv /\ RetryIsRemembered /\ SocketsInv
  BY DEF RetryInv, TokenInv
<1>p. PublishedInv /\ PublishedInv'
  BY <1>i, PublishedTypes, PTL
<1>r. \A s \in Nat, n \in Nat, m \in Nat :
        n <= m /\ Reason(Published, aged, s, n) => Reason(Published', aged', s, m)
  BY <1>p, ReasonGrows DEF PublishedInv
<1>1. /\ task'[c].stage = "sequenced" /\ task'[c].seq = eventSequence /\ task'[c].cmd = k
      /\ task[c] = Idle /\ status[c] = "attached" /\ identity' = identity
      /\ \A d \in Conns \ {c} : task'[d] = task[d]
      /\ results' = prune_idempotency_results(results, aged, store) /\ eventSequence' = eventSequence + 1
      /\ applied' = applied
      /\ <<identity[c], k>> \notin DOMAIN prune_idempotency_results(results, aged, store)
  BY <1>i DEF BeginCommand, CommandArrives, Cached, TypeInv, TypeOK
<1>c. task[c].stage = "idle" /\ identity[c] # None
  BY <1>1, <1>i DEF Idle, TypeInv, TaskShape
<1>s. store # <<>> => store[1] \in Published /\ store[1].seq \in Nat /\ store[1].seq < eventSequence
  BY <1>i, <1>p, SequenceTypes DEF StoreInv, PublishedInv
<1>2. ASSUME NEW l \in DOMAIN results
      PROVE  \/ l \in DOMAIN results' /\ results'[l] = results[l]
             \/ Reason(Published, aged, results[l].seq, eventSequence)
  <2>1. /\ \A j \in DOMAIN results : results[j].seq \in Nat /\ results[j].seq < eventSequence
        /\ \A i, j \in DOMAIN results : results[i].seq = results[j].seq => i = j
    BY <1>i, <1>t DEF SequencesInv
  <2> QED BY <1>1, <1>t, <1>s, <2>1, Forgotten
<1>3. ASSUME NEW i \in DOMAIN applied
      PROVE  \/ Kept(results', applied[i]) \/ Pending(task', identity', applied[i])
             \/ Reason(Published, aged, applied[i].seq, eventSequence)
  <2> DEFINE a == applied[i]
             l == <<a.id, a.cmd>>
  <2>1. Kept(results, a) \/ Pending(task, identity, a) \/ Reason(Published, aged, a.seq, eventSequence)
    BY <1>i DEF RememberedInv
  <2>2. CASE Kept(results, a)
    <3>1. l \in DOMAIN results /\ results[l].seq = a.seq
      BY <2>2 DEF Kept
    <3>2. CASE l \in DOMAIN results' /\ results'[l] = results[l]
      BY <3>1, <3>2 DEF Kept
    <3>3. CASE Reason(Published, aged, results[l].seq, eventSequence)
      BY <3>1, <3>3
    <3> QED BY <1>2, <3>1, <3>2, <3>3
  <2>3. CASE Pending(task, identity, a)
    BY <1>1, <1>c, <2>3 DEF Pending
  <2> HIDE DEF a
  <2> QED BY <2>1, <2>2, <2>3 DEF a
<1>4. RememberedInv'
  <2>1. \A i \in DOMAIN applied :
          Reason(Published, aged, applied[i].seq, eventSequence) => Reason(Published', aged', applied[i].seq, eventSequence')
    BY <1>1, <1>r, <1>t
  <2> QED BY <1>1, <1>3, <2>1 DEF RememberedInv
<1>5. UnderWayInv'
  <2> SUFFICES ASSUME NEW d \in Conns, NEW i \in DOMAIN applied
               PROVE  UnderWay(Published', aged', identity[d], task'[d], applied[i])
    BY <1>1 DEF UnderWayInv
  <2>1. CASE d # c
    <3>1. task'[d] = task[d]
      BY <1>1, <2>1
    <3>2. UnderWay(Published, aged, identity[d], task[d], applied[i])
      BY <1>i DEF UnderWayInv
    <3>3. Reason(Published, aged, applied[i].seq, task[d].seq) => Reason(Published', aged', applied[i].seq, task[d].seq)
      BY <1>r, <1>t
    <3> QED BY <3>1, <3>2, <3>3 DEF UnderWay
  <2>2. CASE d = c
    <3>1. ASSUME applied[i].id = identity[c], applied[i].cmd = k
          PROVE  Reason(Published', aged', applied[i].seq, eventSequence)
      <4>1. ~ Kept(results', applied[i])
        BY <1>1, <3>1 DEF Kept
      <4>2. ~ Pending(task', identity', applied[i])
        BY <1>1, <1>c, <1>i, <3>1 DEF Pending, SocketsInv
      <4> QED BY <1>3, <1>r, <1>t, <4>1, <4>2
    <3> QED BY <1>1, <2>2, <3>1 DEF UnderWay, Repeats
  <2> QED BY <2>1, <2>2
<1>6. RetryIsRemembered'
  <2> SUFFICES ASSUME NEW i \in DOMAIN applied, NEW j \in DOMAIN applied, i < j,
                      applied[i].cmd = applied[j].cmd, applied[i].id = applied[j].id
               PROVE  Reason(Published', aged', applied[i].seq, applied[j].seq)
    BY <1>1 DEF RetryIsRemembered, Reason
  <2>1. Reason(Published, aged, applied[i].seq, applied[j].seq)
    BY <1>i DEF RetryIsRemembered, Reason
  <2> QED BY <1>r, <1>t, <2>1
<1> QED BY <1>4, <1>5, <1>6

LEMMA RetryApplied ==
    ASSUME RetryInv, NEW c \in Conns, ApplyCommand(c), TypeInv', SequencesInv',
           Published \subseteq Published', aged \subseteq aged'
    PROVE  RememberedInv' /\ UnderWayInv' /\ RetryIsRemembered'
<1> DEFINE new == [cmd |-> task[c].cmd, id |-> identity[c], seq |-> task[c].seq]
           n == Len(applied) + 1
<1>i. TypeInv /\ SequencesInv /\ StoreInv /\ RememberedInv /\ UnderWayInv /\ RetryIsRemembered /\ SocketsInv
  BY DEF RetryInv, TokenInv
<1>t. /\ eventSequence \in Nat
      /\ \A d \in Conns : task[d].seq \in Nat
      /\ \A i \in DOMAIN applied : applied[i].seq \in Nat /\ applied[i].id \in Nat
  BY <1>i, SequenceTypes
<1>p. PublishedInv
  BY <1>i, PublishedTypes
<1>r. \A s \in Nat, m \in Nat : Reason(Published, aged, s, m) => Reason(Published', aged', s, m)
  BY <1>p, ReasonGrows DEF PublishedInv
<1>1. /\ task[c].stage = "sequenced"
      /\ identity' = identity /\ results' = results /\ eventSequence' = eventSequence
  BY DEF ApplyCommand
<1>2. /\ task'[c].stage = "applied" /\ task'[c].seq = task[c].seq /\ task'[c].cmd = task[c].cmd
      /\ \A d \in Conns \ {c} : task'[d] = task[d]
  BY <1>i DEF ApplyCommand, Advance, TypeInv, TypeOK
<1>c. identity[c] # None
  BY <1>1, <1>i DEF TypeInv, TaskShape
<1>3. /\ Len(applied) \in Nat /\ DOMAIN applied = 1..Len(applied)
      /\ DOMAIN applied' = 1..n /\ n \notin DOMAIN applied /\ applied'[n] = new
      /\ \A i \in DOMAIN applied : applied'[i] = applied[i]
      /\ \A i \in DOMAIN applied' : (i \in DOMAIN applied /\ i < n) \/ i = n
  BY <1>i, AppliedEntries
<1>4. new.cmd = task[c].cmd /\ new.id = identity[c] /\ new.seq = task[c].seq
  OBVIOUS
<1> HIDE DEF new, n
<1>5. RememberedInv'
  <2>1. ASSUME NEW i \in DOMAIN applied
        PROVE  \/ Kept(results', applied[i]) \/ Pending(task', identity', applied[i])
               \/ Reason(Published', aged', applied[i].seq, eventSequence)
    <3>1. Pending(task, identity, applied[i]) => Pending(task', identity', applied[i])
      BY <1>1, <1>2 DEF Pending
    <3>2. Reason(Published, aged, applied[i].seq, eventSequence) => Reason(Published', aged', applied[i].seq, eventSequence)
      BY <1>r, <1>t
    <3> QED BY <1>1, <1>i, <3>1, <3>2 DEF RememberedInv
  <2>2. Pending(task', identity', new)
    BY <1>1, <1>2, <1>4, <1>t DEF Pending
  <2> QED BY <1>1, <1>3, <2>1, <2>2 DEF RememberedInv
<1>6. UnderWayInv'
  <2>1. ASSUME NEW d \in Conns, NEW i \in DOMAIN applied
        PROVE  UnderWay(Published', aged', identity[d], task'[d], applied[i])
    <3>1. UnderWay(Published, aged, identity[d], task[d], applied[i])
      BY <1>i DEF UnderWayInv
    <3>2. /\ task'[d].seq = task[d].seq /\ task'[d].cmd = task[d].cmd
          /\ \/ task'[d].stage = task[d].stage
             \/ task[d].stage = "sequenced" /\ task'[d].stage = "applied"
      <4>1. CASE d = c
        BY <1>1, <1>2, <4>1
      <4>2. CASE d # c
        BY <1>2, <4>2
      <4> QED BY <4>1, <4>2
    <3>3. Reason(Published, aged, applied[i].seq, task[d].seq) => Reason(Published', aged', applied[i].seq, task[d].seq)
      BY <1>r, <1>t
    <3> QED BY <3>1, <3>2, <3>3 DEF UnderWay, Repeats
  <2>2. ASSUME NEW d \in Conns, identity[d] = identity[c] PROVE d = c
    BY <1>c, <1>i, <2>2 DEF SocketsInv
  <2>3. ASSUME NEW d \in Conns PROVE UnderWay(Published', aged', identity[d], task'[d], new)
    BY <1>2, <1>4, <2>2 DEF UnderWay, Repeats
  <2> QED BY <1>1, <1>3, <2>1, <2>3 DEF UnderWayInv
<1>7. RetryIsRemembered'
  <2> SUFFICES ASSUME NEW i \in DOMAIN applied', NEW j \in DOMAIN applied', i < j,
                      applied'[i].cmd = applied'[j].cmd, applied'[i].id = applied'[j].id
               PROVE  Reason(Published', aged', applied'[i].seq, applied'[j].seq)
    BY DEF RetryIsRemembered, Reason
  <2>1. i \in DOMAIN applied /\ applied'[i] = applied[i]
    BY <1>3
  <2>2. CASE j \in DOMAIN applied
    <3>1. applied'[j] = applied[j]
      BY <1>3, <2>2
    <3>2. Reason(Published, aged, applied[i].seq, applied[j].seq)
      BY <1>i, <2>1, <2>2, <3>1 DEF RetryIsRemembered, Reason
    <3> QED BY <1>r, <1>t, <2>1, <2>2, <3>1, <3>2
  <2>3. CASE j = n
    <3>1. applied'[j].seq = task[c].seq /\ applied[i].id = identity[c] /\ applied[i].cmd = task[c].cmd
      BY <1>3, <1>4, <2>1, <2>3
    <3>2. Reason(Published, aged, applied[i].seq, task[c].seq)
      BY <1>1, <1>i, <2>1, <3>1 DEF UnderWayInv, UnderWay, Repeats
    <3> QED BY <1>r, <1>t, <2>1, <3>1, <3>2
  <2> QED BY <1>3, <2>2, <2>3
<1> QED BY <1>5, <1>6, <1>7

LEMMA RetryAcknowledged ==
    ASSUME RetryInv, NEW c \in Conns, Remember(c), TypeInv', SequencesInv',
           Published \subseteq Published', aged \subseteq aged'
    PROVE  RememberedInv' /\ UnderWayInv' /\ RetryIsRemembered'
<1> DEFINE x == <<identity[c], task[c].cmd>>
           put == Put(results, x, [seq |-> task[c].seq, emitted |-> task[c].events # <<>>])
<1>i. TypeInv /\ SequencesInv /\ StoreInv /\ RememberedInv /\ UnderWayInv /\ RetryIsRemembered /\ SocketsInv
  BY DEF RetryInv, TokenInv
<1>t. /\ eventSequence \in Nat
      /\ \A d \in Conns : task[d].seq \in Nat
      /\ \A i \in DOMAIN applied : applied[i].seq \in Nat /\ applied[i].id \in Nat
      /\ \A l \in DOMAIN results : results[l].seq \in Nat
  BY <1>i, SequenceTypes
<1>p. PublishedInv
  BY <1>i, PublishedTypes
<1>1. /\ task[c].stage = "applied"
      /\ identity' = identity /\ applied' = applied
      /\ eventSequence' \in Nat /\ eventSequence <= eventSequence'
      /\ results' = prune_idempotency_results(put, aged, store)
  BY <1>t DEF Remember
<1>2. /\ task'[c].stage = "remembered" /\ task'[c].seq = task[c].seq
      /\ \A d \in Conns \ {c} : task'[d] = task[d]
  BY <1>i DEF Remember, Advance, TypeInv, TypeOK
<1>r. \A s \in Nat, n \in Nat, m \in Nat :
        n <= m /\ Reason(Published, aged, s, n) => Reason(Published', aged', s, m)
  BY <1>p, ReasonGrows DEF PublishedInv
<1>s. store # <<>> => store[1] \in Published /\ store[1].seq \in Nat /\ store[1].seq < eventSequence
  BY <1>i, <1>p, SequenceTypes DEF StoreInv, PublishedInv
<1>3. /\ DOMAIN put = DOMAIN results \cup {x} /\ put[x].seq = task[c].seq
      /\ \A l \in DOMAIN results \ {x} : put[l] = results[l]
  BY DEF Put
<1> HIDE DEF x, put
<1>4. \A l \in DOMAIN results : results[l].seq < eventSequence /\ results[l].seq # task[c].seq
  BY <1>1, <1>i DEF SequencesInv
<1>5. /\ \A j \in DOMAIN put : put[j].seq \in Nat /\ put[j].seq < eventSequence
      /\ \A i, j \in DOMAIN put : put[i].seq = put[j].seq => i = j
  <2>1. task[c].seq < eventSequence
    BY <1>1, <1>i DEF SequencesInv
  <2>2. \A i, j \in DOMAIN results : results[i].seq = results[j].seq => i = j
    BY <1>i DEF SequencesInv
  <2> QED BY <1>3, <1>4, <1>t, <2>1, <2>2
<1>6. ASSUME NEW l \in DOMAIN put
      PROVE  \/ l \in DOMAIN results' /\ results'[l] = put[l]
             \/ Reason(Published, aged, put[l].seq, eventSequence)
  BY <1>1, <1>5, <1>s, <1>t, Forgotten
<1>7. ASSUME NEW i \in DOMAIN applied, NEW l \in DOMAIN put,
             l = <<applied[i].id, applied[i].cmd>>, applied[i].seq = put[l].seq
      PROVE  Kept(results', applied[i]) \/ Reason(Published', aged', applied[i].seq, eventSequence')
  <2>1. put[l].seq \in Nat /\ applied[i].seq \in Nat
    BY <1>5, <1>t
  <2>2. Reason(Published, aged, put[l].seq, eventSequence) => Reason(Published', aged', applied[i].seq, eventSequence')
    BY <1>1, <1>7, <1>r, <1>t, <2>1
  <2> QED BY <1>6, <1>7, <2>2 DEF Kept
<1>8. RememberedInv'
  <2> SUFFICES ASSUME NEW i \in DOMAIN applied
               PROVE  \/ Kept(results', applied[i]) \/ Pending(task', identity', applied[i])
                      \/ Reason(Published', aged', applied[i].seq, eventSequence')
    BY <1>1 DEF RememberedInv
  <2>1. \/ Kept(results, applied[i]) \/ Pending(task, identity, applied[i])
        \/ Reason(Published, aged, applied[i].seq, eventSequence)
    BY <1>i DEF RememberedInv
  <2>2. CASE <<applied[i].id, applied[i].cmd>> = x
    <3>1. applied[i].seq = task[c].seq \/ Reason(Published, aged, applied[i].seq, task[c].seq)
      BY <1>1, <1>i, <2>2 DEF x, UnderWayInv, UnderWay, Repeats
    <3>2. CASE applied[i].seq = task[c].seq
      BY <1>3, <1>7, <2>2, <3>2
    <3>3. CASE Reason(Published, aged, applied[i].seq, task[c].seq)
      <4>1. task[c].seq <= eventSequence'
        BY <1>1, <1>i, <1>t DEF SequencesInv
      <4> QED BY <1>1, <1>r, <1>t, <3>3, <4>1
    <3> QED BY <3>1, <3>2, <3>3
  <2>3. CASE <<applied[i].id, applied[i].cmd>> # x /\ Kept(results, applied[i])
    BY <1>3, <1>7, <2>3 DEF Kept
  <2>4. CASE <<applied[i].id, applied[i].cmd>> # x /\ Pending(task, identity, applied[i])
    BY <1>1, <1>2, <2>4 DEF Pending, x
  <2>5. CASE Reason(Published, aged, applied[i].seq, eventSequence)
    BY <1>1, <1>r, <1>t, <2>5
  <2> QED BY <2>1, <2>2, <2>3, <2>4, <2>5
<1>9. UnderWayInv'
  <2> SUFFICES ASSUME NEW d \in Conns, NEW i \in DOMAIN applied
               PROVE  UnderWay(Published', aged', identity[d], task'[d], applied[i])
    BY <1>1 DEF UnderWayInv
  <2>1. CASE d = c
    BY <1>2, <2>1 DEF UnderWay
  <2>2. CASE d # c
    <3>1. UnderWay(Published, aged, identity[d], task[d], applied[i]) /\ task'[d] = task[d]
      BY <1>2, <1>i, <2>2 DEF UnderWayInv
    <3>2. Reason(Published, aged, applied[i].seq, task[d].seq) => Reason(Published', aged', applied[i].seq, task[d].seq)
      BY <1>r, <1>t
    <3> QED BY <3>1, <3>2 DEF UnderWay
  <2> QED BY <2>1, <2>2
<1>10. RetryIsRemembered'
  <2> SUFFICES ASSUME NEW i \in DOMAIN applied, NEW j \in DOMAIN applied, i < j,
                      applied[i].cmd = applied[j].cmd, applied[i].id = applied[j].id
               PROVE  Reason(Published', aged', applied[i].seq, applied[j].seq)
    BY <1>1 DEF RetryIsRemembered, Reason
  <2>1. Reason(Published, aged, applied[i].seq, applied[j].seq)
    BY <1>i DEF RetryIsRemembered, Reason
  <2> QED BY <1>r, <1>t, <2>1
<1> QED BY <1>8, <1>9, <1>10

LEMMA RetryStep ==
    ASSUME Overlap = FALSE, RetryInv, [Next]_vars
    PROVE  RetryInv'
<1> USE DEF shared, socket, client
<1>i. /\ TokenInv /\ DeliveryInv
      /\ TypeInv /\ SequencesInv /\ StoreInv /\ RememberedInv /\ UnderWayInv /\ RetryIsRemembered /\ SocketsInv
  BY DEF RetryInv, TokenInv
<1>a. TokenInv' /\ TypeInv' /\ DeliveryInv' /\ SocketsInv' /\ SequencesInv' /\ StoreInv' /\ Published \subseteq Published'
      /\ aged \subseteq aged'
  BY <1>i, TokenStep, DeliveryStep, SocketsStep, SequencesStep, PublishedStep, AgedGrows DEF TokenInv
<1>t. task \in [Conns -> Task]
  BY <1>i DEF TypeInv, TypeOK
<1> DEFINE Goal == RememberedInv' /\ UnderWayInv' /\ RetryIsRemembered'
<1>1. ASSUME UNCHANGED <<task, results, store, broadcast, eventSequence, applied>>,
             \A c \in Conns : task[c].stage # "idle" => identity'[c] = identity[c]
      PROVE  Goal
  BY <1>1, <1>a, <1>i, RetryKept
<1>2. ASSUME NEW c \in Conns, Close(c), task[c].stage \in {"idle", "remembered"},
             UNCHANGED <<results, store, broadcast, eventSequence, applied>>
      PROVE  Goal
  <2>1. /\ task'[c].stage = "idle" /\ \A d \in Conns \ {c} : task'[d] = task[d] /\ identity'[d] = identity[d]
        /\ task[c].stage # "applied"
    BY <1>2, <1>i DEF Close, Idle, TypeInv, TypeOK
  <2> QED BY <1>2, <1>a, <1>i, <2>1, RetryKept
<1>3. ASSUME NEW c \in Conns, NEW k \in Commands, CachedCommand(c, k) PROVE Goal
  BY <1>3, <1>a, <1>i, RetryKept DEF CachedCommand
<1>4. ASSUME NEW c \in Conns, NEW k \in Commands, BeginCommand(c, k) PROVE Goal
  BY <1>4, <1>a, RetryBegun
<1>5. ASSUME NEW c \in Conns, ApplyCommand(c) PROVE Goal
  BY <1>5, <1>a, RetryApplied
<1>6. ASSUME NEW c \in Conns, Remember(c) PROVE Goal
  BY <1>6, <1>a, RetryAcknowledged
<1>7. ASSUME NEW c \in Conns, RejectCommand(c) \/ AckSent(c) \/ PublishToStore(c) \/ PublishToQueues(c) PROVE Goal
  <2>1. /\ UNCHANGED <<applied, eventSequence, identity>>
        /\ results' = results \/ results' = prune_idempotency_results(results, aged, store')
    BY <1>7 DEF RejectCommand, AckSent, PublishToStore, PublishToQueues
  <2>2. /\ task'[c].stage # "idle" => task'[c].seq = task[c].seq /\ task'[c].cmd = task[c].cmd
        /\ task[c].stage # "idle" /\ task'[c].stage # "sequenced"
        /\ task'[c].stage = "applied" => task[c].stage = "sequenced"
        /\ task[c].stage # "applied"
        /\ \A d \in Conns \ {c} : task'[d] = task[d]
    <3>1. CASE RejectCommand(c)
      BY <1>t, <3>1 DEF RejectCommand, Advance, Finish, Idle
    <3>2. CASE AckSent(c)
      BY <1>t, <3>2 DEF AckSent, Advance, Finish, Idle
    <3>3. CASE PublishToStore(c)
      BY <1>t, <3>3 DEF PublishToStore, Advance, Finish, Idle
    <3>4. CASE PublishToQueues(c)
      BY <1>t, <3>4 DEF PublishToQueues, Advance, Finish, Idle
    <3> QED BY <1>7, <3>1, <3>2, <3>3, <3>4
  <2>3. /\ \A d \in Conns : task'[d].stage # "idle" =>
             /\ task[d].stage # "idle" /\ task'[d].seq = task[d].seq /\ task'[d].cmd = task[d].cmd
             /\ identity'[d] = identity[d]
        /\ \A d \in Conns : task'[d].stage = "sequenced" => task[d].stage = "sequenced"
        /\ \A d \in Conns : task'[d].stage = "applied" => task[d].stage \in {"sequenced", "applied"}
        /\ \A d \in Conns : task[d].stage = "applied" => task'[d].stage = "applied"
    BY <2>1, <2>2
  <2> QED BY <1>a, <1>i, <2>1, <2>3, RetryKept
<1>8. Goal
  BY <1>i, Kinds, <1>1, <1>2, <1>3, <1>4, <1>5, <1>6, <1>7 DEF HandleCommand
<1> QED BY <1>8, <1>a DEF RetryInv

\* The results cache forgets a command for a reason only: where a client
\* closes its socket before it opens the next, a retry -- on the same socket, or
\* one that resumed the identity -- is applied again only when a later event was
\* published or ReplayLimit sequences used since it was applied, or its result
\* outlived the time to live of the cache.
THEOREM RetriesAreRemembered ==
    ASSUME Overlap = FALSE
    PROVE  Spec => []RetryIsRemembered
<1>1. Init => RetryInv
  <2> SUFFICES ASSUME Init PROVE RetryInv
    OBVIOUS
  <2>1. TokenInv
    BY TypeInit DEF TokenInv, Init, TokensIssued, OneTokenPerIdentity
  <2>2. applied = <<>> /\ store = <<>> /\ broadcast = {} /\ results = <<>> /\ task = [c \in Conns |-> Idle]
    BY DEF Init
  <2>3. DeliveryInv
    <3>1. NoEarlyEvents /\ AppliedSeqs = {}
      BY <2>2 DEF NoEarlyEvents, Idle, AppliedSeqs
    <3> QED BY <2>1, <3>1 DEF DeliveryInv, PublishedOrHeld, TokenInv
  <2>4. SocketsInv
    BY DEF Init, SocketsInv, Open
  <2>5. SequencesInv /\ StoreInv
    BY <2>2 DEF SequencesInv, StoreInv, Idle, Range
  <2>6. RememberedInv /\ UnderWayInv /\ RetryIsRemembered
    BY <2>2 DEF RememberedInv, UnderWayInv, RetryIsRemembered
  <2> QED BY <2>1, <2>3, <2>4, <2>5, <2>6 DEF RetryInv
<1>2. RetryInv /\ [Next]_vars => RetryInv'
  BY RetryStep
<1>3. RetryInv => RetryIsRemembered
  BY DEF RetryInv
<1> QED BY <1>1, <1>2, <1>3, PTL DEF Spec
=============================================================================
