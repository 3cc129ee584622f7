------------------------------- MODULE Realtime -------------------------------
(***************************************************************************)
(* The WebSocket channel of one session (src/src/realtime.rs):             *)
(* RuntimeRealtimeState and the socket handler tasks that share it.        *)
(*                                                                         *)
(* A handler serves one connection: session.hello attaches it, with a      *)
(* snapshot and possibly a replay; a command is looked up in the results   *)
(* cache, given an event sequence, applied to the session, remembered,     *)
(* acknowledged and only then published; events published by all handlers  *)
(* arrive through a bounded broadcast queue.  Steps of different handlers  *)
(* interleave between any two lock acquisitions that matter.               *)
(*                                                                         *)
(* The session is reduced to the commands it has applied: `applied` lists  *)
(* them, and a client knows the state when it knows all their sequences.   *)
(* Time is in two actions: a resume token's or a cached result's time to   *)
(* live (RUNTIME_REALTIME_RESUME_TOKEN_TTL, the same five minutes) passes  *)
(* at any moment.  Presence is in Collaboration and Commands.              *)
(***************************************************************************)
EXTENDS Integers, Sequences, FiniteSets, Functions

CONSTANTS
    Conns,            \* sockets
    Clients,          \* client windows
    Commands,         \* graph commands, each with its own idempotency key
    Issuer,           \* the client that sends the command
    CatalogCommands,  \* commands that, when applied, change the node catalog
    ReplayLimit,      \* replay_limit: events stored, broadcast capacity
    SendFailures,     \* a frame may fail to be sent
    Overlap,          \* a client may open a socket while its old one is served
    MaxSequence,      \* bound on event sequences
    MaxConnection,    \* bound on connection identities and aged results, together
    None

ASSUME RealtimeAssumption ==
    /\ Issuer \in [Commands -> Clients]
    /\ CatalogCommands \subseteq Commands
    /\ ReplayLimit \in Nat \ {0}
    /\ SendFailures \in BOOLEAN /\ Overlap \in BOOLEAN
    /\ MaxSequence \in Nat /\ MaxConnection \in Nat
    /\ None \notin Clients \cup Commands /\ None \notin Nat

VARIABLES
    eventSequence,      \* the sequence the next event gets
    connectionSequence, \* the number the next identity and resume token get
    store,              \* event_store
    results,            \* idempotency_results: <<identity, command>> -> [seq, emitted]
    aged,               \* sequences of results remembered for longer than the time to live
    resumeTokens,       \* resume_tokens: token -> identity
    applied,            \* the commands the session applied: [cmd, id, seq]
    broadcast,          \* every event ever sent to the broadcast channel (history)
    status,             \* per socket: closed, connected, hello, attached
    peer,               \* the client at the other end
    identity,           \* the identity issued to the socket, or None
    highWater,          \* high_water_sequence
    snap,               \* snapshot read by a hello in progress
    queue,              \* broadcast events the socket has not received
    lagged,             \* the broadcast channel dropped events for the socket
    task,               \* the command being handled
    known,              \* applied sequences the client has learnt on this socket
    cursor,             \* per client: the last cursor received, or None
    token               \* per client: the resume token received, or None

shared == <<eventSequence, connectionSequence, store, results, aged, resumeTokens, applied,
            broadcast>>
socket == <<status, peer, identity, highWater, snap, queue, lagged, task>>
client == <<known, cursor, token>>
vars == <<shared, socket, client>>

Event == [seq : Nat \ {0}, graph : BOOLEAN]
Idle == [stage |-> "idle", cmd |-> None, seq |-> 0, events |-> <<>>]
Stages == {"idle", "sequenced", "applied", "remembered", "publishing", "stored"}
Task == [stage : Stages, cmd : Commands \cup {None}, seq : Nat, events : Seq(Event)]

current_sequence == eventSequence - 1
AppliedSeqs == {applied[i].seq : i \in DOMAIN applied}
Open == {c \in Conns : status[c] # "closed"}
Within == connectionSequence + Cardinality(aged) <= MaxConnection

Init ==
    /\ eventSequence = 1 /\ connectionSequence = 1
    /\ store = <<>> /\ results = <<>> /\ aged = {} /\ resumeTokens = <<>>
    /\ applied = <<>> /\ broadcast = {}
    /\ status = [c \in Conns |-> "closed"] /\ peer = [c \in Conns |-> None]
    /\ identity = [c \in Conns |-> None] /\ highWater = [c \in Conns |-> 0]
    /\ snap = [c \in Conns |-> {}] /\ queue = [c \in Conns |-> <<>>]
    /\ lagged = [c \in Conns |-> FALSE] /\ task = [c \in Conns |-> Idle]
    /\ known = [c \in Conns |-> {}]
    /\ cursor = [w \in Clients |-> None] /\ token = [w \in Clients |-> None]

----------------------------------------------------------------------------
(* The store and the results cache.                                        *)

PushBounded(s, e) ==
    LET longer == Append(s, e)
    IN  IF Len(longer) > ReplayLimit THEN Tail(longer) ELSE longer

\* Results older than the earliest stored event go, then those whose time to
\* live has passed, then the oldest beyond the limit
\* (prune_idempotency_results_locked).
Newest(f) ==
    {k \in DOMAIN f : Cardinality({j \in DOMAIN f : f[j].seq > f[k].seq}) < ReplayLimit}
\* Faulty variant: the result of the earliest stored event goes too.
prune_idempotency_results_early(f, old, s) ==
    Restrict(f, {k \in DOMAIN f : f[k].seq \notin old /\ (s = <<>> \/ f[k].seq > s[1].seq)})

prune_idempotency_results(f, old, s) ==
    LET stored == Restrict(f, {k \in DOMAIN f : s = <<>> \/ f[k].seq >= s[1].seq})
        young  == Restrict(stored, {k \in DOMAIN stored : stored[k].seq \notin old})
    IN  Restrict(young, Newest(young))

Put(f, k, v) == [j \in DOMAIN f \cup {k} |-> IF j = k THEN v ELSE f[j]]

----------------------------------------------------------------------------
(* Connecting and attaching.                                               *)

\* The handler subscribes before it reads the first frame.
Connect(c, w) ==
    /\ status[c] = "closed"
    /\ Overlap \/ \A d \in Open : peer[d] # w
    /\ status' = [status EXCEPT ![c] = "connected"]
    /\ peer' = [peer EXCEPT ![c] = w]
    /\ UNCHANGED <<shared, identity, highWater, snap, queue, lagged, task, client>>

\* The handler returns: its locals and its receiver are dropped, and what the
\* client learnt through this socket no longer matters.
Close(c) ==
    /\ status' = [status EXCEPT ![c] = "closed"]
    /\ peer' = [peer EXCEPT ![c] = None]
    /\ identity' = [identity EXCEPT ![c] = None]
    /\ highWater' = [highWater EXCEPT ![c] = 0]
    /\ snap' = [snap EXCEPT ![c] = {}]
    /\ queue' = [queue EXCEPT ![c] = <<>>]
    /\ lagged' = [lagged EXCEPT ![c] = FALSE]
    /\ task' = [task EXCEPT ![c] = Idle]
    /\ known' = [known EXCEPT ![c] = {}]
    /\ UNCHANGED <<cursor, token>>

Disconnect(c) ==
    /\ status[c] \in {"connected", "attached"} /\ task[c] = Idle
    /\ Close(c)
    /\ UNCHANGED shared

\* session.hello reads the snapshot first, under the session's read lock.
HelloSnapshot(c) ==
    /\ status[c] \in {"connected", "attached"} /\ task[c] = Idle
    /\ Within
    /\ status' = [status EXCEPT ![c] = "hello"]
    /\ snap' = [snap EXCEPT ![c] = AppliedSeqs]
    /\ UNCHANGED <<shared, peer, identity, highWater, queue, lagged, task, client>>

\* replay_after: refused for a cursor ahead of the sequence or behind the window.
ReplayRefused(after) ==
    \/ after > current_sequence
    \/ store # <<>> /\ after + 1 < store[1].seq
ReplayHighWater == IF store = <<>> THEN current_sequence ELSE store[Len(store)].seq
ReplayEvents(after) == {e \in Range(store) : e.seq > after}

\* The rest of session.hello.  A known token names the identity to resume and
\* is used up (consume_resume_token); otherwise the identity is fresh.  Either
\* way a new token is issued.  A token that is not known brings
\* session.syncRequired and no replay.
\* Faulty variant: the token is read and kept.
consume_resume_token_kept(resume) == resumeTokens

consume_resume_token(resume) ==
    Restrict(resumeTokens, DOMAIN resumeTokens \ {resume})
ResumedIdentity(resume) ==
    IF resume \in DOMAIN resumeTokens THEN resumeTokens[resume] ELSE connectionSequence
issue_connection_identity(resume) ==
    /\ connectionSequence' = connectionSequence + 1
    /\ resumeTokens' =
         Put(consume_resume_token(resume), connectionSequence, ResumedIdentity(resume))

Replays(resume, lastCursor) ==
    /\ resume = None \/ resume \in DOMAIN resumeTokens
    /\ lastCursor # None
    /\ ~ ReplayRefused(lastCursor)

AttachHighWater(resume, lastCursor) ==
    IF Replays(resume, lastCursor) THEN ReplayHighWater ELSE current_sequence

\* Graph events of the replay that the client receives after the snapshot.
AttachKnown(c, resume, lastCursor) ==
    snap[c] \cup IF Replays(resume, lastCursor)
                 THEN {e.seq : e \in {x \in ReplayEvents(lastCursor) : x.graph}}
                 ELSE {}

HelloAttach(c, resume, lastCursor) ==
    /\ status[c] = "hello"
    /\ resume \in {None, token[peer[c]]}
    /\ lastCursor \in {None, cursor[peer[c]]}
    /\ issue_connection_identity(resume)
    /\ identity' = [identity EXCEPT ![c] = ResumedIdentity(resume)]
    /\ status' = [status EXCEPT ![c] = "attached"]
    /\ snap' = [snap EXCEPT ![c] = {}]
    /\ highWater' = [highWater EXCEPT ![c] = AttachHighWater(resume, lastCursor)]
    /\ known' = [known EXCEPT ![c] = AttachKnown(c, resume, lastCursor)]
    /\ cursor' = [cursor EXCEPT ![peer[c]] = current_sequence]
    /\ token' = [token EXCEPT ![peer[c]] = connectionSequence]
    /\ UNCHANGED <<eventSequence, store, results, aged, applied, broadcast,
                   peer, queue, lagged, task>>

\* The attached frame cannot be sent: the token is used up all the same.
HelloFails(c, resume) ==
    /\ SendFailures
    /\ status[c] = "hello"
    /\ resume \in {None, token[peer[c]]}
    /\ issue_connection_identity(resume)
    /\ Close(c)
    /\ UNCHANGED <<eventSequence, store, results, aged, applied, broadcast>>

\* The token outlives its time to live, or is trimmed away.
ExpireToken(t) ==
    /\ t \in DOMAIN resumeTokens
    /\ resumeTokens' = Restrict(resumeTokens, DOMAIN resumeTokens \ {t})
    /\ UNCHANGED <<eventSequence, connectionSequence, store, results, aged, applied, broadcast,
                   socket, client>>

\* A cached result's time to live passes; the next prune drops it.
ResultAges(k) ==
    /\ results[k].seq \notin aged /\ Within
    /\ aged' = aged \cup {results[k].seq}
    /\ UNCHANGED <<eventSequence, connectionSequence, store, results, resumeTokens, applied, broadcast,
                   socket, client>>

----------------------------------------------------------------------------
(* Commands.                                                               *)

\* The handler of c goes on to a stage, with these events to publish.
Advance(c, stage, events) ==
    task' = [task EXCEPT ![c] =
               [stage |-> stage, cmd |-> task[c].cmd, seq |-> task[c].seq, events |-> events]]
Finish(c) == task' = [task EXCEPT ![c] = Idle]

Cached(c, k) ==
    LET kept == prune_idempotency_results(results, aged, store)
    IN  <<identity[c], k>> \in DOMAIN kept

CommandArrives(c, k) ==
    /\ status[c] = "attached" /\ task[c] = Idle
    /\ Issuer[k] = peer[c]

\* A command not in the cache gets the next event sequence.
BeginCommand(c, k) ==
    /\ CommandArrives(c, k)
    /\ ~ Cached(c, k)
    /\ eventSequence + 1 <= MaxSequence
    /\ results' = prune_idempotency_results(results, aged, store)
    /\ task' = [task EXCEPT ![c] =
                  [stage |-> "sequenced", cmd |-> k, seq |-> eventSequence, events |-> <<>>]]
    /\ eventSequence' = eventSequence + 1
    /\ UNCHANGED <<connectionSequence, store, aged, resumeTokens, applied, broadcast,
                   status, peer, identity, highWater, snap, queue, lagged, client>>

\* What the remembered acknowledgement tells of: the event's sequence, if any.
graph_ack_from_cached(c, k) ==
    LET result == results[<<identity[c], k>>]
    IN  {s \in {result.seq} : result.emitted}

CachedCommand(c, k) ==
    /\ CommandArrives(c, k)
    /\ Cached(c, k)
    /\ results' = prune_idempotency_results(results, aged, store)
    /\ known' = [known EXCEPT ![c] = @ \cup graph_ack_from_cached(c, k)]
    /\ UNCHANGED <<eventSequence, connectionSequence, store, aged, resumeTokens, applied, broadcast,
                   socket, cursor, token>>

\* apply_graph_command under the session's write lock: applied ...
ApplyCommand(c) ==
    /\ task[c].stage = "sequenced"
    /\ applied' = Append(applied, [cmd |-> task[c].cmd, id |-> identity[c], seq |-> task[c].seq])
    /\ Advance(c, "applied", <<[seq |-> task[c].seq, graph |-> TRUE]>>)
    /\ UNCHANGED <<eventSequence, connectionSequence, store, results, aged, resumeTokens, broadcast,
                   status, peer, identity, highWater, snap, queue, lagged, client>>

\* Faulty variant: the event is made before the outcome is known.
RejectCommand_with_event(c) ==
    /\ task[c].stage = "sequenced"
    /\ Advance(c, "applied", <<[seq |-> task[c].seq, graph |-> TRUE]>>)
    /\ UNCHANGED <<shared, status, peer, identity, highWater, snap, queue, lagged, client>>

\* ... or refused (a revision conflict, an invalid edit): there is no event,
\* and the sequence stays unused.
RejectCommand(c) ==
    /\ task[c].stage = "sequenced"
    /\ Advance(c, "applied", <<>>)
    /\ UNCHANGED <<shared, status, peer, identity, highWater, snap, queue, lagged, client>>

\* The catalog event, if any, takes a sequence of its own; then remember_ack.
Remember(c) ==
    /\ task[c].stage = "applied"
    /\ IF task[c].events # <<>> /\ task[c].cmd \in CatalogCommands
       THEN /\ eventSequence' = eventSequence + 1
            /\ Advance(c, "remembered",
                       Append(task[c].events, [seq |-> eventSequence, graph |-> FALSE]))
       ELSE /\ UNCHANGED eventSequence
            /\ Advance(c, "remembered", task[c].events)
    /\ results' = prune_idempotency_results(
                    Put(results, <<identity[c], task[c].cmd>>,
                        [seq |-> task[c].seq, emitted |-> task[c].events # <<>>]), aged, store)
    /\ UNCHANGED <<connectionSequence, store, aged, resumeTokens, applied, broadcast,
                   status, peer, identity, highWater, snap, queue, lagged, client>>

\* Faulty variant: only the last event of a command is published.
AckSent_last_event(c) ==
    /\ task[c].stage = "remembered"
    /\ IF task[c].events = <<>> THEN Finish(c)
       ELSE Advance(c, "publishing", <<task[c].events[Len(task[c].events)]>>)
    /\ UNCHANGED <<shared, status, peer, identity, highWater, snap, queue, lagged, client>>

AckSent(c) ==
    /\ task[c].stage = "remembered"
    /\ IF task[c].events = <<>> THEN Finish(c) ELSE Advance(c, "publishing", task[c].events)
    /\ UNCHANGED <<shared, status, peer, identity, highWater, snap, queue, lagged, client>>

\* The handler leaves its loop when the acknowledgement cannot be sent.
AckFails(c) ==
    /\ SendFailures
    /\ task[c].stage = "remembered"
    /\ Close(c)
    /\ UNCHANGED shared

\* publish, first half: the event enters the store, the cache is pruned.
PublishToStore(c) ==
    /\ task[c].stage = "publishing"
    /\ store' = PushBounded(store, Head(task[c].events))
    /\ results' = prune_idempotency_results(results, aged, store')
    /\ Advance(c, "stored", task[c].events)
    /\ UNCHANGED <<eventSequence, connectionSequence, aged, resumeTokens, applied, broadcast,
                   status, peer, identity, highWater, snap, queue, lagged, client>>

\* publish, second half: the event goes to every subscribed socket; a full
\* queue loses its oldest event and the receiver will be told.
PublishToQueues(c) ==
    LET e == Head(task[c].events)
    IN  /\ task[c].stage = "stored"
        /\ broadcast' = broadcast \cup {e}
        /\ queue' = [d \in Conns |-> IF d \in Open THEN PushBounded(queue[d], e) ELSE queue[d]]
        /\ lagged' = [d \in Conns |-> lagged[d] \/ (d \in Open /\ Len(queue[d]) = ReplayLimit)]
        /\ IF Tail(task[c].events) = <<>> THEN Finish(c)
           ELSE Advance(c, "publishing", Tail(task[c].events))
        /\ UNCHANGED <<eventSequence, connectionSequence, store, results, aged, resumeTokens, applied,
                       status, peer, identity, highWater, snap, client>>

----------------------------------------------------------------------------
(* Live events.                                                            *)

CanReceive(c) == status[c] \in {"connected", "attached"} /\ task[c] = Idle

ReceiveEvent(c) ==
    /\ CanReceive(c) /\ ~ lagged[c] /\ queue[c] # <<>>
    /\ LET e == Head(queue[c])
       IN  IF e.seq <= highWater[c]
           THEN UNCHANGED <<known, cursor>>
           ELSE /\ known' = [known EXCEPT ![c] = @ \cup {s \in {e.seq} : e.graph}]
                /\ cursor' = [cursor EXCEPT ![peer[c]] = e.seq]
    /\ queue' = [queue EXCEPT ![c] = Tail(@)]
    /\ UNCHANGED <<shared, status, peer, identity, highWater, snap, lagged, task, token>>

\* Faulty variant: lag is passed over.
ReceiveLagged_ignored(c) ==
    /\ CanReceive(c) /\ lagged[c]
    /\ lagged' = [lagged EXCEPT ![c] = FALSE]
    /\ UNCHANGED <<shared, status, peer, identity, highWater, snap, queue, task, client>>

\* The broadcast channel reports lag before the events it still has: an
\* attached client gets session.syncRequired with a fresh snapshot.
ReceiveLagged(c) ==
    /\ CanReceive(c) /\ lagged[c]
    /\ lagged' = [lagged EXCEPT ![c] = FALSE]
    /\ IF identity[c] = None
       THEN UNCHANGED <<known, cursor>>
       ELSE /\ known' = [known EXCEPT ![c] = AppliedSeqs]
            /\ cursor' = [cursor EXCEPT ![peer[c]] = current_sequence]
    /\ UNCHANGED <<shared, status, peer, identity, highWater, snap, queue, task, token>>

----------------------------------------------------------------------------
Attach(c) ==
    \E resume \in {None, token[peer[c]]}, last \in {None, cursor[peer[c]]} :
      HelloAttach(c, resume, last)

HandleCommand(c) ==
    \/ ApplyCommand(c) \/ RejectCommand(c) \/ Remember(c) \/ AckSent(c)
    \/ PublishToStore(c) \/ PublishToQueues(c)

Receive(c) == ReceiveEvent(c) \/ ReceiveLagged(c)

Next ==
    \/ \E c \in Conns :
         \/ \E w \in Clients : Connect(c, w)
         \/ Disconnect(c)
         \/ HelloSnapshot(c)
         \/ status[c] = "hello" /\ (Attach(c) \/ \E r \in {None, token[peer[c]]} : HelloFails(c, r))
         \/ \E k \in Commands : BeginCommand(c, k) \/ CachedCommand(c, k)
         \/ HandleCommand(c)
         \/ AckFails(c)
         \/ Receive(c)
    \/ \E t \in DOMAIN resumeTokens : ExpireToken(t)
    \/ \E k \in DOMAIN results : ResultAges(k)

Spec == Init /\ [][Next]_vars

\* A handler is one task of the async executor: it goes on whenever it can.
\* Clients are free: nothing obliges them to connect, speak or leave.
HandlerStep(c) == (status[c] = "hello" /\ Attach(c)) \/ HandleCommand(c) \/ Receive(c)
Fairness == \A c \in Conns : WF_vars(HandlerStep(c))
FairSpec == Spec /\ Fairness

----------------------------------------------------------------------------
(* Properties.                                                             *)

\* Every variable has its type.
TypeOK ==
    /\ eventSequence \in Nat \ {0} /\ connectionSequence \in Nat \ {0}
    /\ store \in Seq(Event) /\ Len(store) <= ReplayLimit
    /\ DOMAIN results \subseteq (Nat \X Commands)
    /\ \A k \in DOMAIN results : results[k] \in [seq : Nat, emitted : BOOLEAN]
    /\ aged \subseteq Nat
    /\ DOMAIN resumeTokens \subseteq Nat
    /\ \A t \in DOMAIN resumeTokens : resumeTokens[t] \in Nat
    /\ applied \in Seq([cmd : Commands, id : Nat, seq : Nat \ {0}])
    /\ broadcast \subseteq Event
    /\ status \in [Conns -> {"closed", "connected", "hello", "attached"}]
    /\ peer \in [Conns -> Clients \cup {None}]
    /\ identity \in [Conns -> Nat \cup {None}]
    /\ highWater \in [Conns -> Nat]
    /\ snap \in [Conns -> SUBSET Nat]
    /\ queue \in [Conns -> Seq(Event)] /\ \A c \in Conns : Len(queue[c]) <= ReplayLimit
    /\ lagged \in [Conns -> BOOLEAN]
    /\ task \in [Conns -> Task]
    /\ known \in [Conns -> SUBSET Nat]
    /\ cursor \in [Clients -> Nat \cup {None}]
    /\ token \in [Clients -> Nat \cup {None}]

\* An attached client loses no event above its high water mark: each one ever
\* broadcast is in what the client knows, or waits in its queue, or the client
\* is about to be told to resynchronise -- through hello, replay, lag and a
\* second hello on the same socket.
NoSilentLoss ==
    \A c \in Conns : \A e \in broadcast :
      (status[c] = "attached" /\ e.graph /\ e.seq > highWater[c])
      => e.seq \in known[c] \/ e \in Range(queue[c]) \/ lagged[c]

\* A resume token works once and an identity has one token at most, whatever
\* sockets, repeated hellos and lost attach frames there were: two sockets
\* can not both resume it.
OneTokenPerIdentity ==
    \A t, u \in DOMAIN resumeTokens : resumeTokens[t] = resumeTokens[u] => t = u

\* No client is shown an edit the session did not make: what a client knows
\* through snapshots, replay, live events and cached results was applied.
KnownIsApplied == \A c \in Conns : known[c] \subseteq AppliedSeqs

\* The events that have entered the store, whether or not the queues have them.
Published == broadcast \cup {Head(task[c].events) : c \in {d \in Conns : task[d].stage = "stored"}}

\* A retry with the same idempotency key -- after a lost acknowledgement, on a
\* new socket that resumed the identity, or just a second frame -- is applied
\* again only when the cache had a reason to forget the first result: an event
\* with a later sequence was published in between, ReplayLimit sequences were
\* used, or the result outlived its time to live in the cache.
RetryIsRemembered ==
    \A i, j \in DOMAIN applied :
      (i < j /\ applied[i].cmd = applied[j].cmd /\ applied[i].id = applied[j].id)
      => \/ \E e \in Published : e.seq \in (applied[i].seq + 1)..(applied[j].seq - 1)
         \/ applied[j].seq - applied[i].seq > ReplayLimit
         \/ applied[i].seq \in aged

\* A broadcast event above the high water mark of an attached socket reaches
\* the client, or the socket closes.
BroadcastIsDelivered ==
    \A c \in Conns : \A s \in 1..(MaxSequence - 1) :
      (status[c] = "attached" /\ s > highWater[c] /\ [seq |-> s, graph |-> TRUE] \in broadcast)
      ~> (s \in known[c] \/ status[c] # "attached")

Quiet == \A c \in Conns : /\ task[c] = Idle /\ status[c] # "hello"
                          /\ status[c] = "attached" => queue[c] = <<>> /\ ~ lagged[c]

\* Every accepted command is published as graph.applied: when nothing is under
\* way any more, each applied command's event has been broadcast, unless an
\* acknowledgement could not be sent.
AppliedIsPublished ==
    (Quiet /\ ~ SendFailures) => \A s \in AppliedSeqs : [seq |-> s, graph |-> TRUE] \in broadcast
=============================================================================
