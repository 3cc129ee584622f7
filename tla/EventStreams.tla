---------------------------- MODULE EventStreams ----------------------------
(***************************************************************************)
(* The server-sent event streams of a session: session events              *)
(* (session_registry.rs) and collaboration events (collaboration.rs).      *)
(* Events get a sequence number, are kept in a bounded store and sent to a *)
(* bounded broadcast channel.  A stream replays the store after the        *)
(* client's cursor and then forwards live events above the high water mark *)
(* it read.                                                                *)
(*                                                                         *)
(* One stream is modelled: streams read the same store and do not slow one *)
(* another down.  Session events are published under the session's write   *)
(* lock, so publishers take turns; each event carries the session's state, *)
(* written as the sequence number of the event that announced it.          *)
(* Collaboration events are published under the operation guard.           *)
(***************************************************************************)
EXTENDS Integers, Sequences, SequencesExt

CONSTANTS
    Kinds,        \* the logs to look at: "session", "collaboration"
    ReplayLimit,  \* size of the store and of the broadcast channel
    MaxSequence,  \* bound
    None

ASSUME StreamsAssumption ==
    /\ Kinds \subseteq {"session", "collaboration"}
    /\ ReplayLimit \in Nat \ {0}
    /\ MaxSequence \in Nat
    /\ None \notin Nat \cup {"reserved", "stored", "rejected"}
                     \cup [skipped : Nat, actual : Nat \cup {None}]

VARIABLES
    kind,        \* which log this is; it never changes
    sequence,    \* the last sequence number taken
    publishing,  \* how far the event with that number is
    store,       \* event_store
    phase,       \* the stream's handler
    after,       \* the cursor the stream was opened with
    queue,       \* its receiver's part of the broadcast channel
    skipped,     \* events the receiver has been overrun by
    snapshot,    \* session state read while opening
    highWater,
    out,         \* replayed events still to be sent
    lagging,     \* a lag that is being turned into a gap event
    cursor,      \* the client's last event id
    known,       \* events the client has, or was told are gone (history)
    got,         \* events this connection has delivered (history)
    repeated,    \* events a connection has delivered twice (history)
    window,      \* events that were being published while a stream opened (history)
    late,        \* events stored between the mark and the copy of the store (history)
    published    \* events sent to the channel (history)

logVars == <<kind, sequence, publishing, store, published>>
openVars == <<after, snapshot, highWater>>
clientVars == <<cursor, known, got, repeated>>
windowVars == <<window, late>>
vars == <<logVars, phase, openVars, queue, skipped, out, lagging, clientVars, windowVars>>

Session == kind = "session"
\* From the snapshot (session) or the request (collaboration) until the
\* stream forwards live events.
Opening == phase \in {"opening", "marked", "captured"}
Subscribed == IF Session THEN phase # "closed" ELSE phase = "open"

Init ==
    /\ kind \in Kinds
    /\ sequence = 0 /\ publishing = None /\ store = <<>> /\ published = {}
    /\ phase = "closed"
    /\ after = None /\ snapshot = 0 /\ highWater = 0
    /\ queue = <<>> /\ skipped = 0 /\ out = <<>> /\ lagging = None
    /\ cursor = None /\ known = {} /\ got = {} /\ repeated = {}
    /\ window = {} /\ late = {}

Larger(m, n) == IF m > n THEN m ELSE n

-----------------------------------------------------------------------------
(* Publishing.                                                             *)

Overlap(n) == window' = IF Opening THEN window \cup {n} ELSE window

Reserve ==
    /\ publishing = None
    /\ sequence < MaxSequence
    /\ sequence' = sequence + 1
    /\ publishing' = "reserved"
    /\ Overlap(sequence')
    /\ UNCHANGED <<late, kind, store, published, phase, openVars, queue, skipped, out, lagging, clientVars>>

\* A rejected operation takes a second number for its result.
reserve_again ==
    /\ ~Session
    /\ publishing = "reserved"
    /\ sequence < MaxSequence
    /\ sequence' = sequence + 1
    /\ publishing' = "rejected"
    /\ Overlap(sequence')
    /\ UNCHANGED <<late, kind, store, published, phase, openVars, queue, skipped, out, lagging, clientVars>>

PushBounded(events, n) ==
    LET all == Append(events, n)
    IN IF Len(all) > ReplayLimit THEN Tail(all) ELSE all

\* The channel overwrites what a slow receiver has not read.
Send ==
    /\ published' = published \cup {sequence}
    /\ publishing' = None
    /\ queue' = IF Subscribed THEN PushBounded(queue, sequence) ELSE queue
    /\ skipped' = IF Subscribed /\ Len(queue) = ReplayLimit THEN skipped + 1 ELSE skipped

store_session_event ==
    /\ Session
    /\ publishing = "reserved"
    /\ store' = PushBounded(store, sequence)
    /\ publishing' = "stored"
    /\ Overlap(sequence)
    /\ late' = IF phase = "marked" THEN late \cup {sequence} ELSE late
    /\ UNCHANGED <<kind, sequence, published, phase, openVars, queue, skipped, out, lagging, clientVars>>

send_session_event ==
    /\ publishing = "stored"
    /\ Send
    /\ Overlap(sequence)
    /\ UNCHANGED <<late, kind, sequence, store, phase, openVars, out, lagging, clientVars>>

\* RuntimeCollaborationLog::publish sends with the store locked.
publish_collaboration_event ==
    /\ ~Session
    /\ publishing \in {"reserved", "rejected"}
    /\ store' = PushBounded(store, sequence)
    /\ Send
    /\ Overlap(sequence)
    /\ UNCHANGED <<late, kind, sequence, phase, openVars, out, lagging, clientVars>>

-----------------------------------------------------------------------------
(* Opening a stream.                                                       *)

\* Session streams subscribe first.  The client sends its last event id.
Connect ==
    /\ phase = "closed"
    /\ phase' = IF Session THEN "subscribed" ELSE "opening"
    /\ after' = cursor
    /\ window' = IF publishing = None \/ Session THEN window ELSE window \cup {sequence}
    /\ UNCHANGED <<logVars, snapshot, highWater, queue, skipped, out, lagging, clientVars, late>>

\* Under the session lock: not while an event is being published.
session_snapshot_event ==
    /\ phase = "subscribed"
    /\ publishing = None
    /\ snapshot' = sequence
    /\ phase' = "opening"
    /\ UNCHANGED <<logVars, after, highWater, queue, skipped, out, lagging, clientVars, windowVars>>

latest_stored == IF store = <<>> THEN sequence ELSE Last(store)

ReadHighWater ==
    /\ phase = "opening"
    /\ highWater' = latest_stored
    /\ phase' = "marked"
    /\ UNCHANGED <<logVars, after, snapshot, queue, skipped, out, lagging, clientVars, windowVars>>

\* A frame as the client sees it: its number, its cursor, whether it is a
\* published event, and what the client knows once it has it.
event_replay_fields(n) == [sequence |-> n, cursor |-> n, event |-> TRUE]
gap_fields(expected) == [sequence |-> expected, cursor |-> expected, event |-> FALSE]

\* A session event carries the session, and with it all that came before.
session_event_from_session(fields, state) ==
    [sequence |-> fields.sequence, cursor |-> fields.cursor, event |-> fields.event,
     tells |-> 1 .. state]

\* A collaboration event carries itself.
collaboration_event(fields, tells) ==
    [sequence |-> fields.sequence, cursor |-> fields.cursor, event |-> fields.event,
     tells |-> tells]

\* A gap tells a collaboration client that what came before is gone.
collaboration_gap_event(expected, actual) ==
    collaboration_event(gap_fields(expected), 1 .. actual - 1)

Item(n) == IF Session THEN session_event_from_session(event_replay_fields(n), n)
           ELSE collaboration_event(event_replay_fields(n), {n})

GapItem(expected, actual, state) ==
    IF Session THEN session_event_from_session(gap_fields(expected), state)
    ELSE collaboration_gap_event(expected, actual)

\* The events with a number above the mark, in their order.
Later(events, mark) ==
    LET kept[i \in 0 .. Len(events)] ==
          IF i = 0 THEN <<>>
          ELSE IF events[i] > mark THEN Append(kept[i - 1], events[i]) ELSE kept[i - 1]
    IN kept[Len(events)]

\* Faulty variant: skips one event too many.
ReplayAfter_off_by_one ==
    LET later == Later(store, after + 1)
        items == [i \in 1 .. Len(later) |-> Item(later[i])]
    IN IF store # <<>> /\ after + 1 < Head(store)
       THEN <<GapItem(after + 1, Head(store), snapshot)>> \o items ELSE items

ReplayAfter ==
    LET later == Later(store, after)
        items == [i \in 1 .. Len(later) |-> Item(later[i])]
    IN IF store # <<>> /\ after + 1 < Head(store)
       THEN <<GapItem(after + 1, Head(store), snapshot)>> \o items ELSE items

\* Without a cursor: the snapshot, or everything the collaboration log has.
Replay ==
    CASE after # None -> ReplayAfter
      [] after = None /\ Session ->
           <<[sequence |-> Larger(snapshot, 1), cursor |-> snapshot, event |-> FALSE,
              tells |-> 1 .. snapshot]>>
      [] OTHER -> [i \in 1 .. Len(store) |-> Item(store[i])]

\* A new collaboration client does not ask for what is no longer retained.
ReadReplay ==
    /\ phase = "marked"
    /\ out' = Replay
    /\ known' = IF ~Session /\ after = None /\ store # <<>>
                THEN known \cup (1 .. Head(store) - 1) ELSE known
    /\ phase' = IF Session THEN "open" ELSE "captured"
    /\ UNCHANGED <<logVars, openVars, queue, skipped, lagging, cursor, got, repeated, windowVars>>

\* Collaboration streams subscribe last.
Subscribe ==
    /\ phase = "captured"
    /\ phase' = "open"
    /\ UNCHANGED <<logVars, openVars, queue, skipped, out, lagging, clientVars, windowVars>>

-----------------------------------------------------------------------------
(* Streaming.                                                              *)

Deliver(item) ==
    /\ cursor' = item.cursor
    /\ known' = known \cup item.tells
    /\ got' = IF item.event THEN got \cup {item.sequence} ELSE got
    /\ repeated' = IF item.event /\ item.sequence \in got THEN repeated \cup {item.sequence} ELSE repeated

EmitReplay ==
    /\ phase = "open"
    /\ out # <<>>
    /\ Deliver(Head(out))
    /\ out' = Tail(out)
    /\ UNCHANGED <<logVars, phase, openVars, queue, skipped, lagging, windowVars>>

Live == phase = "open" /\ out = <<>> /\ lagging = None

\* Faulty variant: replayed events are delivered again.
Receive_unfiltered ==
    /\ Live
    /\ skipped = 0
    /\ queue # <<>>
    /\ queue' = Tail(queue)
    /\ Deliver(Item(Head(queue)))
    /\ UNCHANGED <<logVars, phase, openVars, skipped, out, lagging, windowVars>>

Receive ==
    /\ Live
    /\ skipped = 0
    /\ queue # <<>>
    /\ queue' = Tail(queue)
    /\ IF Head(queue) <= highWater THEN UNCHANGED clientVars ELSE Deliver(Item(Head(queue)))
    /\ UNCHANGED <<logVars, phase, openVars, skipped, out, lagging, windowVars>>

\* Faulty variant: a lag is passed over.
ReceiveLagged_ignored ==
    /\ Live
    /\ skipped > 0
    /\ skipped' = 0
    /\ UNCHANGED <<logVars, phase, openVars, queue, out, lagging, clientVars, windowVars>>

ReceiveLagged ==
    /\ Live
    /\ skipped > 0
    /\ lagging' = [skipped |-> skipped, actual |-> None]
    /\ skipped' = 0
    /\ UNCHANGED <<logVars, phase, openVars, queue, out, clientVars, windowVars>>

oldest_retained ==
    /\ lagging # None
    /\ lagging.actual = None
    /\ lagging' = [lagging EXCEPT !.actual = Larger(IF store = <<>> THEN sequence ELSE Head(store), 2)]
    /\ UNCHANGED <<logVars, phase, openVars, queue, skipped, out, clientVars, windowVars>>

\* The sequence the gap is said to begin with.
LagExpected == Larger(lagging.actual - lagging.skipped, 1)

DeliverLag(item) ==
    /\ Deliver(item)
    /\ lagging' = None
    /\ UNCHANGED <<logVars, phase, openVars, queue, skipped, out, windowVars>>

\* The session's gap event holds the session's state, read under its lock.
session_lag_gap_event ==
    /\ Session
    /\ lagging # None
    /\ lagging.actual # None
    /\ publishing = None
    /\ DeliverLag(session_event_from_session(gap_fields(LagExpected), sequence))

stream_lag_gap_event ==
    /\ ~Session
    /\ lagging # None
    /\ lagging.actual # None
    /\ DeliverLag(collaboration_gap_event(LagExpected, lagging.actual))

Disconnect ==
    /\ phase = "open"
    /\ phase' = "closed"
    /\ queue' = <<>> /\ skipped' = 0 /\ out' = <<>> /\ lagging' = None
    /\ after' = None /\ snapshot' = 0 /\ highWater' = 0
    /\ got' = {}
    /\ UNCHANGED <<logVars, cursor, known, repeated, windowVars>>

Next ==
    \/ Reserve \/ reserve_again
    \/ store_session_event \/ send_session_event \/ publish_collaboration_event
    \/ Connect \/ session_snapshot_event \/ ReadHighWater \/ ReadReplay \/ Subscribe
    \/ EmitReplay \/ Receive \/ ReceiveLagged \/ oldest_retained
    \/ session_lag_gap_event \/ stream_lag_gap_event
    \/ Disconnect

Spec == Init /\ [][Next]_vars

-----------------------------------------------------------------------------
(* Properties.                                                             *)

\* The stream has forwarded everything there is.
Drained == Live /\ queue = <<>> /\ skipped = 0 /\ publishing = None

\* A client that has read all its stream has to offer, over any number of
\* connections, has every event or was told of a gap, except for events that
\* were being published while a stream was Opening.
LossOnlyWhileOpening == Drained => published \ window \subseteq known

\* The high water mark keeps a connection from delivering an event twice,
\* live and in the replay, except for events that entered the store between
\* reading the mark and copying the store.
TwiceOnlyWhenLate == repeated \subseteq late
=============================================================================
