------------------------------ MODULE RuntimeLogs ------------------------------
(***************************************************************************)
(* The runtime log (log_store.rs) and its event streams (server.rs,        *)
(* runtime_logs_stream).  Every handler that answers with diagnostics      *)
(* records them: an event gets its id and enters the backlog under the     *)
(* store's lock and is broadcast after the lock is released, so handlers   *)
(* overtake one another.  A stream subscribes, then reads the backlog, and *)
(* sends both one after the other.                                         *)
(***************************************************************************)
EXTENDS Integers, Sequences, SequencesExt

CONSTANTS
    Handlers,         \* tasks that record diagnostics
    LogStreams,       \* open event streams
    Answers,          \* severities of the diagnostics an answer may come with
    BacklogLimit,     \* RuntimeLogStore::new(backlog_limit)
    ChannelCapacity,  \* RUNTIME_LOG_CHANNEL_CAPACITY
    MaxLogEvents,     \* bound
    NoEvent

\* The severities a log event has (DiagnosticSeverity).
Levels == {"info", "warning", "error"}

\* Both limits are positive constants of the program.
ASSUME LimitsAssumption == BacklogLimit \in Nat \ {0} /\ ChannelCapacity \in Nat \ {0}
ASSUME EventsAssumption ==
    /\ Answers \subseteq Seq(Levels)
    /\ NoEvent \notin [id : Nat, level : Levels]

VARIABLES
    nextLogId,
    answering,    \* handler -> diagnostics of its answer still to be recorded
    backlog,      \* warning_error_backlog
    unsent,       \* handler -> event that is stored and not broadcast yet
    logStream     \* stream -> [state, queue, lagged, seen, gap]

logStoreVars == <<nextLogId, answering, backlog, unsent, logStream>>

Closed == [state |-> "closed", queue |-> <<>>, lagged |-> FALSE, seen |-> {}, gap |-> FALSE]

LogInit ==
    /\ nextLogId = 1
    /\ backlog = <<>>
    /\ answering = [h \in Handlers |-> <<>>]
    /\ unsent = [h \in Handlers |-> NoEvent]
    /\ logStream = [s \in LogStreams |-> Closed]

\* Only warnings and errors are kept for replay, the newest BacklogLimit of them.
Retained(events, event) ==
    IF event.level \notin {"warning", "error"} THEN events
    ELSE Append(IF Len(events) = BacklogLimit THEN Tail(events) ELSE events, event)

\* session_json, patch_json and their like: the diagnostics of an answer are
\* recorded one after the other before it is sent.
answer_json(h, levels) ==
    /\ answering[h] = <<>> /\ unsent[h] = NoEvent
    /\ nextLogId <= MaxLogEvents
    /\ answering' = [answering EXCEPT ![h] = levels]
    /\ UNCHANGED <<nextLogId, backlog, unsent, logStream>>

\* An event as it is stored and sent.
LogEvent(level) == [id |-> nextLogId, level |-> level]

\* The part of push under the lock.
push(h) ==
    /\ answering[h] # <<>> /\ unsent[h] = NoEvent
    /\ nextLogId <= MaxLogEvents
    /\ LET event == LogEvent(Head(answering[h]))
       IN  /\ nextLogId' = nextLogId + 1
           /\ backlog' = Retained(backlog, event)
           /\ unsent' = [unsent EXCEPT ![h] = event]
    /\ answering' = [answering EXCEPT ![h] = Tail(@)]
    /\ UNCHANGED logStream

subscribed(s) == logStream[s].state \in {"subscribed", "open"}

\* sender.send: a full receiver loses its oldest event and will be told so.
send(h) ==
    /\ unsent[h] # NoEvent
    /\ unsent' = [unsent EXCEPT ![h] = NoEvent]
    /\ logStream' =
         [s \in LogStreams |->
            LET r == logStream[s]
            IN  CASE ~subscribed(s) -> r
                  [] subscribed(s) /\ Len(r.queue) = ChannelCapacity ->
                       [r EXCEPT !.queue = Append(Tail(@), unsent[h]), !.lagged = TRUE]
                  [] OTHER -> [r EXCEPT !.queue = Append(@, unsent[h])]]
    /\ UNCHANGED <<nextLogId, answering, backlog>>

subscribe(s) ==
    /\ logStream[s].state = "closed"
    /\ logStream' = [logStream EXCEPT ![s].state = "subscribed"]
    /\ UNCHANGED <<nextLogId, answering, backlog, unsent>>

\* snapshot().events is the first part of the stream.
runtime_logs_stream(s) ==
    /\ logStream[s].state = "subscribed"
    /\ logStream' = [logStream EXCEPT ![s].state = "open", ![s].seen = ToSet(backlog)]
    /\ UNCHANGED <<nextLogId, answering, backlog, unsent>>

\* Faulty variant: a lag is passed over.
runtime_log_broadcast_event_silent(s) ==
    /\ logStream[s].state = "open"
    /\ logStream[s].queue # <<>>
    /\ logStream' = [logStream EXCEPT ![s].queue = Tail(@), ![s].lagged = FALSE,
                                      ![s].seen = @ \union {Head(logStream[s].queue)}]
    /\ UNCHANGED <<nextLogId, answering, backlog, unsent>>

\* A lag becomes a log-gap event before the stream goes on.
runtime_log_broadcast_event(s) ==
    /\ logStream[s].state = "open"
    /\ \/ /\ logStream[s].lagged
          /\ logStream' = [logStream EXCEPT ![s].lagged = FALSE, ![s].gap = TRUE]
       \/ /\ ~logStream[s].lagged
          /\ logStream[s].queue # <<>>
          /\ logStream' = [logStream EXCEPT ![s].queue = Tail(@),
                                            ![s].seen = @ \union {Head(logStream[s].queue)}]
    /\ UNCHANGED <<nextLogId, answering, backlog, unsent>>

DropStream(s) ==
    /\ logStream[s].state # "closed"
    /\ logStream' = [logStream EXCEPT ![s] = Closed]
    /\ UNCHANGED <<nextLogId, answering, backlog, unsent>>

LogNext ==
    \/ \E h \in Handlers : push(h) \/ send(h) \/ \E levels \in Answers : answer_json(h, levels)
    \/ \E s \in LogStreams : \/ subscribe(s) \/ runtime_logs_stream(s)
                             \/ runtime_log_broadcast_event(s) \/ DropStream(s)

LogSpec == LogInit /\ [][LogNext]_logStoreVars

----------------------------------------------------------------------------
\* A reader of the log who has everything its stream holds has every warning and
\* error that is still on record, or was told of a gap, or the event is on its way:
\* nothing falls between the subscription and the backlog, although events are
\* stored and broadcast in two steps and by several handlers.
LogNotLost ==
    \A s \in LogStreams :
      LET r == logStream[s]
      IN  (r.state = "open" /\ r.queue = <<>> /\ ~r.lagged /\ ~r.gap)
          => \A e \in ToSet(backlog) : e \in r.seen \/ \E h \in Handlers : unsent[h] = e
=============================================================================
