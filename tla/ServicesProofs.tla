---------------------------- MODULE ServicesProofs ----------------------------
(***************************************************************************)
(* Theorems about services of the runtime that share no state: the log's   *)
(* event streams (RuntimeLogs), the extension and package registries       *)
(* (Registries), the MIDI clock (MidiClock), the streams of session and    *)
(* collaboration events (EventStreams), the clock crossings of an audio    *)
(* graph and the signal it renders (AudioDsp), for any store size, number  *)
(* of events, graph, block size and callbacks.                             *)
(***************************************************************************)
EXTENDS EventStreams, Registries, MidiClock, AudioDsp, TLAPS, WellFoundedInduction, FiniteSetTheorems

----------------------------------------------------------------------------
(* Sequences.                                                              *)

\* Appending an event adds just that event to those of the sequence.
LEMMA ToSetOfAppend ==
    ASSUME NEW S, NEW s \in Seq(S), NEW e \in S
    PROVE  /\ Append(s, e) \in Seq(S)
           /\ ToSet(Append(s, e)) = ToSet(s) \cup {e}
<1>1. Append(s, e) \in Seq(S) /\ Len(Append(s, e)) = Len(s) + 1
  OBVIOUS
<1>2. \A i \in 1..Len(s) : Append(s, e)[i] = s[i]
  OBVIOUS
<1>3. Append(s, e)[Len(s) + 1] = e
  OBVIOUS
<1>4. DOMAIN s = 1..Len(s) /\ DOMAIN Append(s, e) = 1..(Len(s) + 1)
  BY <1>1
<1>5. ToSet(s) \subseteq ToSet(Append(s, e))
  BY <1>2, <1>4 DEF ToSet
<1>6. e \in ToSet(Append(s, e))
  BY <1>3, <1>4 DEF ToSet
<1>7. ASSUME NEW x \in ToSet(Append(s, e)) PROVE x \in ToSet(s) \cup {e}
  BY <1>2, <1>3, <1>4 DEF ToSet
<1> QED BY <1>1, <1>5, <1>6, <1>7

\* A non-empty sequence holds its head and what its tail holds.
LEMMA ToSetOfTail ==
    ASSUME NEW S, NEW s \in Seq(S), s # <<>>
    PROVE  /\ Head(s) \in S /\ Tail(s) \in Seq(S)
           /\ Len(Tail(s)) = Len(s) - 1
           /\ ToSet(s) = ToSet(Tail(s)) \cup {Head(s)}
<1>1. Head(s) \in S /\ Tail(s) \in Seq(S) /\ Len(Tail(s)) = Len(s) - 1 /\ Len(s) > 0
  OBVIOUS
<1>2. \A i \in 1..Len(Tail(s)) : Tail(s)[i] = s[i + 1]
  OBVIOUS
<1>3. Head(s) = s[1]
  OBVIOUS
<1>4. DOMAIN s = 1..Len(s) /\ DOMAIN Tail(s) = 1..(Len(s) - 1)
  BY <1>1
<1>5. ToSet(Tail(s)) \cup {Head(s)} \subseteq ToSet(s)
  BY <1>1, <1>2, <1>3, <1>4 DEF ToSet
<1>6. ASSUME NEW x \in ToSet(s) PROVE x \in ToSet(Tail(s)) \cup {Head(s)}
  <2>1. PICK i \in 1..Len(s) : x = s[i]
    BY <1>4 DEF ToSet
  <2>2. CASE i = 1
    BY <2>1, <2>2, <1>3
  <2>3. CASE i # 1
    <3>1. i - 1 \in 1..Len(Tail(s)) /\ Tail(s)[i - 1] = s[i]
      BY <2>1, <2>3, <1>1, <1>2
    <3> QED BY <3>1, <2>1, <1>1, <1>4 DEF ToSet
  <2> QED BY <2>2, <2>3
<1> QED BY <1>1, <1>5, <1>6

----------------------------------------------------------------------------
(* The log and its streams.                                                *)

LogEvents == [id : Nat, level : Levels]
StreamType ==
    [state : {"closed", "subscribed", "open"}, queue : Seq(LogEvents), lagged : BOOLEAN,
     seen : SUBSET LogEvents, gap : BOOLEAN]

LogTypeOK ==
    /\ nextLogId \in Nat
    /\ backlog \in Seq(LogEvents)
    /\ answering \in [Handlers -> Seq(Levels)]
    /\ unsent \in [Handlers -> LogEvents \cup {NoEvent}]
    /\ logStream \in [LogStreams -> StreamType]

\* An event on record is on its way to an open stream, in its queue or seen;
\* unless the stream was overrun, and is or will be told so.
Accounted ==
    \A s \in LogStreams :
      (logStream[s].state = "open" /\ ~ logStream[s].lagged /\ ~ logStream[s].gap)
      => \A e \in ToSet(backlog) :
           \/ e \in logStream[s].seen \/ e \in ToSet(logStream[s].queue)
           \/ \E h \in Handlers : unsent[h] = e

LogInv == LogTypeOK /\ Accounted

LEMMA LogInvInit == LogInit => LogInv
<1> SUFFICES ASSUME LogInit PROVE LogInv
  OBVIOUS
<1>1. LogTypeOK
  BY DEF LogInit, LogTypeOK, StreamType, Closed
<1>2. Accounted
  BY DEF LogInit, Accounted, Closed
<1> QED BY <1>1, <1>2 DEF LogInv

\* What is kept is what was on record, and the new event.
LEMMA RetainedType ==
    ASSUME NEW events \in Seq(LogEvents), NEW e \in LogEvents
    PROVE  /\ Retained(events, e) \in Seq(LogEvents)
           /\ ToSet(Retained(events, e)) \subseteq ToSet(events) \cup {e}
<1>1. CASE e.level \notin {"warning", "error"}
  BY <1>1 DEF Retained
<1>2. CASE e.level \in {"warning", "error"} /\ Len(events) = BacklogLimit
  <2>1. events # <<>>
    BY <1>2, LimitsAssumption
  <2> DEFINE kept == Tail(events)
  <2>2. kept \in Seq(LogEvents) /\ ToSet(kept) \subseteq ToSet(events)
    BY <2>1, ToSetOfTail
  <2>3. Retained(events, e) = Append(kept, e)
    BY <1>2 DEF Retained
  <2> HIDE DEF kept
  <2> QED BY <2>2, <2>3, ToSetOfAppend
<1>3. CASE e.level \in {"warning", "error"} /\ Len(events) # BacklogLimit
  <2>1. Retained(events, e) = Append(events, e)
    BY <1>3 DEF Retained
  <2> QED BY <2>1, ToSetOfAppend
<1> QED BY <1>1, <1>2, <1>3

LEMMA LogInvStep == LogInv /\ [LogNext]_logStoreVars => LogInv'
<1> SUFFICES ASSUME LogInv, [LogNext]_logStoreVars PROVE LogInv'
  OBVIOUS
<1>1. /\ nextLogId \in Nat
      /\ backlog \in Seq(LogEvents)
      /\ answering \in [Handlers -> Seq(Levels)]
      /\ unsent \in [Handlers -> LogEvents \cup {NoEvent}]
      /\ logStream \in [LogStreams -> StreamType]
      /\ Accounted
  BY DEF LogInv, LogTypeOK
<1>2. ASSUME NEW h \in Handlers, NEW levels \in Answers, answer_json(h, levels) PROVE LogInv'
  <2>1. levels \in Seq(Levels)
    BY EventsAssumption
  <2> QED BY <1>1, <1>2, <2>1 DEF answer_json, LogInv, LogTypeOK, Accounted
<1>3. ASSUME NEW h \in Handlers, push(h) PROVE LogInv'
  <2> DEFINE e == LogEvent(Head(answering[h]))
  <2>1. Head(answering[h]) \in Levels /\ Tail(answering[h]) \in Seq(Levels)
    BY <1>1, <1>3 DEF push
  <2>2. e \in LogEvents
    BY <1>1, <2>1 DEF LogEvent, LogEvents
  <2>3. /\ unsent[h] = NoEvent
        /\ nextLogId' = nextLogId + 1 /\ backlog' = Retained(backlog, e)
        /\ unsent' = [unsent EXCEPT ![h] = e]
        /\ answering' = [answering EXCEPT ![h] = Tail(@)] /\ logStream' = logStream
    BY <1>3 DEF push
  <2> HIDE DEF e
  <2>4. backlog' \in Seq(LogEvents) /\ ToSet(backlog') \subseteq ToSet(backlog) \cup {e}
    BY <1>1, <2>2, <2>3, RetainedType
  <2>5. LogTypeOK'
    BY <1>1, <2>1, <2>2, <2>3, <2>4 DEF LogTypeOK
  <2>6. NoEvent \notin LogEvents
    BY EventsAssumption DEF LogEvents
  <2>7. \A x \in ToSet(backlog) : x \in LogEvents
    BY <1>1 DEF ToSet
  <2>8. Accounted'
    <3> SUFFICES ASSUME NEW s \in LogStreams, logStream[s].state = "open",
                        ~ logStream[s].lagged, ~ logStream[s].gap, NEW x \in ToSet(backlog')
                 PROVE  \/ x \in logStream[s].seen \/ x \in ToSet(logStream[s].queue)
                        \/ \E k \in Handlers : unsent'[k] = x
      BY <2>3 DEF Accounted
    <3>1. CASE x = e
      BY <1>1, <2>3, <3>1
    <3>2. CASE x \in ToSet(backlog)
      <4>1. \A k \in Handlers : unsent[k] = x => unsent'[k] = x
        BY <1>1, <2>3, <2>6, <2>7, <3>2
      <4> QED BY <1>1, <3>2, <4>1 DEF Accounted
    <3> QED BY <2>4, <3>1, <3>2
  <2> QED BY <2>5, <2>8 DEF LogInv
<1>4. ASSUME NEW h \in Handlers, send(h) PROVE LogInv'
  <2>1. unsent[h] \in LogEvents
    BY <1>1, <1>4 DEF send
  <2> DEFINE r(s) == logStream[s]
             new(s) == CASE ~subscribed(s) -> r(s)
                         [] subscribed(s) /\ Len(r(s).queue) = ChannelCapacity ->
                              [r(s) EXCEPT !.queue = Append(Tail(@), unsent[h]), !.lagged = TRUE]
                         [] OTHER -> [r(s) EXCEPT !.queue = Append(@, unsent[h])]
  <2>2. /\ unsent' = [unsent EXCEPT ![h] = NoEvent] /\ logStream' = [s \in LogStreams |-> new(s)]
        /\ nextLogId' = nextLogId /\ answering' = answering /\ backlog' = backlog
    BY <1>4 DEF send
  <2>3. ASSUME NEW s \in LogStreams
        PROVE  /\ new(s) \in StreamType
               /\ new(s).state = r(s).state /\ new(s).gap = r(s).gap /\ new(s).seen = r(s).seen
               /\ r(s).lagged => new(s).lagged
               /\ subscribed(s) /\ ~ new(s).lagged => ToSet(new(s).queue) = ToSet(r(s).queue) \cup {unsent[h]}
    <3>1. r(s) \in StreamType /\ r(s).queue \in Seq(LogEvents)
      BY <1>1 DEF StreamType
    <3> HIDE DEF r
    <3>2. CASE ~subscribed(s)
      BY <3>1, <3>2
    <3>3. CASE subscribed(s) /\ Len(r(s).queue) = ChannelCapacity
      <4> DEFINE q == Append(Tail(r(s).queue), unsent[h])
      <4>1. r(s).queue # <<>>
        BY <3>3, LimitsAssumption
      <4>2. q \in Seq(LogEvents)
        BY <2>1, <3>1, <4>1
      <4>3. new(s) = [r(s) EXCEPT !.queue = q, !.lagged = TRUE]
        BY <3>3
      <4> HIDE DEF q, new
      <4> QED BY <3>1, <4>2, <4>3 DEF StreamType
    <3>4. CASE subscribed(s) /\ Len(r(s).queue) # ChannelCapacity
      <4> DEFINE q == Append(r(s).queue, unsent[h])
      <4>1. q \in Seq(LogEvents) /\ ToSet(q) = ToSet(r(s).queue) \cup {unsent[h]}
        BY <2>1, <3>1, ToSetOfAppend
      <4>2. new(s) = [r(s) EXCEPT !.queue = q]
        BY <3>4
      <4> HIDE DEF q, new
      <4>3. new(s) \in StreamType /\ new(s).queue = q /\ new(s).state = r(s).state /\ new(s).gap = r(s).gap
            /\ new(s).seen = r(s).seen /\ new(s).lagged = r(s).lagged
        BY <3>1, <4>1, <4>2 DEF StreamType
      <4> QED BY <4>1, <4>3
    <3> QED BY <3>2, <3>3, <3>4
  <2> HIDE DEF new
  <2>4. LogTypeOK'
    BY <1>1, <2>2, <2>3 DEF LogTypeOK
  <2>5. Accounted'
    <3> SUFFICES ASSUME NEW s \in LogStreams, new(s).state = "open", ~ new(s).lagged, ~ new(s).gap,
                        NEW x \in ToSet(backlog)
                 PROVE  \/ x \in new(s).seen \/ x \in ToSet(new(s).queue)
                        \/ \E k \in Handlers : unsent'[k] = x
      BY <2>2 DEF Accounted
    <3>1. subscribed(s)
      BY <2>3 DEF subscribed
    <3>2. \/ x \in r(s).seen \/ x \in ToSet(r(s).queue) \/ \E k \in Handlers : unsent[k] = x
      BY <1>1, <2>3 DEF Accounted
    <3>3. ASSUME NEW k \in Handlers, unsent[k] = x, k # h PROVE unsent'[k] = x
      BY <1>1, <2>2, <3>3
    <3> QED BY <2>3, <3>1, <3>2, <3>3
  <2> QED BY <2>4, <2>5 DEF LogInv
<1>5. ASSUME NEW s \in LogStreams, NEW r \in StreamType,
             logStream' = [logStream EXCEPT ![s] = r],
             UNCHANGED <<nextLogId, answering, backlog, unsent>>,
             (r.state = "open" /\ ~ r.lagged /\ ~ r.gap)
             => \A e \in ToSet(backlog) : e \in r.seen \/ e \in ToSet(r.queue) \/ \E h \in Handlers : unsent[h] = e
      PROVE  LogInv'
  BY <1>1, <1>5 DEF LogInv, LogTypeOK, Accounted
<1>6. ASSUME NEW s \in LogStreams, subscribe(s) PROVE LogInv'
  <2> DEFINE r == [logStream[s] EXCEPT !.state = "subscribed"]
  <2>1. r \in StreamType /\ r.state = "subscribed"
    BY <1>1 DEF StreamType
  <2>2. logStream' = [logStream EXCEPT ![s] = r] /\ UNCHANGED <<nextLogId, answering, backlog, unsent>>
    BY <1>1, <1>6 DEF subscribe
  <2> HIDE DEF r
  <2> QED BY <1>5, <2>1, <2>2
<1>7. ASSUME NEW s \in LogStreams, runtime_logs_stream(s) PROVE LogInv'
  <2> DEFINE r == [logStream[s] EXCEPT !.state = "open", !.seen = ToSet(backlog)]
  <2>1. ToSet(backlog) \subseteq LogEvents
    BY <1>1 DEF ToSet
  <2>2. r \in StreamType /\ r.seen = ToSet(backlog)
    BY <1>1, <2>1 DEF StreamType
  <2>3. logStream' = [logStream EXCEPT ![s] = r] /\ UNCHANGED <<nextLogId, answering, backlog, unsent>>
    BY <1>1, <1>7 DEF runtime_logs_stream
  <2> HIDE DEF r
  <2> QED BY <1>5, <2>2, <2>3
<1>8. ASSUME NEW s \in LogStreams, runtime_log_broadcast_event(s) PROVE LogInv'
  <2>1. CASE logStream[s].lagged /\ logStream' = [logStream EXCEPT ![s].lagged = FALSE, ![s].gap = TRUE]
    <3> DEFINE r == [logStream[s] EXCEPT !.lagged = FALSE, !.gap = TRUE]
    <3>1. r \in StreamType /\ r.gap = TRUE
      BY <1>1 DEF StreamType
    <3>2. logStream' = [logStream EXCEPT ![s] = r] /\ UNCHANGED <<nextLogId, answering, backlog, unsent>>
      BY <1>1, <1>8, <2>1 DEF runtime_log_broadcast_event
    <3> HIDE DEF r
    <3> QED BY <1>5, <3>1, <3>2
  <2>2. CASE /\ ~ logStream[s].lagged /\ logStream[s].queue # <<>>
             /\ logStream' = [logStream EXCEPT ![s].queue = Tail(@),
                                               ![s].seen = @ \union {Head(logStream[s].queue)}]
    <3> DEFINE o == logStream[s]
               r == [o EXCEPT !.queue = Tail(o.queue), !.seen = @ \union {Head(o.queue)}]
    <3>1. o \in StreamType /\ o.queue \in Seq(LogEvents) /\ o.state = "open" /\ o.queue # <<>>
      BY <1>1, <1>8, <2>2 DEF StreamType, runtime_log_broadcast_event
    <3>2. logStream' = [logStream EXCEPT ![s] = r] /\ UNCHANGED <<nextLogId, answering, backlog, unsent>>
      BY <1>1, <1>8, <2>2 DEF runtime_log_broadcast_event
    <3>3. (~ o.lagged /\ ~ o.gap) => \A e \in ToSet(backlog) : e \in o.seen \/ e \in ToSet(o.queue) \/ \E h \in Handlers : unsent[h] = e
      BY <1>1, <3>1 DEF Accounted
    <3> HIDE DEF o
    <3>4. Head(o.queue) \in LogEvents /\ Tail(o.queue) \in Seq(LogEvents)
          /\ ToSet(o.queue) = ToSet(Tail(o.queue)) \cup {Head(o.queue)}
      BY <3>1, ToSetOfTail
    <3>5. /\ r \in StreamType /\ r.queue = Tail(o.queue) /\ r.seen = o.seen \cup {Head(o.queue)}
          /\ r.lagged = o.lagged /\ r.gap = o.gap
      BY <3>1, <3>4 DEF StreamType
    <3>6. logStream' = [logStream EXCEPT ![s] = r]
      BY <3>2 DEF o
    <3> HIDE DEF r
    <3> QED BY <1>5, <3>2, <3>3, <3>4, <3>5, <3>6
  <2> QED BY <1>8, <2>1, <2>2 DEF runtime_log_broadcast_event
<1>9. ASSUME NEW s \in LogStreams, DropStream(s) PROVE LogInv'
  <2>1. Closed \in StreamType /\ Closed.state = "closed"
    BY DEF Closed, StreamType
  <2>2. logStream' = [logStream EXCEPT ![s] = Closed] /\ UNCHANGED <<nextLogId, answering, backlog, unsent>>
    BY <1>9 DEF DropStream
  <2> QED BY <1>5, <2>1, <2>2
<1>10. ASSUME UNCHANGED logStoreVars PROVE LogInv'
  BY <1>1, <1>10 DEF logStoreVars, LogInv, LogTypeOK, Accounted
<1> QED BY <1>2, <1>3, <1>4, <1>6, <1>7, <1>8, <1>9, <1>10 DEF LogNext

THEOREM LogInvariant == LogSpec => []LogInv
BY LogInvInit, LogInvStep, PTL DEF LogSpec

\* A reader of the log who has read all there is has every warning and error on
\* record, for any number of handlers and streams and any limits
\* (push and runtime_logs_stream take the store's lock at different times).
THEOREM LogIsNotLost == LogSpec => []LogNotLost
<1>1. LogInv => LogNotLost
  <2> SUFFICES ASSUME LogInv, NEW s \in LogStreams, logStream[s].state = "open",
                      logStream[s].queue = <<>>, ~ logStream[s].lagged, ~ logStream[s].gap,
                      NEW e \in ToSet(backlog)
               PROVE  e \in logStream[s].seen \/ \E h \in Handlers : unsent[h] = e
    BY DEF LogNotLost
  <2>1. ToSet(logStream[s].queue) = {}
    BY DEF ToSet
  <2> QED BY <2>1 DEF LogInv, Accounted
<1> QED BY <1>1, LogInvariant, PTL

----------------------------------------------------------------------------
(* The registries.                                                         *)

Kept == UNION {Contents[d] : d \in Directories}
Manifests == {c.extension.manifest : c \in Kept} \cup {c.package.manifest : c \in Kept} \cup {NoFile}
Descriptors == [manifest : Manifests, status : {"loaded", "failed"}, witness : Kept]
Entries == [root : DOMAIN PackageDirs, manifest : Manifests, error : BOOLEAN]

RegistriesTypeOK ==
    /\ disk \in [Directories -> Kept]
    /\ scan \in {"extensions", "roots", "packages", "record", "serving"}
    /\ dir \in Nat \ {0}
    /\ look \in [step : {"start", "found", "read"}, state : {"absent", "manifest"}, manifest : Manifests]
    /\ extensions \in Seq(Descriptors)
    /\ packages \in Seq(Entries)

\* What LoadedIsUsable says of one extension.
Usable(e) ==
    e.status = "loaded" =>
      /\ e.manifest.valid /\ e.manifest.abi
      /\ \A path \in e.manifest.files \union (IF e.manifest.native THEN {e.manifest.artifact} ELSE {}) :
           path # NoFile /\ ~path.up /\ path.name \in e.witness.files
      /\ e.manifest.kind = "native-runtime" => e.manifest.native

\* The directory at hand is one of the search path, and its extension manifest
\* was read as one.
AtHand ==
    /\ scan = "extensions" /\ look.step # "start" => dir \in DOMAIN ExtensionDirs
    /\ scan = "extensions" /\ look.step = "read" => NoFile \notin look.manifest.files
    /\ scan = "roots" => look.step = "start" /\ dir = 1
    /\ scan = "packages" /\ look.step # "start" => dir \in DOMAIN PackageDirs

RegistriesTyped == RegistriesTypeOK /\ AtHand
ExtensionsInv == RegistriesTyped /\ \A i \in DOMAIN extensions : Usable(extensions[i])

\* A directory of either path is one that may be rewritten, and holds what it may.
LEMMA DirectoriesAreKnown ==
    /\ \A i \in DOMAIN ExtensionDirs : ExtensionDirs[i] \in Directories
    /\ \A i \in DOMAIN PackageDirs : PackageDirs[i] \in Directories
    /\ Directories \subseteq DOMAIN Contents
    /\ \A c \in Kept : c.extension.manifest \in Manifests /\ c.package.manifest \in Manifests
    /\ \A c \in Kept : c.extension.state = "manifest" => NoFile \notin c.extension.manifest.files
<1>1. \A i \in DOMAIN ExtensionDirs : ExtensionDirs[i] \in Directories
  BY DEF Directories, ToSet
<1>2. \A i \in DOMAIN PackageDirs : PackageDirs[i] \in Directories
  BY DEF Directories, ToSet
<1>3. Directories \subseteq DOMAIN Contents
  BY SearchPathsAssumption DEF Directories, ToSet
<1>4. \A c \in Kept : c.extension.manifest \in Manifests /\ c.package.manifest \in Manifests
  BY DEF Manifests
<1>5. \A c \in Kept : c.extension.state = "manifest" => NoFile \notin c.extension.manifest.files
  BY <1>3, FilesAssumption DEF Kept
<1> QED BY <1>1, <1>2, <1>3, <1>4, <1>5

LEMMA RegistriesTypedInit == RegistriesInit => RegistriesTyped /\ ExtensionsInv
<1> SUFFICES ASSUME RegistriesInit PROVE RegistriesTyped /\ ExtensionsInv
  OBVIOUS
<1>1. disk \in [Directories -> Kept]
  BY DEF RegistriesInit, Kept
<1>2. /\ scan = "extensions" /\ dir = 1 /\ look = Nothing /\ extensions = <<>> /\ packages = <<>>
  BY DEF RegistriesInit
<1>3. RegistriesTypeOK
  BY <1>1, <1>2 DEF RegistriesTypeOK, Nothing, Manifests
<1>4. AtHand
  BY <1>2 DEF AtHand, Nothing
<1> QED BY <1>2, <1>3, <1>4 DEF RegistriesTyped, ExtensionsInv

LEMMA RegistriesTypedStep == RegistriesTyped /\ [RegistriesNext]_registriesVars => RegistriesTyped'
<1> SUFFICES ASSUME RegistriesTyped, [RegistriesNext]_registriesVars PROVE RegistriesTyped'
  OBVIOUS
<1> USE DEF RegistriesTyped, RegistriesTypeOK, AtHand
<1>1. ASSUME NEW d \in Directories, NEW c \in Contents[d], Rewrite(d, c) PROVE RegistriesTyped'
  <2>1. c \in Kept
    BY DEF Kept
  <2> QED BY <1>1, <2>1 DEF Rewrite
<1>2. dir + 1 \in Nat \ {0} /\ dir + 1 # 1 /\ Nothing.step = "start"
      /\ Nothing \in [step : {"start", "found", "read"}, state : {"absent", "manifest"}, manifest : Manifests]
  BY DEF Nothing, Manifests
<1>3. ASSUME LookForExtension PROVE RegistriesTyped'
  <2>1. scan = "extensions" /\ dir <= Len(ExtensionDirs) /\ dir \in DOMAIN ExtensionDirs
        /\ UNCHANGED <<disk, scan, extensions, packages>>
    BY <1>3, SearchPathsAssumption DEF LookForExtension
  <2>2. CASE NextDir
    BY <1>2, <2>1, <2>2 DEF NextDir
  <2>3. CASE look' = [look EXCEPT !.step = "found"] /\ dir' = dir
    BY <2>1, <2>3
  <2> QED BY <1>3, <2>2, <2>3 DEF LookForExtension
<1>4. ASSUME ReadExtension PROVE RegistriesTyped'
  <2> DEFINE c == disk[ExtensionDirs[dir]]
  <2>1. scan = "extensions" /\ dir \in DOMAIN ExtensionDirs /\ UNCHANGED <<disk, scan, packages>>
    BY <1>4 DEF ReadExtension
  <2>2. c \in Kept
    BY <2>1, DirectoriesAreKnown
  <2>3. CASE c.extension.state = "manifest" /\ UNCHANGED <<extensions, dir>>
             /\ look' = [step |-> "read", state |-> "manifest", manifest |-> c.extension.manifest]
    <3> HIDE DEF c
    <3>1. c.extension.manifest \in Manifests /\ NoFile \notin c.extension.manifest.files
      BY <2>2, <2>3, DirectoriesAreKnown
    <3> QED BY <2>1, <2>3, <3>1
  <2>4. CASE NextDir /\ extensions' = Append(extensions, Descriptor(NoFile, "failed", c))
    <3> HIDE DEF c
    <3>1. Descriptor(NoFile, "failed", c) \in Descriptors
      BY <2>2 DEF Descriptor, Descriptors, Manifests
    <3> QED BY <1>2, <2>1, <2>4, <3>1 DEF NextDir
  <2> QED BY <1>4, <2>3, <2>4 DEF ReadExtension
<1>5. ASSUME DescribeExtension PROVE RegistriesTyped'
  <2> DEFINE c == disk[ExtensionDirs[dir]]
             status == IF validate_manifest(look.manifest, c) THEN "failed" ELSE "loaded"
  <2>1. scan = "extensions" /\ dir \in DOMAIN ExtensionDirs /\ UNCHANGED <<disk, scan, packages>> /\ NextDir
        /\ extensions' = Append(extensions, Descriptor(look.manifest, status, c))
    BY <1>5 DEF DescribeExtension
  <2>2. c \in Kept /\ status \in {"loaded", "failed"} /\ look.manifest \in Manifests
    BY <2>1, DirectoriesAreKnown
  <2> HIDE DEF c, status
  <2>3. Descriptor(look.manifest, status, c) \in Descriptors
    BY <2>2 DEF Descriptor, Descriptors
  <2> QED BY <1>2, <2>1, <2>3 DEF NextDir
<1>6. ASSUME EndExtensions PROVE RegistriesTyped'
  <2>1. look.step = "start"
    BY <1>6, SearchPathsAssumption DEF EndExtensions
  <2> QED BY <1>6, <2>1 DEF EndExtensions
<1>7. ASSUME ResolveRoots PROVE RegistriesTyped'
  BY <1>7 DEF ResolveRoots
<1>8. ASSUME LookForPackage PROVE RegistriesTyped'
  <2>1. scan = "packages" /\ dir \in DOMAIN PackageDirs /\ UNCHANGED <<disk, scan, extensions>>
    BY <1>8, SearchPathsAssumption DEF LookForPackage
  <2>2. \/ NextDir /\ packages' = packages
        \/ look' = [look EXCEPT !.step = "found"] /\ UNCHANGED <<dir, packages>>
    BY <1>8 DEF LookForPackage, RootError
  <2> QED BY <1>2, <2>1, <2>2 DEF NextDir
<1>9. ASSUME ReadPackage PROVE RegistriesTyped'
  <2> DEFINE c == disk[PackageDirs[dir]]
  <2>1. scan = "packages" /\ dir \in DOMAIN PackageDirs /\ UNCHANGED <<disk, scan, extensions>>
    BY <1>9 DEF ReadPackage
  <2>2. c \in Kept
    BY <2>1, DirectoriesAreKnown
  <2>3. c.package.manifest \in Manifests
    BY <2>2, DirectoriesAreKnown
  <2>4. \/ look' = [step |-> "read", state |-> "manifest", manifest |-> c.package.manifest]
           /\ UNCHANGED <<dir, packages>>
        \/ NextDir /\ packages' = packages
    BY <1>9 DEF ReadPackage, RootError
  <2> HIDE DEF c
  <2> QED BY <1>2, <2>1, <2>3, <2>4 DEF NextDir
<1>10. ASSUME EnterPackage PROVE RegistriesTyped'
  <2> DEFINE error == ~look.manifest.valid
                      \/ package_path_diagnostics(look.manifest, disk[PackageDirs[dir]]) # {}
  <2>1. scan = "packages" /\ dir \in DOMAIN PackageDirs /\ UNCHANGED <<disk, scan, extensions>> /\ NextDir
        /\ packages' = Append(packages, [root |-> dir, manifest |-> look.manifest, error |-> error])
    BY <1>10 DEF EnterPackage
  <2>2. error \in BOOLEAN
    OBVIOUS
  <2> HIDE DEF error
  <2>3. [root |-> dir, manifest |-> look.manifest, error |-> error] \in Entries
    BY <2>1, <2>2 DEF Entries
  <2> QED BY <1>2, <2>1, <2>3 DEF NextDir
<1>11. ASSUME EndPackages \/ Serve PROVE RegistriesTyped'
  BY <1>11 DEF EndPackages, Serve
<1>12. ASSUME UNCHANGED registriesVars PROVE RegistriesTyped'
  BY <1>12 DEF registriesVars, registryVars
<1> QED BY <1>1, <1>3, <1>4, <1>5, <1>6, <1>7, <1>8, <1>9, <1>10, <1>11, <1>12 DEF RegistriesNext

\* A manifest that earns no error names only what is there.
LEMMA JudgedIsUsable ==
    ASSUME NEW m, NEW c, ~ validate_manifest(m, c), NoFile \notin m.files
    PROVE  Usable(Descriptor(m, "loaded", c))
<1>1. m.valid /\ m.abi /\ ~ invalid_native(m, c) /\ \A path \in m.files : ~ missing_file(c, path)
  BY DEF validate_manifest
<1>2. \A path \in m.files : path # NoFile /\ ~path.up /\ path.name \in c.files
  BY <1>1 DEF missing_file, relative_package_path
<1>3. m.native => /\ m.artifact # NoFile /\ ~m.artifact.up /\ m.artifact.name \in c.files
  BY <1>1 DEF invalid_native, validate_native_binding, missing_file, relative_package_path
<1>4. m.kind = "native-runtime" => m.native
  BY <1>1 DEF invalid_native
<1>5. \A path \in m.files \union (IF m.native THEN {m.artifact} ELSE {}) :
        path # NoFile /\ ~path.up /\ path.name \in c.files
  BY <1>2, <1>3
<1> QED BY <1>1, <1>4, <1>5 DEF Usable, Descriptor

LEMMA ExtensionsInvStep == ExtensionsInv /\ [RegistriesNext]_registriesVars => ExtensionsInv'
<1> SUFFICES ASSUME ExtensionsInv, [RegistriesNext]_registriesVars PROVE ExtensionsInv'
  OBVIOUS
<1>1. RegistriesTyped /\ RegistriesTyped' /\ extensions \in Seq(Descriptors)
      /\ \A i \in DOMAIN extensions : Usable(extensions[i])
  BY RegistriesTypedStep DEF ExtensionsInv, RegistriesTyped, RegistriesTypeOK
<1>2. ASSUME UNCHANGED extensions PROVE ExtensionsInv'
  BY <1>1, <1>2 DEF ExtensionsInv
<1>3. ASSUME NEW e, Usable(e), extensions' = Append(extensions, e) PROVE ExtensionsInv'
  <2>1. ASSUME NEW i \in DOMAIN extensions' PROVE Usable(extensions'[i])
    <3>1. DOMAIN extensions' = 1 .. Len(extensions) + 1 /\ extensions'[i] = IF i = Len(extensions) + 1 THEN e ELSE extensions[i]
      BY <1>1, <1>3
    <3>2. i \in DOMAIN extensions \/ i = Len(extensions) + 1
      BY <1>1, <3>1
    <3> QED BY <1>1, <1>3, <3>1, <3>2
  <2> QED BY <1>1, <2>1 DEF ExtensionsInv
<1>4. ASSUME ReadExtension PROVE ExtensionsInv'
  <2>1. CASE UNCHANGED extensions
    BY <1>2, <2>1
  <2>2. CASE extensions' = Append(extensions, Descriptor(NoFile, "failed", disk[ExtensionDirs[dir]]))
    <3>1. Usable(Descriptor(NoFile, "failed", disk[ExtensionDirs[dir]]))
      BY DEF Usable, Descriptor
    <3> QED BY <1>3, <2>2, <3>1
  <2> QED BY <1>4, <2>1, <2>2 DEF ReadExtension
<1>5. ASSUME DescribeExtension PROVE ExtensionsInv'
  <2> DEFINE c == disk[ExtensionDirs[dir]]
  <2>1. NoFile \notin look.manifest.files
    BY <1>1, <1>5 DEF DescribeExtension, RegistriesTyped, AtHand
  <2>2. CASE validate_manifest(look.manifest, c)
    <3>1. extensions' = Append(extensions, Descriptor(look.manifest, "failed", c))
      BY <1>5, <2>2 DEF DescribeExtension
    <3>2. Usable(Descriptor(look.manifest, "failed", c))
      BY DEF Usable, Descriptor
    <3> QED BY <1>3, <3>1, <3>2
  <2>3. CASE ~ validate_manifest(look.manifest, c)
    <3>1. extensions' = Append(extensions, Descriptor(look.manifest, "loaded", c))
      BY <1>5, <2>3 DEF DescribeExtension
    <3>2. Usable(Descriptor(look.manifest, "loaded", c))
      BY <2>1, <2>3, JudgedIsUsable
    <3> QED BY <1>3, <3>1, <3>2
  <2> QED BY <2>2, <2>3
<1>6. CASE ~ ReadExtension /\ ~ DescribeExtension
  <2>1. UNCHANGED extensions
    BY <1>6 DEF RegistriesNext, Rewrite, LookForExtension, EndExtensions, ResolveRoots, LookForPackage,
                ReadPackage, EnterPackage, EndPackages, Serve, registriesVars, registryVars
  <2> QED BY <1>2, <2>1
<1> QED BY <1>4, <1>5, <1>6

THEOREM ExtensionsInvariant == RegistriesSpec => []ExtensionsInv
<1>1. RegistriesInit => ExtensionsInv
  BY RegistriesTypedInit
<1> QED BY <1>1, ExtensionsInvStep, PTL DEF RegistriesSpec

\* Whatever the manifests say and however the directories change while they are
\* read, what is listed as loaded had all its files when it was judged
\* (descriptor_from_manifest).
THEOREM LoadedExtensionIsUsable == RegistriesSpec => []LoadedIsUsable
<1>1. ExtensionsInv => LoadedIsUsable
  BY DEF ExtensionsInv, LoadedIsUsable, Usable
<1> QED BY <1>1, ExtensionsInvariant, PTL

----------------------------------------------------------------------------
(* A registry that calls itself ready.                                     *)

\* All roots have been resolved, some of them to no path.
RootPaths == {c.path : c \in Kept}
RootsKnown == scan \in {"packages", "record", "serving"} => roots \in [DOMAIN PackageDirs -> RootPaths]

\* What has been settled of the i-th root.
Settled(i) ==
    \/ i \in duplicate_root_indexes
    \/ \E code : <<i, code>> \in rootErrors
    \/ \E j \in DOMAIN packages : packages[j].root = i

\* The roots before the one at hand are settled, and the ones with a package
\* are resolved, no duplicates, and have one package each.
RootsRead ==
    /\ scan = "packages" =>
         /\ \A i \in DOMAIN PackageDirs : i < dir => Settled(i)
         /\ \A j \in DOMAIN packages : packages[j].root < dir
         /\ look.step # "start" => Resolved(dir) /\ dir \notin duplicate_root_indexes
    /\ scan \in {"record", "serving"} =>
         /\ \A i \in DOMAIN PackageDirs : Settled(i)
         /\ root_overlap_diagnostics \subseteq rootErrors
         /\ duplicate_package_diagnostics \subseteq rootErrors
    /\ scan \in {"extensions", "roots"} => packages = <<>>
    /\ \A i, j \in DOMAIN packages : i # j => packages[i].root # packages[j].root
    /\ \A j \in DOMAIN packages :
         /\ Resolved(packages[j].root)
         /\ ~ packages[j].error => packages[j].manifest.valid

PackagesInv == RegistriesTyped /\ RootsKnown /\ RootsRead

\* Only the resolution of the roots and the end of the scan change the roots.
LEMMA RootsKnownStep == RegistriesTyped /\ RootsKnown /\ [RegistriesNext]_registriesVars => RootsKnown'
<1> SUFFICES ASSUME RegistriesTyped, RootsKnown, [RegistriesNext]_registriesVars PROVE RootsKnown'
  OBVIOUS
<1>1. CASE ResolveRoots
  <2>1. disk \in [Directories -> Kept]
    BY DEF RegistriesTyped, RegistriesTypeOK
  <2>2. \A i \in DOMAIN PackageDirs : disk[PackageDirs[i]] \in Kept
    BY <2>1, DirectoriesAreKnown
  <2>3. \A i \in DOMAIN PackageDirs : disk[PackageDirs[i]].path \in RootPaths
    BY <2>2 DEF RootPaths
  <2>4. roots' = [i \in DOMAIN PackageDirs |-> disk[PackageDirs[i]].path]
    BY <1>1 DEF ResolveRoots
  <2> QED BY <2>3, <2>4 DEF RootsKnown
<1>2. CASE ~ ResolveRoots
  <2>1. UNCHANGED roots /\ (scan' = scan \/ (scan = "extensions" /\ scan' = "roots")
                            \/ (scan = "packages" /\ scan' = "record") \/ (scan = "record" /\ scan' = "serving"))
    BY <1>2 DEF RegistriesNext, Rewrite, LookForExtension, ReadExtension, DescribeExtension, EndExtensions,
                LookForPackage, ReadPackage, EnterPackage, EndPackages, Serve, registriesVars, registryVars
  <2> QED BY <2>1 DEF RootsKnown
<1> QED BY <1>1, <1>2

LEMMA RootsReadStep == PackagesInv /\ [RegistriesNext]_registriesVars => RootsRead'
<1> SUFFICES ASSUME PackagesInv, [RegistriesNext]_registriesVars PROVE RootsRead'
  OBVIOUS
<1>1. /\ RegistriesTyped /\ RegistriesTyped' /\ RootsKnown /\ RootsRead
      /\ packages \in Seq(Entries) /\ dir \in Nat \ {0}
      /\ DOMAIN PackageDirs = 1 .. Len(PackageDirs) /\ Len(PackageDirs) \in Nat
  BY RegistriesTypedStep, SearchPathsAssumption DEF PackagesInv, RegistriesTyped, RegistriesTypeOK
<1>a. \A j \in DOMAIN packages : packages[j].root \in Nat
  <2>1. \A j \in DOMAIN packages : packages[j] \in Entries
    BY <1>1
  <2>2. \A p \in Entries : p.root \in DOMAIN PackageDirs
    BY DEF Entries
  <2> QED BY <1>1, <2>1, <2>2
\* The registry did not change.
<1>2. ASSUME UNCHANGED <<scan, dir, roots, packages, rootErrors>>, look' = look \/ scan = "extensions"
      PROVE  RootsRead'
  <2>1. /\ duplicate_root_indexes' = duplicate_root_indexes /\ \A i : Resolved(i)' = Resolved(i)
        /\ \A i : Settled(i)' = Settled(i)
        /\ root_overlap_diagnostics' = root_overlap_diagnostics
        /\ duplicate_package_diagnostics' = duplicate_package_diagnostics
    BY <1>2 DEF duplicate_root_indexes, Resolved, Settled, root_overlap_diagnostics, overlapping,
                duplicate_package_diagnostics
  <2>2. \A j \in DOMAIN packages' : roots'[packages'[j].root] # NoPath
    BY <1>1, <1>2 DEF RootsRead, Resolved
  <2> QED BY <1>1, <1>2, <2>1, <2>2 DEF RootsRead, Resolved
<1>3. ASSUME NEW d \in Directories, NEW c \in Contents[d], Rewrite(d, c) PROVE RootsRead'
  BY <1>2, <1>3 DEF Rewrite
<1>4. ASSUME scan \in {"extensions", "roots"}, scan' \in {"extensions", "roots"}, packages' = packages PROVE RootsRead'
  BY <1>1, <1>4 DEF RootsRead
<1>5. ASSUME LookForExtension \/ ReadExtension \/ DescribeExtension \/ EndExtensions PROVE RootsRead'
  BY <1>4, <1>5 DEF LookForExtension, ReadExtension, DescribeExtension, EndExtensions
<1>6. ASSUME ResolveRoots PROVE RootsRead'
  <2>1. scan' = "packages" /\ packages' = <<>> /\ dir' = 1 /\ look'.step = "start"
    BY <1>1, <1>6 DEF ResolveRoots, RootsRead, RegistriesTyped, AtHand
  <2> QED BY <1>1, <2>1 DEF RootsRead
\* A root with an error, or a duplicate, is settled.
<1>7. ASSUME scan = "packages", scan' = scan, NextDir, UNCHANGED <<roots, packages>>, rootErrors \subseteq rootErrors',
             dir \in DOMAIN PackageDirs,
             dir \in duplicate_root_indexes \/ \E code : <<dir, code>> \in rootErrors'
      PROVE  RootsRead'
  <2>1. dir' = dir + 1 /\ look'.step = "start"
    BY <1>7 DEF NextDir, Nothing
  <2>2. duplicate_root_indexes' = duplicate_root_indexes /\ \A i : Resolved(i)' = Resolved(i)
    BY <1>7 DEF duplicate_root_indexes, Resolved
  <2>3. ASSUME NEW i \in DOMAIN PackageDirs, i < dir' PROVE Settled(i)'
    <3>1. CASE i = dir
      BY <1>7, <2>2, <3>1 DEF Settled
    <3>2. CASE i < dir
      BY <1>1, <1>7, <2>2, <3>2 DEF RootsRead, Settled
    <3> QED BY <1>1, <2>1, <2>3, <3>1, <3>2
  <2>5. \A j \in DOMAIN packages' : packages'[j].root < dir'
    BY <1>1, <1>a, <1>7, <2>1 DEF RootsRead
  <2> QED BY <1>1, <1>7, <2>1, <2>2, <2>3, <2>5 DEF RootsRead
<1>8. ASSUME LookForPackage PROVE RootsRead'
  <2>1. scan = "packages" /\ scan' = scan /\ dir \in DOMAIN PackageDirs /\ look.step = "start" /\ roots' = roots
    BY <1>1, <1>8 DEF LookForPackage
  <2>2. CASE dir \in duplicate_root_indexes
    BY <1>7, <1>8, <2>1, <2>2 DEF LookForPackage
  <2>3. ASSUME NEW code, RootError(code) PROVE RootsRead'
    BY <1>7, <2>1, <2>3 DEF RootError
  <2>4. CASE dir \notin duplicate_root_indexes /\ ~ Resolved(dir)
    BY <1>8, <2>3, <2>4 DEF LookForPackage
  <2>5. CASE dir \notin duplicate_root_indexes /\ Resolved(dir)
    <3>1. CASE \E code : RootError(code)
      BY <2>3, <3>1
    <3>2. CASE look' = [look EXCEPT !.step = "found"] /\ UNCHANGED <<dir, packages, rootErrors>>
      <4>1. /\ duplicate_root_indexes' = duplicate_root_indexes /\ \A i : Resolved(i)' = Resolved(i)
            /\ \A i : Settled(i)' = Settled(i)
        BY <2>1, <3>2 DEF duplicate_root_indexes, Resolved, Settled
      <4> QED BY <1>1, <2>1, <2>5, <3>2, <4>1 DEF RootsRead
    <3> QED BY <1>8, <2>5, <3>1, <3>2 DEF LookForPackage
  <2> QED BY <2>2, <2>4, <2>5
<1>9. ASSUME ReadPackage PROVE RootsRead'
  <2>1. /\ scan = "packages" /\ scan' = scan /\ look.step = "found" /\ roots' = roots
        /\ dir \in DOMAIN PackageDirs
    BY <1>1, <1>9 DEF ReadPackage, RegistriesTyped, AtHand
  <2>2. CASE \E code : RootError(code)
    BY <1>7, <2>1, <2>2 DEF RootError
  <2>3. CASE UNCHANGED <<dir, packages, rootErrors>>
    <3>1. /\ duplicate_root_indexes' = duplicate_root_indexes /\ \A i : Resolved(i)' = Resolved(i)
          /\ \A i : Settled(i)' = Settled(i)
      BY <2>1, <2>3 DEF duplicate_root_indexes, Resolved, Settled
    <3> QED BY <1>1, <2>1, <2>3, <3>1 DEF RootsRead
  <2> QED BY <1>9, <2>2, <2>3 DEF ReadPackage
<1>10. ASSUME EnterPackage PROVE RootsRead'
  <2> DEFINE error == ~look.manifest.valid
                      \/ package_path_diagnostics(look.manifest, disk[PackageDirs[dir]]) # {}
             p == [root |-> dir, manifest |-> look.manifest, error |-> error]
  <2>1. /\ scan = "packages" /\ scan' = scan /\ look.step = "read" /\ UNCHANGED <<roots, rootErrors>>
        /\ dir \in DOMAIN PackageDirs /\ packages' = Append(packages, p)
        /\ dir' = dir + 1 /\ look'.step = "start"
    BY <1>1, <1>10 DEF EnterPackage, RegistriesTyped, AtHand, NextDir, Nothing
  <2>2. p.root = dir /\ (~ p.error => p.manifest.valid)
    OBVIOUS
  <2>3. Resolved(dir) /\ dir \notin duplicate_root_indexes
    BY <1>1, <2>1 DEF RootsRead
  <2> HIDE DEF p, error
  <2>4. DOMAIN packages = 1 .. Len(packages) /\ DOMAIN packages' = 1 .. Len(packages) + 1 /\ Len(packages) \in Nat
    BY <1>1, <2>1
  <2>5. packages'[Len(packages) + 1] = p /\ \A j \in DOMAIN packages : packages'[j] = packages[j]
    BY <1>1, <2>1
  <2>6. \A j \in DOMAIN packages' : j \in DOMAIN packages \/ j = Len(packages) + 1
    BY <2>4
  <2>7. /\ duplicate_root_indexes' = duplicate_root_indexes /\ \A i : Resolved(i)' = Resolved(i)
    BY <2>1 DEF duplicate_root_indexes, Resolved
  <2>8. \A j \in DOMAIN packages : packages[j].root \in Nat /\ packages[j].root < dir
    BY <1>1, <1>a, <2>1 DEF RootsRead
  <2>9. ASSUME NEW i \in DOMAIN PackageDirs, i < dir' PROVE Settled(i)'
    <3>1. CASE i = dir
      <4>1. Len(packages) + 1 \in DOMAIN packages'
        BY <2>4
      <4> QED BY <2>2, <2>5, <3>1, <4>1 DEF Settled
    <3>2. CASE i < dir
      <4>1. Settled(i)
        BY <1>1, <2>1, <3>2 DEF RootsRead
      <4>2. DOMAIN packages \subseteq DOMAIN packages'
        BY <2>4
      <4> QED BY <2>1, <2>5, <2>7, <4>1, <4>2 DEF Settled
    <3> QED BY <1>1, <2>1, <2>9, <3>1, <3>2
  <2>10. \A j \in DOMAIN packages' : packages'[j].root < dir'
    BY <1>1, <2>1, <2>2, <2>5, <2>6, <2>8
  <2>11. \A i, j \in DOMAIN packages' : i # j => packages'[i].root # packages'[j].root
    BY <1>1, <2>2, <2>5, <2>6, <2>8 DEF RootsRead
  <2>12. \A j \in DOMAIN packages' : /\ roots'[packages'[j].root] # NoPath
                                     /\ ~ packages'[j].error => packages'[j].manifest.valid
    BY <1>1, <2>1, <2>2, <2>3, <2>5, <2>6 DEF RootsRead, Resolved
  <2> QED BY <2>1, <2>9, <2>10, <2>11, <2>12 DEF RootsRead, Resolved
<1>11. ASSUME EndPackages PROVE RootsRead'
  <2>1. /\ scan = "packages" /\ dir > Len(PackageDirs) /\ scan' = "record" /\ UNCHANGED <<roots, packages>>
        /\ rootErrors' = rootErrors \union root_overlap_diagnostics \union duplicate_package_diagnostics
    BY <1>11 DEF EndPackages
  <2>2. /\ duplicate_root_indexes' = duplicate_root_indexes /\ \A i : Resolved(i)' = Resolved(i)
        /\ root_overlap_diagnostics' = root_overlap_diagnostics
        /\ duplicate_package_diagnostics' = duplicate_package_diagnostics
    BY <2>1 DEF duplicate_root_indexes, Resolved, root_overlap_diagnostics, overlapping, duplicate_package_diagnostics
  <2>3. ASSUME NEW i \in DOMAIN PackageDirs PROVE Settled(i)'
    <3>1. i < dir
      BY <1>1, <2>1
    <3> QED BY <1>1, <2>1, <2>2, <3>1 DEF RootsRead, Settled
  <2> QED BY <1>1, <2>1, <2>2, <2>3 DEF RootsRead
<1>12. ASSUME Serve PROVE RootsRead'
  <2>1. scan = "record" /\ scan' = "serving" /\ UNCHANGED <<roots, packages, rootErrors>>
    BY <1>12 DEF Serve
  <2>2. /\ duplicate_root_indexes' = duplicate_root_indexes /\ \A i : Resolved(i)' = Resolved(i)
        /\ \A i : Settled(i)' = Settled(i)
        /\ root_overlap_diagnostics' = root_overlap_diagnostics
        /\ duplicate_package_diagnostics' = duplicate_package_diagnostics
    BY <2>1 DEF duplicate_root_indexes, Resolved, Settled, root_overlap_diagnostics, overlapping,
                duplicate_package_diagnostics
  <2> QED BY <1>1, <2>1, <2>2 DEF RootsRead
<1>13. ASSUME UNCHANGED registriesVars PROVE RootsRead'
  BY <1>2, <1>13 DEF registriesVars, registryVars
<1> QED BY <1>3, <1>5, <1>6, <1>8, <1>9, <1>10, <1>11, <1>12, <1>13 DEF RegistriesNext

THEOREM PackagesInvariant == RegistriesSpec => []PackagesInv
<1>1. RegistriesInit => PackagesInv
  <2>1. RegistriesInit => scan = "extensions" /\ packages = <<>>
    BY DEF RegistriesInit
  <2> QED BY <2>1, RegistriesTypedInit DEF PackagesInv, RootsKnown, RootsRead
<1>2. PackagesInv /\ [RegistriesNext]_registriesVars => PackagesInv'
  BY RegistriesTypedStep, RootsKnownStep, RootsReadStep DEF PackagesInv
<1> QED BY <1>1, <1>2, PTL DEF RegistriesSpec

\* A ready package registry is whole: for any search path and any manifests,
\* whatever is rewritten during the scan, every root has its package, no two
\* of them of one id or inside one another (package_registry.rs).
THEOREM ReadyRegistryIsWhole == RegistriesSpec => []ReadyIsWhole
<1>1. PackagesInv => ReadyIsWhole
  <2> SUFFICES ASSUME PackagesInv, scan = "serving", registry_state = "ready" PROVE ReadyIsWhole
    BY DEF ReadyIsWhole
  <2>1. /\ packages \in Seq(Entries) /\ roots \in [DOMAIN PackageDirs -> RootPaths] /\ RootsRead
        /\ DOMAIN PackageDirs = 1 .. Len(PackageDirs) /\ Len(PackageDirs) \in Nat
    BY SearchPathsAssumption DEF PackagesInv, RegistriesTyped, RegistriesTypeOK, RootsKnown
  <2>2. rootErrors = {} /\ \A j \in DOMAIN packages : ~ packages[j].error
    BY DEF registry_state, has_error
  <2>3. root_overlap_diagnostics = {} /\ duplicate_package_diagnostics = {}
    BY <2>1, <2>2 DEF RootsRead
  <2>4. Len(roots) = Len(PackageDirs)
    BY <2>1
  <2>5. ASSUME NEW a \in DOMAIN PackageDirs, NEW b \in DOMAIN PackageDirs, a < b, Resolved(a), Resolved(b)
        PROVE  roots[a] # roots[b] /\ ~ overlapping(a, b)
    <3> DEFINE p == <<a, b>>
    <3>1. p \in (1 .. Len(roots)) \X (1 .. Len(roots)) /\ p[1] = a /\ p[2] = b
      BY <2>1, <2>4
    <3> HIDE DEF p
    <3>2. CASE roots[a] = roots[b] \/ overlapping(a, b)
      <4>1. <<p[2], IF roots[p[1]] = roots[p[2]] THEN "duplicate" ELSE "overlap">> \in root_overlap_diagnostics
        BY <2>5, <3>1, <3>2 DEF root_overlap_diagnostics
      <4> QED BY <2>3, <4>1
    <3> QED BY <3>2
  <2>6. ASSUME NEW i \in DOMAIN PackageDirs
        PROVE  \E j \in DOMAIN packages : packages[j].root = i /\ packages[j].manifest.valid
    <3>1. i \notin duplicate_root_indexes
      <4> SUFFICES ASSUME i \in duplicate_root_indexes PROVE FALSE
        OBVIOUS
      <4>1. PICK k \in 1 .. i - 1 : roots[k] = roots[i] /\ Resolved(i)
        BY DEF duplicate_root_indexes
      <4>2. k \in DOMAIN PackageDirs /\ k < i /\ Resolved(k)
        BY <2>1, <4>1 DEF Resolved
      <4> QED BY <2>5, <4>1, <4>2
    <3> QED BY <2>1, <2>2, <3>1 DEF RootsRead, Settled
  <2>7. ASSUME NEW i \in DOMAIN packages, NEW j \in DOMAIN packages, i < j
        PROVE  packages[i].manifest.id # packages[j].manifest.id
    <3>1. i \in 1 .. j - 1
      BY <2>1, <2>7
    <3>2. CASE packages[i].manifest.id = packages[j].manifest.id
      <4>1. <<packages[j].root, "duplicate-package">> \in duplicate_package_diagnostics
        BY <3>1, <3>2 DEF duplicate_package_diagnostics
      <4> QED BY <2>3, <4>1
    <3> QED BY <3>2
  <2>8. ASSUME NEW i \in DOMAIN packages, NEW j \in DOMAIN packages, i # j
        PROVE  /\ packages[i].manifest.id # packages[j].manifest.id
               /\ ~IsPrefix(roots[packages[i].root], roots[packages[j].root])
    <3> DEFINE a == packages[i].root
               b == packages[j].root
    <3>1. packages[i] \in Entries /\ packages[j] \in Entries /\ i \in Nat /\ j \in Nat
      BY <2>1
    <3>2. a \in DOMAIN PackageDirs /\ b \in DOMAIN PackageDirs /\ a # b /\ Resolved(a) /\ Resolved(b)
      BY <2>1, <2>8, <3>1 DEF Entries, RootsRead
    <3> HIDE DEF a, b
    <3>3. a \in Nat /\ b \in Nat
      BY <2>1, <3>2
    <3>4. ~ IsPrefix(roots[a], roots[b])
      <4>1. CASE a < b
        BY <2>5, <3>2, <4>1 DEF overlapping
      <4>2. CASE b < a
        BY <2>5, <3>2, <4>2 DEF overlapping
      <4> QED BY <3>2, <3>3, <4>1, <4>2
    <3>5. packages[i].manifest.id # packages[j].manifest.id
      <4>1. CASE i < j
        BY <2>7, <4>1
      <4>2. CASE j < i
        BY <2>7, <4>2
      <4> QED BY <2>8, <3>1, <4>1, <4>2
    <3> QED BY <3>4, <3>5 DEF a, b
  <2> QED BY <2>6, <2>8 DEF ReadyIsWhole
<1> QED BY <1>1, PackagesInvariant, PTL

----------------------------------------------------------------------------
(* The MIDI clock.                                                         *)

Sources == {"unknown", "spp", "start-reset", "tick-accumulated"}

MidiTypeOK ==
    /\ fixture \in Fixtures
    /\ heard \in 0..Len(fixture.events)
    /\ clock \in [running : BOOLEAN, position : Nat]
    /\ source \in Sources

\* The pointers whose position is still the sender's.
Standing == {i \in 1..heard : PositionFrom(i)}

\* What the source of the position says of the messages so far.
SourceTellsHistory ==
    /\ source = "spp" <=> Standing # {}
    /\ source = "unknown" <=> ~ Anchored
    /\ \A i \in Standing : clock.position = fixture.events[i].value

TimelineIsCurrent == timeline = corrected_clock_state(clock, source, fixture.meter)

MidiInv == MidiTypeOK /\ SourceTellsHistory /\ TimelineIsCurrent

\* The messages of a fixture have kinds and values.
LEMMA EventTypes ==
    ASSUME NEW f \in Fixtures, NEW i \in 1..Len(f.events)
    PROVE  f.events[i].kind \in MessageKinds /\ f.events[i].value \in Nat
  <1> DEFINE Message == [kind : MessageKinds, value : Nat]
  <1>1. f.events \in Seq(Message)
    BY FixturesAssumption
  <1>2. f.events[i] \in Message
    <2> HIDE DEF Message
    <2> QED
      BY <1>1
  <1> QED
    BY <1>2

\* Nothing is claimed before the first message.
LEMMA MidiInitial == MidiInit => MidiInv
  <1> SUFFICES ASSUME MidiInit PROVE MidiInv
    OBVIOUS
  <1>1. MidiTypeOK
    BY FixturesAssumption DEF MidiInit, MidiTypeOK, Sources
  <1>2. SourceTellsHistory
    BY DEF MidiInit, SourceTellsHistory, Anchored, Standing
  <1>3. TimelineIsCurrent
    BY DEF MidiInit, TimelineIsCurrent
  <1> QED
    BY <1>1, <1>2, <1>3 DEF MidiInv

\* A message changes the source as it changes what is known of the position.
LEMMA MessageKeepsInv == MidiInv /\ apply_timestamped_message => MidiInv'
  <1> SUFFICES ASSUME MidiInv, apply_timestamped_message PROVE MidiInv'
    OBVIOUS
  <1>n. PICK n : n = heard + 1
    OBVIOUS
  <1> DEFINE message == fixture.events[n]
  <1> USE DEF MidiInv, MidiTypeOK
  <1>0. /\ fixture' = fixture /\ heard' = n
        /\ heard \in Nat /\ n \in 1..Len(fixture.events)
        /\ clock' \in apply_midi_clock_message(clock, message)
        /\ source' = IF is_error(message) THEN source
                     ELSE update_song_position_source(source, parsed_kind(message))
        /\ timeline' = corrected_clock_state(clock', source', fixture.meter)
    BY <1>n, FixturesAssumption DEF apply_timestamped_message, record
  <1>1. message.kind \in MessageKinds /\ message.value \in Nat
    BY <1>0, EventTypes
  <1>2. MidiTypeOK'
    <2>1. clock' \in [running : BOOLEAN, position : Nat]
      <3>1. clock.running \in BOOLEAN /\ clock.position \in Nat
        OBVIOUS
      <3>2. \/ clock' = clock
            \/ clock' = [clock EXCEPT !.position = @ + 1]
            \/ clock' = [running |-> TRUE, position |-> 0]
            \/ clock' = [clock EXCEPT !.running = TRUE]
            \/ clock' = [clock EXCEPT !.running = FALSE]
            \/ clock' = [clock EXCEPT !.position = message.value]
        BY <1>0, <1>1 DEF apply_midi_clock_message, MessageKinds
      <3>3. clock.position + 1 \in Nat /\ 0 \in Nat
        BY <3>1
      <3>4. ASSUME NEW b \in BOOLEAN
            PROVE  [clock EXCEPT !.running = b] \in [running : BOOLEAN, position : Nat]
        OBVIOUS
      <3>5. ASSUME NEW p \in Nat
            PROVE  [clock EXCEPT !.position = p] \in [running : BOOLEAN, position : Nat]
        OBVIOUS
      <3>6. [running |-> TRUE, position |-> 0] \in [running : BOOLEAN, position : Nat]
        OBVIOUS
      <3> QED
        BY <3>2, <3>3, <3>4, <3>5, <3>6, <1>1
    <2>2. source' \in Sources
      BY <1>0, <1>1 DEF update_song_position_source, parsed_kind, is_error, Sources, MessageKinds
    <2> QED
      BY <1>0, <2>1, <2>2
  <1>3. 1..heard' = 1..heard \cup {n}
    BY <1>0, <1>n
  <1>4. Standing' = IF message.kind = "spp" THEN {n}
                    ELSE IF message.kind \in {"tick", "start"} THEN {} ELSE Standing
    <2> DEFINE Stands(i, m) == /\ fixture.events[i].kind = "spp"
                               /\ \A j \in i + 1..m : fixture.events[j].kind \notin {"tick", "start", "spp"}
    <2>1. Standing = {i \in 1..heard : Stands(i, heard)}
      BY DEF Standing, PositionFrom, Kind
    <2>2. Standing' = {i \in 1..n : Stands(i, n)}
      BY <1>0 DEF Standing, PositionFrom, Kind
    <2>3. Stands(n, n) <=> message.kind = "spp"
      BY <1>0, <1>n
    <2>4. \A i \in 1..heard : Stands(i, n) <=>
            Stands(i, heard) /\ message.kind \notin {"tick", "start", "spp"}
      <3> TAKE i \in 1..heard
      <3>1. i + 1..n = (i + 1..heard) \cup {n}
        BY <1>0, <1>n
      <3> QED
        BY <3>1
    <2> HIDE DEF Stands
    <2>5. 1..n = 1..heard \cup {n}
      BY <1>0, <1>n
    <2> QED
      BY <2>1, <2>2, <2>3, <2>4, <2>5
  <1>5. Anchored' <=> Anchored \/ message.kind \in {"start", "spp"}
    BY <1>0, <1>3 DEF Anchored, Kind
  <1>6. SourceTellsHistory /\ source \in Sources
    OBVIOUS
  <1>7. SourceTellsHistory'
    <2>1. CASE message.kind = "spp"
      <3>1. source' = "spp" /\ clock'.position = message.value
        BY <1>0, <2>1 DEF update_song_position_source, parsed_kind, is_error, apply_midi_clock_message
      <3> QED
        BY <3>1, <2>1, <1>0, <1>4, <1>5, <1>6 DEF SourceTellsHistory
    <2>2. CASE message.kind = "start"
      <3>1. source' = "start-reset"
        BY <1>0, <2>2 DEF update_song_position_source, parsed_kind, is_error
      <3> QED
        BY <3>1, <2>2, <1>0, <1>4, <1>5, <1>6 DEF SourceTellsHistory
    <2>3. CASE message.kind = "tick"
      <3>1. source' = IF source = "unknown" THEN "unknown" ELSE "tick-accumulated"
        BY <1>0, <2>3 DEF update_song_position_source, parsed_kind, is_error, Sources
      <3> QED
        BY <3>1, <2>3, <1>0, <1>4, <1>5, <1>6 DEF SourceTellsHistory
    <2>4. CASE message.kind \notin {"spp", "start", "tick"}
      <3>1. source' = source
        BY <1>0, <1>1, <2>4 DEF update_song_position_source, parsed_kind, is_error, MessageKinds
      <3>2. clock'.position = clock.position
        BY <1>0, <1>1, <2>4 DEF apply_midi_clock_message, MessageKinds
      <3> QED
        BY <3>1, <3>2, <2>4, <1>0, <1>4, <1>5, <1>6 DEF SourceTellsHistory
    <2> QED
      BY <2>1, <2>2, <2>3, <2>4
  <1>8. TimelineIsCurrent'
    BY <1>0 DEF TimelineIsCurrent
  <1> QED
    BY <1>2, <1>7, <1>8

\* Every step keeps the invariant.
LEMMA MidiStep == MidiInv /\ [MidiNext]_midiVars => MidiInv'
  <1> SUFFICES ASSUME MidiInv, [MidiNext]_midiVars PROVE MidiInv'
    OBVIOUS
  <1>1. CASE apply_timestamped_message
    BY <1>1, MessageKeepsInv
  <1>2. CASE validate_midi_clock_fixture
    BY <1>2 DEF validate_midi_clock_fixture, MidiInv, MidiTypeOK, SourceTellsHistory,
                TimelineIsCurrent, Standing, PositionFrom, Anchored, Kind
  <1>3. CASE UNCHANGED midiVars
    BY <1>3 DEF midiVars, MidiInv, MidiTypeOK, SourceTellsHistory,
                TimelineIsCurrent, Standing, PositionFrom, Anchored, Kind
  <1> QED
    BY <1>1, <1>2, <1>3 DEF MidiNext

\* The timeline reports what the source of the position entitles it to.
LEMMA MidiInvEarned == MidiInv => PositionIsEarned
  <1> SUFFICES ASSUME MidiInv PROVE PositionIsEarned
    OBVIOUS
  <1>1. /\ timeline.position = IF source = "unknown" THEN Unavailable ELSE clock.position
        /\ timeline.authority = song_position_authority(source)
        /\ timeline.barBeat = bar_beat_authority(source, fixture.meter)
    BY DEF MidiInv, TimelineIsCurrent, corrected_clock_state
  <1>2. timeline.authority = "authoritative" <=> source = "spp"
    BY <1>1 DEF MidiInv, MidiTypeOK, Sources, song_position_authority
  <1>3. timeline.position # Unavailable <=> source # "unknown"
    BY <1>1, UnavailableAssumption DEF MidiInv, MidiTypeOK
  <1>4. timeline.barBeat = "derived" => source # "unknown" /\ fixture.meter
    BY <1>1 DEF bar_beat_authority
  <1>5. \A i \in 1..heard : PositionFrom(i) <=> i \in Standing
    BY DEF Standing
  <1>6. \A i \in Standing : i \in 1..heard
    BY DEF Standing
  <1> QED
    BY <1>1, <1>2, <1>3, <1>4, <1>5, <1>6 DEF MidiInv, SourceTellsHistory, PositionIsEarned

\* Whatever messages a fixture holds, the adapter claims an exact position
\* only while the sender's last pointer stands (update_song_position_source),
\* and any position only after a start or a pointer.
THEOREM PositionEarned == MidiSpec => []PositionIsEarned
  <1>1. MidiSpec => []MidiInv
    BY MidiInitial, MidiStep, PTL DEF MidiSpec
  <1> QED
    BY <1>1, MidiInvEarned, PTL

-----------------------------------------------------------------------------
(* Event streams: sequences of numbers.                                    *)

Rising(s) == \A i, j \in 1 .. Len(s) : i < j => s[i] < s[j]

LEMMA Members ==
    ASSUME NEW s \in Seq(Nat), NEW m
    PROVE  m \in ToSet(s) <=> \E i \in 1 .. Len(s) : s[i] = m
BY DEF ToSet

LEMMA RisingFacts ==
    ASSUME NEW s \in Seq(Nat), Rising(s), s # <<>>
    PROVE  /\ Head(s) \in ToSet(s) /\ Last(s) \in ToSet(s)
           /\ \A m \in ToSet(s) : m \in Nat /\ Head(s) <= m /\ m <= Last(s)
<1>1. 1 \in 1 .. Len(s) /\ Len(s) \in 1 .. Len(s) /\ Head(s) = s[1] /\ Last(s) = s[Len(s)]
  BY DEF Last
<1>2. ASSUME NEW m \in ToSet(s) PROVE m \in Nat /\ Head(s) <= m /\ m <= Last(s)
  <2>1. PICK i \in 1 .. Len(s) : s[i] = m
    BY Members
  <2>2. s[i] \in Nat /\ s[1] \in Nat /\ s[Len(s)] \in Nat
    BY <1>1
  <2>3. (1 < i => s[1] < s[i]) /\ (i < Len(s) => s[i] < s[Len(s)])
    BY <1>1 DEF Rising
  <2> QED BY <1>1, <2>1, <2>2, <2>3
<1> QED BY <1>1, <1>2, Members

\* Taking the head leaves the others in order.
LEMMA TailFacts ==
    ASSUME NEW s \in Seq(Nat), Rising(s), s # <<>>
    PROVE  /\ Tail(s) \in Seq(Nat) /\ Rising(Tail(s)) /\ Len(Tail(s)) = Len(s) - 1
           /\ ToSet(Tail(s)) = ToSet(s) \ {Head(s)}
<1>1. /\ Tail(s) \in Seq(Nat) /\ Len(Tail(s)) = Len(s) - 1 /\ Head(s) = s[1] /\ Len(s) >= 1
      /\ \A i \in 1 .. Len(s) - 1 : Tail(s)[i] = s[i + 1]
  OBVIOUS
<1>2. Rising(Tail(s))
  BY <1>1 DEF Rising
<1>3. ASSUME NEW m PROVE m \in ToSet(Tail(s)) <=> m \in ToSet(s) /\ m # Head(s)
  <2>1. ASSUME m \in ToSet(Tail(s)) PROVE m \in ToSet(s) /\ m # Head(s)
    <3>1. PICK i \in 1 .. Len(s) - 1 : Tail(s)[i] = m
      <4>1. Tail(s) \in Seq(Nat) /\ Len(Tail(s)) = Len(s) - 1
        BY <1>1
      <4>2. \E i \in 1 .. Len(Tail(s)) : Tail(s)[i] = m
        BY <2>1, <4>1, Members
      <4> QED BY <4>1, <4>2
    <3>2. i + 1 \in 1 .. Len(s) /\ s[i + 1] = m /\ s[1] < s[i + 1] /\ s[1] \in Nat /\ s[i + 1] \in Nat
      BY <1>1, <3>1 DEF Rising
    <3> QED BY <1>1, <3>2, Members
  <2>2. ASSUME m \in ToSet(s), m # Head(s) PROVE m \in ToSet(Tail(s))
    <3>1. PICK i \in 1 .. Len(s) : s[i] = m
      BY <2>2, Members
    <3>2. i - 1 \in 1 .. Len(s) - 1 /\ Tail(s)[i - 1] = m
      BY <1>1, <2>2, <3>1
    <3> QED BY <1>1, <3>2, Members
  <2> QED BY <2>1, <2>2
<1> QED BY <1>1, <1>2, <1>3

LEMMA AppendFacts ==
    ASSUME NEW s \in Seq(Nat), Rising(s), NEW n \in Nat, \A m \in ToSet(s) : m < n
    PROVE  /\ Append(s, n) \in Seq(Nat) /\ Rising(Append(s, n))
           /\ ToSet(Append(s, n)) = ToSet(s) \cup {n}
           /\ Append(s, n) # <<>> /\ Len(Append(s, n)) = Len(s) + 1
           /\ s # <<>> => Head(Append(s, n)) = Head(s)
<1>1. /\ Append(s, n) \in Seq(Nat) /\ Len(Append(s, n)) = Len(s) + 1 /\ Append(s, n) # <<>>
      /\ \A i \in 1 .. Len(s) : Append(s, n)[i] = s[i]
      /\ Append(s, n)[Len(s) + 1] = n
  OBVIOUS
<1>2. \A i \in 1 .. Len(s) : s[i] \in Nat /\ s[i] < n
  BY Members
<1>3. Rising(Append(s, n))
  <2>1. Len(s) \in Nat
    OBVIOUS
  <2> DEFINE t == Append(s, n)
             l == Len(s)
  <2>2. \A i \in 1 .. l + 1 : (i \in 1 .. l /\ t[i] = s[i]) \/ (i = l + 1 /\ t[i] = n)
    BY <1>1, <2>1
  <2>3. \A i, j \in 1 .. l : i < j => s[i] < s[j]
    BY DEF Rising
  <2>4. Len(t) = l + 1 /\ l \in Nat
    BY <1>1, <2>1
  <2>5. \A i \in 1 .. l : s[i] \in Nat /\ s[i] < n
    BY <1>2
  <2> HIDE DEF t, l
  <2>6. \A i, j \in 1 .. l + 1 : i < j => t[i] < t[j]
    BY <2>2, <2>3, <2>4, <2>5
  <2> QED BY <2>4, <2>6 DEF Rising, t
<1>4. ASSUME NEW m PROVE m \in ToSet(Append(s, n)) <=> m \in ToSet(s) \/ m = n
  <2>1. Len(s) + 1 \in 1 .. Len(Append(s, n))
    BY <1>1
  <2>2. ASSUME m \in ToSet(Append(s, n)) PROVE m \in ToSet(s) \/ m = n
    <3>1. PICK i \in 1 .. Len(s) + 1 : Append(s, n)[i] = m
      BY <1>1, <2>2, Members
    <3>2. i \in 1 .. Len(s) \/ i = Len(s) + 1
      BY <3>1
    <3> QED BY <1>1, <3>1, <3>2, Members
  <2>3. ASSUME m \in ToSet(s) PROVE m \in ToSet(Append(s, n))
    <3>1. PICK i \in 1 .. Len(s) : s[i] = m
      BY <2>3, Members
    <3>2. i \in 1 .. Len(Append(s, n)) /\ Append(s, n)[i] = m
      BY <1>1, <3>1
    <3> QED BY <1>1, <3>2, Members
  <2> QED BY <1>1, <2>1, <2>2, <2>3, Members
<1>5. s # <<>> => Head(Append(s, n)) = Head(s)
  BY <1>1
<1> QED BY <1>1, <1>3, <1>4, <1>5

\* A bounded push keeps the newest: all, or all but the first.
LEMMA PushFacts ==
    ASSUME NEW s \in Seq(Nat), Rising(s), Len(s) <= ReplayLimit, NEW n \in Nat, \A m \in ToSet(s) : m < n
    PROVE  /\ PushBounded(s, n) \in Seq(Nat) /\ Rising(PushBounded(s, n))
           /\ PushBounded(s, n) # <<>> /\ Len(PushBounded(s, n)) <= ReplayLimit
           /\ n \in ToSet(PushBounded(s, n)) /\ ToSet(PushBounded(s, n)) \subseteq ToSet(s) \cup {n}
           /\ Len(s) = ReplayLimit => Len(PushBounded(s, n)) = ReplayLimit
           /\ \A m \in ToSet(s) : \/ m \in ToSet(PushBounded(s, n))
                                  \/ Len(s) = ReplayLimit /\ m < Head(PushBounded(s, n))
           /\ s # <<>> => Head(s) <= Head(PushBounded(s, n))
<1> DEFINE all == Append(s, n)
<1>1. /\ all \in Seq(Nat) /\ Rising(all) /\ ToSet(all) = ToSet(s) \cup {n} /\ all # <<>>
      /\ Len(all) = Len(s) + 1 /\ (s # <<>> => Head(all) = Head(s))
  BY AppendFacts
<1>2. PushBounded(s, n) = IF Len(all) > ReplayLimit THEN Tail(all) ELSE all
  BY DEF PushBounded
<1>3. ReplayLimit \in Nat \ {0} /\ Len(s) \in Nat
  BY StreamsAssumption
<1> HIDE DEF all
<1>4. \A m \in ToSet(all) : m \in Nat /\ Head(all) <= m
  BY <1>1, RisingFacts
<1>5. CASE Len(all) > ReplayLimit
  <2> DEFINE t == Tail(all)
  <2>1. t \in Seq(Nat) /\ Rising(t) /\ Len(t) = Len(all) - 1 /\ ToSet(t) = ToSet(all) \ {Head(all)}
    BY <1>1, TailFacts
  <2>2. PushBounded(s, n) = t
    BY <1>2, <1>5
  <2> HIDE DEF t
  <2>3. Len(s) = ReplayLimit /\ Len(t) = ReplayLimit /\ t # <<>> /\ s # <<>>
    BY <1>1, <1>3, <1>5, <2>1
  <2>4. Head(t) \in ToSet(t) /\ Head(s) \in ToSet(s)
    BY <2>1, <2>3, RisingFacts
  <2>5. Head(all) # n /\ n \in ToSet(t)
    BY <1>1, <2>1, <2>3, <2>4
  <2>6. Head(all) < Head(t)
    BY <1>4, <2>1, <2>4, <1>1, RisingFacts
  <2> QED BY <1>1, <2>1, <2>2, <2>3, <2>5, <2>6
<1>6. CASE ~ (Len(all) > ReplayLimit)
  <2>1. \A m \in ToSet(s) : m \in Nat
    BY Members
  <2>2. s # <<>> => Head(s) \in Nat
    BY <2>1, RisingFacts
  <2> QED BY <1>1, <1>2, <1>3, <1>6, <2>1, <2>2
<1> QED BY <1>5, <1>6

-----------------------------------------------------------------------------
(* The events after a mark.                                                *)

\* A set with 0 that is closed under successor holds every natural number.
LEMMA NatSetInduction ==
    ASSUME NEW S, 0 \in S, \A n \in Nat : n \in S => n + 1 \in S
    PROVE  Nat \subseteq S
<1> SUFFICES ASSUME Nat \ S # {} PROVE FALSE
  OBVIOUS
<1>1. \E x \in Nat \ S : \A y \in Nat \ S : <<y, x>> \notin OpToRel(<, Nat)
  BY NatLessThanWellFounded, WFMin
<1>2. PICK x \in Nat \ S : \A y \in Nat \ S : ~ (y < x)
  BY <1>1 DEF OpToRel
<1>3. x # 0 /\ x - 1 \in Nat /\ x - 1 < x
  BY <1>2
<1>4. x - 1 \in S
  BY <1>2, <1>3
<1> QED BY <1>2, <1>3, <1>4

\* Later is what its recursive equation says.
LEMMA LaterStep ==
    ASSUME NEW s \in Seq(Nat), NEW mark \in Nat
    PROVE  \E kept :
             /\ Later(s, mark) = kept[Len(s)]
             /\ kept[0] = <<>>
             /\ \A i \in 1 .. Len(s) :
                  kept[i] = IF s[i] > mark THEN Append(kept[i - 1], s[i]) ELSE kept[i - 1]
<1> DEFINE After(x, i) == IF s[i] > mark THEN Append(x, s[i]) ELSE x
           Rounds(f, n) == f = [i \in 0 .. n |-> IF i = 0 THEN <<>> ELSE After(f[i - 1], i)]
           Defined == {n \in Nat : \E f : Rounds(f, n)}
<1>1. 0 \in Defined
  <2>1. Rounds([i \in 0 .. 0 |-> <<>>], 0)
    OBVIOUS
  <2> QED BY <2>1
<1>2. ASSUME NEW n \in Nat, n \in Defined PROVE n + 1 \in Defined
  <2>1. PICK f : Rounds(f, n)
    BY <1>2
  <2> DEFINE h == [i \in 0 .. n + 1 |-> IF i \in 0 .. n THEN f[i] ELSE After(f[n], n + 1)]
  <2>2. \A i \in 0 .. n : h[i] = f[i] /\ f[i] = IF i = 0 THEN <<>> ELSE After(f[i - 1], i)
    <3>1. ASSUME NEW i \in 0 .. n PROVE f[i] = IF i = 0 THEN <<>> ELSE After(f[i - 1], i)
      <4> HIDE DEF After
      <4> QED BY <2>1
    <3>2. ASSUME NEW i \in 0 .. n PROVE h[i] = f[i]
      <4> i \in 0 .. n + 1
        OBVIOUS
      <4> HIDE DEF After
      <4> QED OBVIOUS
    <3> HIDE DEF After, h
    <3> QED BY <3>1, <3>2
  <2>3. h[n + 1] = After(f[n], n + 1) /\ h[n] = f[n]
    <3> HIDE DEF After
    <3> QED OBVIOUS
  <2>4. ASSUME NEW i \in 0 .. n + 1 PROVE h[i] = IF i = 0 THEN <<>> ELSE After(h[i - 1], i)
    <3> HIDE DEF After, h
    <3>1. CASE i = n + 1
      <4>1. i # 0 /\ i - 1 = n
        BY <3>1
      <4> QED BY <3>1, <4>1, <2>3
    <3>2. CASE i # n + 1 /\ i # 0
      <4>1. i \in 0 .. n /\ i - 1 \in 0 .. n
        BY <3>2
      <4>2. h[i - 1] = f[i - 1] /\ h[i] = f[i]
        BY <4>1, <2>2
      <4>3. f[i] = After(f[i - 1], i)
        BY <4>1, <2>2, <3>2
      <4> QED BY <4>2, <4>3, <3>2
    <3>3. CASE i = 0
      <4>1. i \in 0 .. n
        BY <3>3
      <4> QED BY <4>1, <3>3, <2>2
    <3> QED BY <3>1, <3>2, <3>3
  <2>5. Rounds(h, n + 1)
    <3>1. \A i \in 0 .. n + 1 : h[i] = IF i = 0 THEN <<>> ELSE After(h[i - 1], i)
      BY <2>4
    <3> HIDE DEF After
    <3> QED BY <3>1
  <2> HIDE DEF h, Rounds
  <2> QED BY <2>5
<1>3. PICK f : Rounds(f, Len(s)) /\ Later(s, mark) = f[Len(s)]
  <2>1. Len(s) \in Defined
    <3> HIDE DEF Defined
    <3>1. Nat \subseteq Defined
      BY <1>1, <1>2, NatSetInduction
    <3> QED BY <3>1
  <2> DEFINE F == CHOOSE f : Rounds(f, Len(s))
  <2>2. Rounds(F, Len(s))
    BY <2>1
  <2>3. Later(s, mark) = F[Len(s)]
    BY DEF Later
  <2> QED BY <2>2, <2>3
<1>4. f[0] = <<>>
  BY <1>3
<1>5. ASSUME NEW i \in 1 .. Len(s) PROVE f[i] = After(f[i - 1], i)
  <2> i \in 0 .. Len(s) /\ i # 0
    OBVIOUS
  <2> HIDE DEF After
  <2> QED BY <1>3
<1> QED BY <1>3, <1>4, <1>5

\* Later keeps exactly the events above the mark, in order.
LEMMA LaterFacts ==
    ASSUME NEW s \in Seq(Nat), Rising(s), NEW mark \in Nat
    PROVE  /\ Later(s, mark) \in Seq(Nat) /\ Rising(Later(s, mark))
           /\ ToSet(Later(s, mark)) = {m \in ToSet(s) : m > mark}
<1>1. PICK kept :
        /\ Later(s, mark) = kept[Len(s)]
        /\ kept[0] = <<>>
        /\ \A i \in 1 .. Len(s) :
             kept[i] = IF s[i] > mark THEN Append(kept[i - 1], s[i]) ELSE kept[i - 1]
  BY LaterStep
<1> DEFINE Sofar(i) == {s[j] : j \in {j \in 1 .. i : s[j] > mark}}
           Good == {i \in Nat : i <= Len(s) =>
                      kept[i] \in Seq(Nat) /\ Rising(kept[i]) /\ ToSet(kept[i]) = Sofar(i)}
<1>2. 0 \in Good
  <2>1. <<>> \in Seq(Nat) /\ Rising(<<>>) /\ ToSet(<<>>) = {}
    BY DEF Rising, ToSet
  <2>2. Sofar(0) = {}
    OBVIOUS
  <2> HIDE DEF Sofar
  <2> QED BY <1>1, <2>1, <2>2
<1>3. ASSUME NEW n \in Nat, n \in Good PROVE n + 1 \in Good
  <2> SUFFICES ASSUME n + 1 <= Len(s)
               PROVE  kept[n + 1] \in Seq(Nat) /\ Rising(kept[n + 1]) /\ ToSet(kept[n + 1]) = Sofar(n + 1)
    OBVIOUS
  <2>1. n + 1 \in 1 .. Len(s) /\ (n + 1) - 1 = n /\ s[n + 1] \in Nat
    OBVIOUS
  <2>2. kept[n] \in Seq(Nat) /\ Rising(kept[n]) /\ ToSet(kept[n]) = Sofar(n)
    BY <1>3, <2>1
  <2>3. kept[n + 1] = IF s[n + 1] > mark THEN Append(kept[n], s[n + 1]) ELSE kept[n]
    BY <1>1, <2>1
  <2>4. \A m \in Sofar(n) : m < s[n + 1]
    <3> SUFFICES ASSUME NEW j \in 1 .. n, s[j] > mark PROVE s[j] < s[n + 1]
      OBVIOUS
    <3>1. j \in 1 .. Len(s) /\ j < n + 1
      BY <2>1
    <3> QED BY <2>1, <3>1 DEF Rising
  <2>5. Sofar(n + 1) = IF s[n + 1] > mark THEN Sofar(n) \cup {s[n + 1]} ELSE Sofar(n)
    <3>1. 1 .. n + 1 = 1 .. n \cup {n + 1}
      OBVIOUS
    <3> QED BY <3>1
  <2> HIDE DEF Sofar
  <2>6. CASE s[n + 1] > mark
    <3>1. kept[n + 1] = Append(kept[n], s[n + 1])
      BY <2>3, <2>6
    <3>2. \A m \in ToSet(kept[n]) : m < s[n + 1]
      BY <2>2, <2>4
    <3> QED BY <2>1, <2>2, <2>5, <2>6, <3>1, <3>2, AppendFacts
  <2>7. CASE ~ (s[n + 1] > mark)
    BY <2>2, <2>3, <2>5, <2>7
  <2> QED BY <2>6, <2>7
<1>4. Len(s) \in Good
  <2> HIDE DEF Good
  <2>1. Nat \subseteq Good
    BY <1>2, <1>3, NatSetInduction
  <2> QED BY <2>1
<1>5. Sofar(Len(s)) = {m \in ToSet(s) : m > mark}
  BY DEF ToSet
<1> HIDE DEF Sofar
<1> QED BY <1>1, <1>4, <1>5
-----------------------------------------------------------------------------
(* The inductive invariant.                                                *)

Items == [sequence : Nat, cursor : Nat, event : BOOLEAN, tells : SUBSET Nat]
Lags == [skipped : Nat \ {0}, actual : Nat \cup {None}]

Types ==
    /\ kind \in {"session", "collaboration"}
    /\ sequence \in Nat
    /\ publishing \in {None, "reserved", "stored", "rejected"}
    /\ store \in Seq(Nat)
    /\ published \in SUBSET Nat
    /\ phase \in {"closed", "subscribed", "opening", "marked", "captured", "open"}
    /\ after \in Nat \cup {None}
    /\ snapshot \in Nat
    /\ highWater \in Nat
    /\ queue \in Seq(Nat)
    /\ skipped \in Nat
    /\ out \in Seq(Items)
    /\ lagging \in Lags \cup {None}
    /\ cursor \in Nat \cup {None}
    /\ known \in SUBSET Nat /\ got \in SUBSET Nat /\ repeated \in SUBSET Nat
    /\ window \in SUBSET Nat /\ late \in SUBSET Nat

\* Numbers are taken before they are stored and stored before they are sent,
\* and the store holds every sent event from its first on.
StoreInv ==
    /\ published \subseteq 1 .. sequence
    /\ ToSet(store) \subseteq 1 .. sequence
    /\ publishing # None => sequence > 0 /\ sequence \notin published
    /\ publishing \in {"reserved", "rejected"} => sequence \notin ToSet(store)
    /\ publishing = "stored" => Session /\ sequence \in ToSet(store)
    /\ publishing = "rejected" => ~Session
    /\ Rising(store)
    /\ Len(store) <= ReplayLimit
    /\ \A n \in published : store # <<>> /\ (n >= Head(store) => n \in ToSet(store))
    /\ ~Session => ToSet(store) \subseteq published

\* A collaboration receiver holds the end of the store: events are stored and
\* sent in one critical section.
EndOf(q, s) ==
    /\ Len(q) <= Len(s)
    /\ \A i \in 1 .. Len(q) : q[i] = s[Len(s) - Len(q) + i]

QueueInv ==
    /\ Rising(queue)
    /\ Len(queue) <= ReplayLimit
    /\ ToSet(queue) \subseteq published
    /\ skipped > 0 \/ lagging # None => Len(queue) = ReplayLimit
    /\ ~Subscribed => queue = <<>> /\ skipped = 0
    /\ ~Session /\ phase = "open" => EndOf(queue, store)

PhaseInv ==
    /\ phase \notin {"captured", "open"} => out = <<>>
    /\ phase # "open" => lagging = None /\ got = {}
    /\ phase \in {"subscribed"} => Session
    /\ phase \in {"captured"} => ~Session

\* An event whose number a stream passes while opening is in the window.
MarkInv ==
    /\ phase \in {"marked", "captured", "open"} => highWater <= sequence
    /\ Opening /\ publishing # None => sequence \in window
    /\ phase \in {"marked", "captured", "open"} /\ publishing # None /\ sequence <= highWater
          => sequence \in window
    /\ Session /\ phase \in {"opening", "marked"} => \A n \in snapshot + 1 .. sequence : n \in window
    /\ Session /\ phase = "marked" => \A n \in ToSet(store) : n <= highWater \/ n \in late

\* A number that will not be sent any more.
Spent(n) == n < sequence \/ (n = sequence /\ publishing = None)

\* A number the client need not hear of any more.
Fine(n) == n \in known \/ n \in window \/ (n \notin published /\ Spent(n))

\* The client's cursor, and the one it will have, pass nothing it does not
\* know.
CursorInv ==
    /\ cursor # None => \A n \in 1 .. cursor : Fine(n)
    /\ after # None => \A n \in 1 .. after : Fine(n)
    /\ \A i \in 1 .. Len(out) : \A n \in 1 .. out[i].cursor :
          Fine(n) \/ \E j \in 1 .. i : n \in out[j].tells

\* A sent event on its way to the client: in the replay, in the channel, or
\* under a gap that the stream has yet to tell.
Pending(n) ==
    \/ \E i \in 1 .. Len(out) : n \in out[i].tells
    \/ (n \in ToSet(queue) /\ n > highWater)
    \/ Session /\ (skipped > 0 \/ lagging # None)
    \/ ~Session /\ skipped > 0 /\ n < Head(queue)
    \/ ~Session /\ lagging # None /\ lagging.actual = None /\ n < Head(queue)
    \/ ~Session /\ lagging # None /\ lagging.actual # None /\ n < lagging.actual

LagInv ==
    lagging # None /\ lagging.actual # None =>
        2 <= lagging.actual /\ (lagging.actual = 2 \/ lagging.actual <= sequence)

CoverInv == phase \in {"captured", "open"} => \A n \in published : Fine(n) \/ Pending(n)

\* Delivered and replayed events do not come from the channel again.
Gone(n) == n <= highWater \/ n \in late \/ (n \in published /\ n \notin ToSet(queue))

TwiceInv ==
    /\ \A i, j \in 1 .. Len(out) :
          i < j /\ out[i].event /\ out[j].event => out[i].sequence < out[j].sequence
    /\ \A i \in 1 .. Len(out) : out[i].event =>
          Gone(out[i].sequence) /\ \A g \in got : g < out[i].sequence
    /\ \A g \in got : Gone(g)
    /\ repeated \subseteq late

Inv == Types /\ StoreInv /\ QueueInv /\ PhaseInv /\ MarkInv /\ LagInv /\ CursorInv /\ CoverInv /\ TwiceInv

-----------------------------------------------------------------------------
(* Frames and replays.                                                     *)

LEMMA ItemFacts ==
    ASSUME Types, NEW n \in Nat
    PROVE  /\ Item(n) \in Items
           /\ Item(n).sequence = n /\ Item(n).cursor = n /\ Item(n).event
           /\ Item(n).tells = IF Session THEN 1 .. n ELSE {n}
BY DEF Types, Item, Items, Session, session_event_from_session, collaboration_event,
       event_replay_fields

LEMMA GapFacts ==
    ASSUME Types, NEW expected \in Nat, NEW actual \in Nat, NEW state \in Nat
    PROVE  /\ GapItem(expected, actual, state) \in Items
           /\ GapItem(expected, actual, state).cursor = expected
           /\ ~ GapItem(expected, actual, state).event
           /\ GapItem(expected, actual, state).tells =
                IF Session THEN 1 .. state ELSE 1 .. actual - 1
<1>1. 1 .. state \in SUBSET Nat /\ 1 .. actual - 1 \in SUBSET Nat
  OBVIOUS
<1> QED BY <1>1 DEF Types, GapItem, Items, Session, session_event_from_session,
                    collaboration_gap_event, collaboration_event, gap_fields

Frames(t) == [i \in 1 .. Len(t) |-> Item(t[i])]

\* A frame with the event n.
FrameOf(f, n) ==
    /\ f.event
    /\ f.sequence = n
    /\ f.cursor = n
    /\ f.tells = IF Session THEN 1 .. n ELSE {n}

LEMMA FramesFacts ==
    ASSUME Types, NEW t \in Seq(Nat)
    PROVE  /\ Frames(t) \in Seq(Items) /\ Len(Frames(t)) = Len(t) /\ Len(t) \in Nat
           /\ \A i \in 1 .. Len(t) : t[i] \in Nat /\ FrameOf(Frames(t)[i], t[i])
<1>1. \A i \in 1 .. Len(t) : t[i] \in Nat
  OBVIOUS
<1>2. \A i \in 1 .. Len(t) : Frames(t)[i] = Item(t[i]) /\ Item(t[i]) \in Items
  BY <1>1, ItemFacts DEF Frames
<1>3. Frames(t) \in Seq(Items) /\ Len(Frames(t)) = Len(t) /\ Len(t) \in Nat
  <2>1. Frames(t) \in [1 .. Len(t) -> Items]
    BY <1>1, ItemFacts DEF Frames
  <2> QED BY <2>1
<1>4. \A n \in Nat : FrameOf(Item(n), n)
  BY ItemFacts DEF FrameOf
<1> QED BY <1>1, <1>2, <1>3, <1>4

\* A gap before the events after the cursor, or those events alone.
GapFirst == after # None /\ store # <<>> /\ after + 1 < Head(store)

LEMMA ReplayShape ==
    ASSUME Types, StoreInv, ~ (after = None /\ Session)
    PROVE  \E t \in Seq(Nat) :
             /\ Rising(t)
             /\ ToSet(t) = {m \in ToSet(store) : after # None => m > after}
             /\ Replay = IF GapFirst THEN <<GapItem(after + 1, Head(store), snapshot)>> \o Frames(t)
                         ELSE Frames(t)
<1>1. store \in Seq(Nat) /\ Rising(store)
  BY DEF Types, StoreInv
<1>2. CASE after # None
  <2> DEFINE t == Later(store, after)
  <2>1. after \in Nat
    BY <1>2 DEF Types
  <2>2. t \in Seq(Nat) /\ Rising(t) /\ ToSet(t) = {m \in ToSet(store) : m > after}
    BY <1>1, <2>1, LaterFacts
  <2>3. Replay = ReplayAfter
    BY <1>2 DEF Replay
  <2>4. ReplayAfter = IF GapFirst THEN <<GapItem(after + 1, Head(store), snapshot)>> \o Frames(t)
                      ELSE Frames(t)
    BY <1>2 DEF ReplayAfter, GapFirst, Frames
  <2> HIDE DEF t
  <2> QED BY <1>2, <2>2, <2>3, <2>4
<1>3. CASE after = None
  <2>1. Replay = Frames(store)
    BY <1>3 DEF Replay, Frames
  <2> QED BY <1>1, <1>3, <2>1 DEF GapFirst
<1> QED BY <1>2, <1>3

LEMMA Prepend ==
    ASSUME NEW g \in Items, NEW t \in Seq(Items)
    PROVE  /\ <<g>> \o t \in Seq(Items) /\ Len(<<g>> \o t) = Len(t) + 1
           /\ (<<g>> \o t)[1] = g
           /\ \A i \in 1 .. Len(t) : (<<g>> \o t)[i + 1] = t[i]
           /\ \A i \in 2 .. Len(t) + 1 : (<<g>> \o t)[i] = t[i - 1]
OBVIOUS

\* What a replay holds.
LEMMA ReplayFacts ==
    ASSUME Types, StoreInv
    PROVE  /\ Replay \in Seq(Items)
           /\ \A i \in 1 .. Len(Replay) : Replay[i].event => Replay[i].sequence \in ToSet(store)
           /\ \A i, j \in 1 .. Len(Replay) :
                i < j /\ Replay[i].event /\ Replay[j].event => Replay[i].sequence < Replay[j].sequence
           /\ after = None /\ Session =>
                /\ Len(Replay) = 1 /\ ~Replay[1].event
                /\ Replay[1].cursor = snapshot /\ Replay[1].tells = 1 .. snapshot
           /\ ~ (after = None /\ Session) =>
                /\ \A m \in ToSet(store) : (after # None => m > after) =>
                      \E i \in 1 .. Len(Replay) : m \in Replay[i].tells
                /\ \A i \in 1 .. Len(Replay) : Replay[i].event =>
                      /\ Replay[i].cursor = Replay[i].sequence
                      /\ \A m \in ToSet(store) : (after # None => m > after) /\ m <= Replay[i].cursor =>
                           \E j \in 1 .. i : m \in Replay[j].tells
                /\ GapFirst => /\ Len(Replay) >= 1 /\ ~Replay[1].event
                               /\ Replay[1].tells = IF Session THEN 1 .. snapshot
                                                    ELSE 1 .. Head(store) - 1
                /\ \A i \in 1 .. Len(Replay) : ~Replay[i].event =>
                      i = 1 /\ GapFirst /\ Replay[i].cursor = after + 1
<1>1. CASE after = None /\ Session
  <2> DEFINE g == [sequence |-> Larger(snapshot, 1), cursor |-> snapshot, event |-> FALSE,
                   tells |-> 1 .. snapshot]
  <2>1. Replay = <<g>>
    BY <1>1 DEF Replay
  <2>2. g \in Items /\ ~g.event /\ g.cursor = snapshot /\ g.tells = 1 .. snapshot
    BY DEF Types, Items, Larger
  <2> HIDE DEF g
  <2>3. Replay \in Seq(Items) /\ Len(Replay) = 1 /\ Replay[1] = g
    BY <2>1, <2>2
  <2> QED BY <1>1, <2>2, <2>3
<1>2. CASE ~ (after = None /\ Session)
  <2>1. PICK t \in Seq(Nat) :
             /\ Rising(t)
             /\ ToSet(t) = {m \in ToSet(store) : after # None => m > after}
             /\ Replay = IF GapFirst THEN <<GapItem(after + 1, Head(store), snapshot)>> \o Frames(t)
                         ELSE Frames(t)
    BY <1>2, ReplayShape
  <2>2. /\ Frames(t) \in Seq(Items) /\ Len(Frames(t)) = Len(t) /\ Len(t) \in Nat
        /\ \A i \in 1 .. Len(t) : t[i] \in Nat /\ FrameOf(Frames(t)[i], t[i])
    BY FramesFacts
  <2>3. \A m \in ToSet(store) : (after # None => m > after) => \E i \in 1 .. Len(t) : t[i] = m
    BY <2>1, Members
  <2>4. \A i \in 1 .. Len(t) : t[i] \in ToSet(store)
    BY <2>1, Members
  <2>5. \A m \in ToSet(store) : m \in Nat /\ 1 <= m
    BY DEF StoreInv, Types
  <2>6. ASSUME NEW m \in ToSet(store), NEW i \in 1 .. Len(t), t[i] = m PROVE m \in Frames(t)[i].tells
    <3>1. FrameOf(Frames(t)[i], m) /\ m \in 1 .. m
      BY <2>2, <2>5, <2>6
    <3>2. CASE Session
      BY <3>1, <3>2 DEF FrameOf
    <3>3. CASE ~Session
      BY <3>1, <3>3 DEF FrameOf
    <3> QED BY <3>2, <3>3
  <2>7. \A i, j \in 1 .. Len(t) : (i < j => t[i] < t[j]) /\ (t[j] <= t[i] => j <= i)
    BY <2>1, <2>2 DEF Rising
  <2>8. \A i \in 1 .. Len(t), m \in ToSet(store) : (after # None => m > after) /\ m <= t[i] =>
          \E j \in 1 .. i : m \in Frames(t)[j].tells
    <3> SUFFICES ASSUME NEW i \in 1 .. Len(t), NEW m \in ToSet(store), after # None => m > after, m <= t[i]
                 PROVE  \E j \in 1 .. i : m \in Frames(t)[j].tells
      OBVIOUS
    <3>1. PICK j \in 1 .. Len(t) : t[j] = m
      BY <2>3
    <3>2. j <= i
      BY <2>7, <3>1
    <3> QED BY <2>6, <3>1, <3>2
  <2>9. CASE ~GapFirst
    <3>1. Replay = Frames(t)
      BY <2>1, <2>9
    <3>2. \A m \in ToSet(store) : (after # None => m > after) =>
                      \E i \in 1 .. Len(Replay) : m \in Replay[i].tells
      BY <2>2, <2>3, <2>6, <3>1
    <3>3. \A i \in 1 .. Len(Replay) : Replay[i].event =>
                      /\ Replay[i].cursor = Replay[i].sequence
                      /\ \A m \in ToSet(store) : (after # None => m > after) /\ m <= Replay[i].cursor =>
                           \E j \in 1 .. i : m \in Replay[j].tells
      BY ZenonT(40), <2>2, <2>8, <3>1 DEF FrameOf
    <3>4. \A i \in 1 .. Len(Replay) : i \in 1 .. Len(t) /\ Replay[i].event /\ Replay[i].sequence = t[i]
      BY <2>2, <3>1 DEF FrameOf
    <3>5. Replay \in Seq(Items)
      BY <2>2, <3>1
    <3>6. \A i, j \in 1 .. Len(Replay) : i < j => Replay[i].sequence < Replay[j].sequence
      BY <2>7, <3>4
    <3>7. \A i \in 1 .. Len(Replay) : Replay[i].event /\ Replay[i].sequence \in ToSet(store)
      BY <2>4, <3>4
    <3> QED BY <1>2, <2>9, <3>2, <3>3, <3>5, <3>6, <3>7
  <2>10. CASE GapFirst
    <3> DEFINE g == GapItem(after + 1, Head(store), snapshot)
               R == <<g>> \o Frames(t)
    <3>1. Replay = R
      BY <2>1, <2>10
    <3>2. after + 1 \in Nat /\ Head(store) \in Nat /\ snapshot \in Nat
      BY <2>10 DEF GapFirst, Types
    <3>3. g \in Items /\ g.cursor = after + 1 /\ ~g.event
          /\ g.tells = IF Session THEN 1 .. snapshot ELSE 1 .. Head(store) - 1
      BY SMTT(30), <3>2, GapFacts
    <3> HIDE DEF g
    <3>4. /\ R \in Seq(Items) /\ Len(R) = Len(t) + 1 /\ R[1] = g
          /\ \A i \in 1 .. Len(t) : R[i + 1] = Frames(t)[i]
          /\ \A i \in 2 .. Len(t) + 1 : R[i] = Frames(t)[i - 1]
      BY <2>2, <3>3, Prepend
    <3> HIDE DEF R
    <3>5. ASSUME NEW m \in ToSet(store), after # None => m > after
          PROVE  \E i \in 1 .. Len(R) : m \in R[i].tells
      <4>1. PICK i \in 1 .. Len(t) : t[i] = m
        BY <2>3, <3>5
      <4>2. m \in Frames(t)[i].tells
        BY <2>6, <4>1
      <4>3. i + 1 \in 1 .. Len(R) /\ R[i + 1] = Frames(t)[i]
        BY <2>2, <3>4
      <4> QED BY <4>2, <4>3
    <3>6. \A i \in 1 .. Len(R) : i = 1 \/ (i - 1 \in 1 .. Len(t) /\ R[i] = Frames(t)[i - 1])
      BY <2>2, <3>4
    <3>7. ASSUME NEW i \in 1 .. Len(R), R[i].event
          PROVE  i - 1 \in 1 .. Len(t) /\ R[i].sequence = t[i - 1] /\ R[i].cursor = t[i - 1]
      <4>1. i # 1
        BY <3>3, <3>4, <3>7
      <4>2. i - 1 \in 1 .. Len(t) /\ R[i] = Frames(t)[i - 1]
        BY <3>6, <4>1
      <4>3. FrameOf(Frames(t)[i - 1], t[i - 1])
        BY <2>2, <4>2
      <4>4. Frames(t)[i - 1].sequence = t[i - 1] /\ Frames(t)[i - 1].cursor = t[i - 1]
        BY <4>3 DEF FrameOf
      <4> QED BY <4>2, <4>4
    <3>8. ASSUME NEW i \in 1 .. Len(R), R[i].event, NEW m \in ToSet(store), after # None => m > after,
                 m <= R[i].cursor
          PROVE  \E j \in 1 .. i : m \in R[j].tells
      <4>1. PICK j \in 1 .. i - 1 : m \in Frames(t)[j].tells
        BY <2>8, <3>7, <3>8
      <4>2. j \in 1 .. Len(t) /\ j + 1 \in 1 .. i /\ m \in R[j + 1].tells
        BY <2>2, <3>4, <3>7, <3>8, <4>1
      <4> QED BY <4>2
    <3>9. ASSUME NEW i \in 1 .. Len(R), NEW j \in 1 .. Len(R), i < j, R[i].event, R[j].event
          PROVE  R[i].sequence < R[j].sequence
      <4>1. i - 1 \in 1 .. Len(t) /\ R[i].sequence = t[i - 1]
        BY <3>7, <3>9
      <4>2. j - 1 \in 1 .. Len(t) /\ R[j].sequence = t[j - 1]
        BY <3>7, <3>9
      <4>3. i - 1 < j - 1
        BY <3>9
      <4> QED BY <2>7, <4>1, <4>2, <4>3
    <3>10. \A i \in 1 .. Len(R) : R[i].event => R[i].sequence \in ToSet(store) /\ R[i].cursor = R[i].sequence
      BY <2>4, <3>7
    <3>11. \A i \in 1 .. Len(R) : ~R[i].event => i = 1 /\ R[i].cursor = after + 1
      BY <2>2, <3>3, <3>4, <3>6 DEF FrameOf
    <3>12. R \in Seq(Items) /\ Len(R) >= 1 /\ ~R[1].event
           /\ R[1].tells = IF Session THEN 1 .. snapshot ELSE 1 .. Head(store) - 1
      BY <2>2, <3>3, <3>4
    <3>13. \A i \in 1 .. Len(R) : R[i].event =>
             /\ R[i].cursor = R[i].sequence
             /\ \A m \in ToSet(store) : (after # None => m > after) /\ m <= R[i].cursor =>
                           \E j \in 1 .. i : m \in R[j].tells
      BY <3>8, <3>10
    <3>14. R = Replay
      BY <3>1
    <3> QED BY <1>2, <2>10, <3>5, <3>9, <3>10, <3>11, <3>12, <3>13, <3>14
  <2> QED BY <2>9, <2>10
<1> QED BY <1>1, <1>2

-----------------------------------------------------------------------------
(* Initial states, types and the log.                                      *)

LEMMA InitInv == Init => Inv
<1> SUFFICES ASSUME Init PROVE Inv
  OBVIOUS
<1> USE StreamsAssumption DEF Init
<1>1. <<>> \in Seq(Nat) /\ <<>> \in Seq(Items) /\ Rising(<<>>) /\ ToSet(<<>>) = {} /\ Len(<<>>) = 0
  BY DEF Rising, ToSet
<1>2. Types
  BY <1>1 DEF Types
<1>3. StoreInv /\ QueueInv
  BY <1>1 DEF StoreInv, QueueInv, Subscribed, Session
<1>4. PhaseInv /\ MarkInv /\ LagInv
  BY DEF PhaseInv, MarkInv, LagInv, Opening, Session
<1>5. CursorInv /\ CoverInv /\ TwiceInv
  BY <1>1 DEF CursorInv, CoverInv, TwiceInv
<1> QED BY <1>2, <1>3, <1>4, <1>5 DEF Inv

\* What storing and sending the event that is being published does.
LEMMA StoreFacts ==
    ASSUME Types, StoreInv, publishing \in {"reserved", "rejected"}
    PROVE  /\ PushBounded(store, sequence) \in Seq(Nat) /\ Rising(PushBounded(store, sequence))
           /\ PushBounded(store, sequence) # <<>> /\ Len(PushBounded(store, sequence)) <= ReplayLimit
           /\ sequence \in ToSet(PushBounded(store, sequence))
           /\ ToSet(PushBounded(store, sequence)) \subseteq ToSet(store) \cup {sequence}
           /\ \A m \in ToSet(store) : \/ m \in ToSet(PushBounded(store, sequence))
                                      \/ m < Head(PushBounded(store, sequence))
           /\ Head(PushBounded(store, sequence)) \in ToSet(PushBounded(store, sequence))
           /\ store # <<>> => Head(store) <= Head(PushBounded(store, sequence))
           /\ \A m \in ToSet(store) : m < sequence
           /\ sequence > 0
<1>1. sequence \in Nat /\ store \in Seq(Nat) /\ Rising(store) /\ Len(store) <= ReplayLimit
  BY DEF Types, StoreInv
<1>2. publishing # None /\ sequence > 0
  BY StreamsAssumption DEF StoreInv
<1>3. \A m \in ToSet(store) : m < sequence
  BY <1>1 DEF StoreInv
<1> QED BY <1>1, <1>2, <1>3, PushFacts, RisingFacts

LEMMA SendFacts ==
    ASSUME Types, StoreInv, QueueInv, publishing # None
    PROVE  /\ PushBounded(queue, sequence) \in Seq(Nat) /\ Rising(PushBounded(queue, sequence))
           /\ PushBounded(queue, sequence) # <<>> /\ Len(PushBounded(queue, sequence)) <= ReplayLimit
           /\ sequence \in ToSet(PushBounded(queue, sequence))
           /\ ToSet(PushBounded(queue, sequence)) \subseteq ToSet(queue) \cup {sequence}
           /\ Len(queue) = ReplayLimit => Len(PushBounded(queue, sequence)) = ReplayLimit
           /\ \A m \in ToSet(queue) : \/ m \in ToSet(PushBounded(queue, sequence))
                                      \/ Len(queue) = ReplayLimit /\ m < Head(PushBounded(queue, sequence))
           /\ queue # <<>> => Head(queue) <= Head(PushBounded(queue, sequence))
           /\ Head(PushBounded(queue, sequence)) \in Nat
           /\ \A m \in ToSet(queue) : m < sequence
           /\ sequence > 0
<1>1. sequence \in Nat /\ queue \in Seq(Nat) /\ Rising(queue) /\ Len(queue) <= ReplayLimit
  BY DEF Types, QueueInv
<1>2. ASSUME NEW m \in ToSet(queue) PROVE m < sequence
  <2>1. m \in published /\ published \subseteq 1 .. sequence /\ sequence \notin published
    BY DEF QueueInv, StoreInv
  <2> QED BY <1>1, <2>1
<1>3. sequence > 0
  BY DEF StoreInv
<1>4. /\ PushBounded(queue, sequence) \in Seq(Nat) /\ PushBounded(queue, sequence) # <<>>
  BY <1>1, <1>2, PushFacts
<1>5. Head(PushBounded(queue, sequence)) \in Nat
  BY <1>4
<1> QED BY <1>1, <1>2, <1>3, <1>5, PushFacts

LEMMA ElementFacts ==
    ASSUME Types
    PROVE  /\ store # <<>> => Head(store) \in Nat /\ Last(store) \in Nat
           /\ queue # <<>> => Head(queue) \in Nat
           /\ \A i \in 1 .. Len(out) : out[i] \in Items
           /\ out # <<>> => Head(out) = out[1] /\ Head(out) \in Items /\ Tail(out) \in Seq(Items)
                            /\ Len(Tail(out)) = Len(out) - 1 /\ Len(out) >= 1
                            /\ \A i \in 1 .. Len(out) - 1 : Tail(out)[i] = out[i + 1]
           /\ Len(out) \in Nat /\ Len(store) \in Nat /\ Len(queue) \in Nat
<1>1. store \in Seq(Nat) /\ queue \in Seq(Nat) /\ out \in Seq(Items)
  BY DEF Types
<1>2. store # <<>> => Last(store) \in Nat
  BY <1>1 DEF Last
<1> QED BY <1>1, <1>2

LEMMA DeliverTypes ==
    ASSUME Types, NEW item \in Items, Deliver(item)
    PROVE  /\ cursor' \in Nat \cup {None}
           /\ known' \in SUBSET Nat /\ got' \in SUBSET Nat /\ repeated' \in SUBSET Nat
BY DEF Types, Items, Deliver

LEMMA LagTypes ==
    ASSUME Types, lagging # None, lagging.actual # None
    PROVE  /\ lagging.skipped \in Nat \ {0} /\ lagging.actual \in Nat
           /\ LagExpected \in Nat /\ LagExpected >= 1
           /\ LagExpected = 1 \/ LagExpected = lagging.actual - lagging.skipped
<1>1. lagging.skipped \in Nat \ {0} /\ lagging.actual \in Nat
  BY DEF Types, Lags
<1> QED BY <1>1 DEF LagExpected, Larger

LEMMA TypesStep ==
    ASSUME Inv, [Next]_vars PROVE Types'
<1> USE DEF Inv
<1>0. Types
  OBVIOUS
<1>1. CASE Reserve
  BY <1>1 DEF Types, Reserve, Overlap, openVars, clientVars
<1>2. CASE reserve_again
  BY <1>2 DEF Types, reserve_again, Overlap, openVars, clientVars
<1>3. CASE store_session_event
  BY <1>3, StoreFacts DEF Types, store_session_event, Overlap, openVars, clientVars
<1>4. CASE send_session_event
  <2>1. publishing # None
    BY <1>4, StreamsAssumption DEF send_session_event
  <2>2. queue' \in Seq(Nat) /\ skipped' \in Nat
    BY <1>4, <2>1, SendFacts DEF Types, send_session_event, Send
  <2> QED BY <1>4, <2>2 DEF Types, send_session_event, Send, Overlap, openVars, clientVars
<1>5. CASE publish_collaboration_event
  <2>1. publishing # None
    BY <1>5, StreamsAssumption DEF publish_collaboration_event
  <2>2. queue' \in Seq(Nat) /\ skipped' \in Nat
    BY <1>5, <2>1, SendFacts DEF Types, publish_collaboration_event, Send
  <2>3. store' \in Seq(Nat)
    BY <1>5, StoreFacts DEF publish_collaboration_event
  <2> QED BY <1>5, <2>2, <2>3
         DEF Types, publish_collaboration_event, Send, Overlap, openVars, clientVars
<1>6. CASE Connect
  BY <1>6 DEF Types, Connect, logVars, clientVars
<1>7. CASE session_snapshot_event
  BY <1>7 DEF Types, session_snapshot_event, logVars, clientVars, windowVars
<1>8. CASE ReadHighWater
  <2>1. latest_stored \in Nat
    BY ElementFacts DEF Types, latest_stored
  <2> QED BY <1>8, <2>1 DEF Types, ReadHighWater, logVars, clientVars, windowVars
<1>9. CASE ReadReplay
  <2>1. Replay \in Seq(Items)
    BY ReplayFacts
  <2>2. known' \in SUBSET Nat
    <3>1. store # <<>> => 1 .. Head(store) - 1 \in SUBSET Nat
      BY ElementFacts
    <3> QED BY <1>9, <3>1 DEF Types, ReadReplay
  <2> QED BY <1>9, <2>1, <2>2 DEF Types, ReadReplay, logVars, openVars, windowVars
<1>10. CASE Subscribe
  BY <1>10 DEF Types, Subscribe, logVars, openVars, clientVars, windowVars
<1>11. CASE EmitReplay
  <2>1. Head(out) \in Items /\ Tail(out) \in Seq(Items) /\ Deliver(Head(out))
    BY <1>11, ElementFacts DEF EmitReplay
  <2> QED BY <1>11, <2>1, DeliverTypes DEF Types, EmitReplay, logVars, openVars, windowVars
<1>12. CASE Receive
  <2>1. Head(queue) \in Nat /\ Tail(queue) \in Seq(Nat)
    BY <1>12 DEF Receive, Types
  <2>2. cursor' \in Nat \cup {None} /\ known' \in SUBSET Nat /\ got' \in SUBSET Nat
        /\ repeated' \in SUBSET Nat
    <3>1. CASE Head(queue) <= highWater
      BY <1>12, <3>1 DEF Receive, clientVars, Types
    <3>2. CASE ~ (Head(queue) <= highWater)
      BY <1>12, <2>1, <3>2, DeliverTypes, ItemFacts DEF Receive
    <3> QED BY <3>1, <3>2
  <2> QED BY <1>12, <2>1, <2>2 DEF Types, Receive, logVars, openVars, windowVars
<1>13. CASE ReceiveLagged
  BY <1>13 DEF Types, Lags, ReceiveLagged, logVars, openVars, clientVars, windowVars
<1>14. CASE oldest_retained
  <2>1. Larger(IF store = <<>> THEN sequence ELSE Head(store), 2) \in Nat
    BY ElementFacts DEF Types, Larger
  <2>2. lagging \in Lags
    BY <1>14 DEF Types, oldest_retained
  <2>3. lagging' \in Lags
    BY <1>14, <2>1, <2>2 DEF Lags, oldest_retained
  <2> QED BY <1>14, <2>3 DEF Types, oldest_retained, logVars, openVars, clientVars, windowVars
<1>15. CASE session_lag_gap_event
  <2> DEFINE item == session_event_from_session(gap_fields(LagExpected), sequence)
  <2>1. LagExpected \in Nat
    BY <1>15, LagTypes DEF session_lag_gap_event
  <2>2. item \in Items
    BY <2>1 DEF Items, session_event_from_session, gap_fields, Types
  <2>3. DeliverLag(item)
    BY <1>15 DEF session_lag_gap_event
  <2> HIDE DEF item
  <2> QED BY <2>2, <2>3, DeliverTypes DEF Types, DeliverLag, logVars, openVars, windowVars
<1>16. CASE stream_lag_gap_event
  <2> DEFINE item == collaboration_gap_event(LagExpected, lagging.actual)
  <2>1. LagExpected \in Nat /\ lagging.actual \in Nat
    BY <1>16, LagTypes DEF stream_lag_gap_event
  <2>2. item \in Items
    BY <2>1 DEF Items, collaboration_gap_event, collaboration_event, gap_fields
  <2>3. DeliverLag(item)
    BY <1>16 DEF stream_lag_gap_event
  <2> HIDE DEF item
  <2> QED BY <2>2, <2>3, DeliverTypes DEF Types, DeliverLag, logVars, openVars, windowVars
<1>17. CASE Disconnect
  BY <1>17 DEF Types, Disconnect, logVars, windowVars
<1>18. CASE UNCHANGED vars
  BY <1>18 DEF Types, vars, logVars, openVars, clientVars, windowVars
<1> QED BY <1>1, <1>2, <1>3, <1>4, <1>5, <1>6, <1>7, <1>8, <1>9, <1>10, <1>11, <1>12, <1>13,
           <1>14, <1>15, <1>16, <1>17, <1>18 DEF Next

-----------------------------------------------------------------------------
(* The log, the channel and the phases.                                    *)

LEMMA LogStep ==
    ASSUME Inv, [Next]_vars PROVE StoreInv'
<1> USE DEF Inv
<1>0. Types /\ StoreInv /\ QueueInv
  OBVIOUS
<1>1. CASE Reserve
  <2>1. sequence \in Nat /\ sequence' = sequence + 1 /\ publishing = None /\ publishing' = "reserved"
        /\ store' = store /\ published' = published /\ kind' = kind
    BY <1>1 DEF Reserve, Types
  <2>2. publishing' # None /\ sequence' > 0 /\ sequence' \notin published' /\ sequence' \notin ToSet(store')
        /\ published' \subseteq 1 .. sequence' /\ ToSet(store') \subseteq 1 .. sequence'
    BY <2>1, StreamsAssumption DEF StoreInv
  <2> QED BY <2>1, <2>2 DEF StoreInv, Session
<1>2. CASE reserve_again
  <2>1. sequence \in Nat /\ sequence' = sequence + 1 /\ publishing' = "rejected"
        /\ store' = store /\ published' = published /\ kind' = kind /\ ~Session
    BY <1>2 DEF reserve_again, Types
  <2>2. publishing' # None /\ sequence' > 0 /\ sequence' \notin published' /\ sequence' \notin ToSet(store')
        /\ published' \subseteq 1 .. sequence' /\ ToSet(store') \subseteq 1 .. sequence'
    BY <2>1, StreamsAssumption DEF StoreInv
  <2> QED BY <2>1, <2>2 DEF StoreInv, Session
<1>3. CASE store_session_event
  <2>1. Session /\ publishing \in {"reserved", "rejected"} /\ publishing' = "stored" /\ sequence' = sequence
        /\ published' = published /\ kind' = kind /\ store' = PushBounded(store, sequence)
    BY <1>3 DEF store_session_event
  <2>2. publishing # None /\ sequence \in Nat /\ sequence > 0
    BY <2>1, StreamsAssumption, StoreFacts DEF Types
  <2>3. \A n \in published' : store' # <<>> /\ (n >= Head(store') => n \in ToSet(store'))
    <3> SUFFICES ASSUME NEW n \in published PROVE store' # <<>> /\ (n >= Head(store') => n \in ToSet(store'))
      BY <2>1
    <3>1. n \in Nat /\ store # <<>> /\ (n >= Head(store) => n \in ToSet(store))
      BY DEF StoreInv, Types
    <3>2. store' # <<>> /\ Head(store) <= Head(store') /\ Head(store') \in Nat /\ Head(store) \in Nat
          /\ (n \in ToSet(store) => n \in ToSet(store') \/ n < Head(store'))
      BY <2>1, <3>1, StoreFacts, ElementFacts DEF StoreInv
    <3> QED BY <3>1, <3>2
  <2>4. Rising(store') /\ Len(store') <= ReplayLimit /\ sequence' \in ToSet(store')
        /\ ToSet(store') \subseteq 1 .. sequence'
    <3>1. ToSet(store) \subseteq 1 .. sequence
      BY DEF StoreInv
    <3> QED BY <2>1, <2>2, <3>1, StoreFacts
  <2> QED BY <2>1, <2>2, <2>3, <2>4 DEF StoreInv, Session
<1>4. CASE send_session_event
  <2>1. publishing = "stored" /\ publishing' = None /\ sequence' = sequence /\ store' = store
        /\ published' = published \cup {sequence} /\ kind' = kind
    BY <1>4 DEF send_session_event, Send
  <2>2. publishing # None /\ sequence \in Nat /\ sequence > 0 /\ Session /\ sequence \in ToSet(store)
    BY <2>1, StreamsAssumption DEF Types, StoreInv
  <2>3. store # <<>>
    BY <2>2 DEF ToSet
  <2> QED BY <2>1, <2>2, <2>3, StreamsAssumption DEF StoreInv, Session
<1>5. CASE publish_collaboration_event
  <2>1. ~Session /\ publishing \in {"reserved", "rejected"} /\ publishing' = None /\ sequence' = sequence
        /\ published' = published \cup {sequence} /\ kind' = kind /\ store' = PushBounded(store, sequence)
    BY <1>5 DEF publish_collaboration_event, Send
  <2>2. publishing # None /\ sequence \in Nat /\ sequence > 0
    BY <2>1, StreamsAssumption, StoreFacts DEF Types
  <2>3. Rising(store') /\ Len(store') <= ReplayLimit /\ sequence' \in ToSet(store') /\ store' # <<>>
        /\ ToSet(store') \subseteq ToSet(store) \cup {sequence}
    BY <2>1, StoreFacts
  <2>4. ToSet(store) \subseteq published /\ ToSet(store) \subseteq 1 .. sequence
    BY <2>1 DEF StoreInv
  <2>5. \A n \in published' : n >= Head(store') => n \in ToSet(store')
    <3> SUFFICES ASSUME NEW n \in published, n >= Head(store') PROVE n \in ToSet(store')
      BY <2>1, <2>3
    <3>1. n \in Nat /\ store # <<>> /\ (n >= Head(store) => n \in ToSet(store))
      BY DEF StoreInv, Types
    <3>2. Head(store) <= Head(store') /\ Head(store') \in Nat /\ Head(store) \in Nat
          /\ (n \in ToSet(store) => n \in ToSet(store') \/ n < Head(store'))
      BY <2>1, <3>1, StoreFacts, ElementFacts DEF StoreInv
    <3> QED BY <3>1, <3>2
  <2>6. published' \subseteq 1 .. sequence' /\ ToSet(store') \subseteq 1 .. sequence'
    <3>1. published \subseteq 1 .. sequence /\ sequence \in 1 .. sequence
      BY <2>2 DEF StoreInv
    <3> QED BY <2>1, <2>3, <2>4, <3>1
  <2>7. publishing' \notin {"reserved", "stored", "rejected"}
    BY <2>1, StreamsAssumption
  <2>8. ToSet(store') \subseteq published'
    BY <2>1, <2>3, <2>4
  <2> QED BY <2>1, <2>3, <2>5, <2>6, <2>7, <2>8 DEF StoreInv, Session
<1>6. CASE UNCHANGED logVars
  BY <1>6 DEF StoreInv, logVars, Session
<1> QED BY <1>1, <1>2, <1>3, <1>4, <1>5, <1>6
        DEF Next, vars, Connect, session_snapshot_event, ReadHighWater, ReadReplay, Subscribe, EmitReplay,
            Receive, ReceiveLagged, oldest_retained, session_lag_gap_event, stream_lag_gap_event,
            DeliverLag, Disconnect

LEMMA TailIndex ==
    ASSUME NEW a \in Seq(Nat), a # <<>>
    PROVE  Len(Tail(a)) = Len(a) - 1 /\ \A i \in 1 .. Len(a) - 1 : Tail(a)[i] = a[i + 1]
OBVIOUS

LEMMA EndPushed ==
    ASSUME NEW q \in Seq(Nat), NEW s \in Seq(Nat), EndOf(q, s), Len(s) <= ReplayLimit, NEW n \in Nat
    PROVE  EndOf(PushBounded(q, n), PushBounded(s, n))
<1> DEFINE long == Append(q, n)
           longer == Append(s, n)
<1>1. /\ long \in Seq(Nat) /\ Len(long) = Len(q) + 1 /\ \A i \in 1 .. Len(q) : long[i] = q[i]
      /\ long[Len(q) + 1] = n
      /\ longer \in Seq(Nat) /\ Len(longer) = Len(s) + 1 /\ \A i \in 1 .. Len(s) : longer[i] = s[i]
      /\ longer[Len(s) + 1] = n
      /\ Len(q) \in Nat /\ Len(s) \in Nat
  OBVIOUS
<1>0. /\ Len(long) = Len(q) + 1 /\ Len(longer) = Len(s) + 1
      /\ Len(q) \in Nat /\ Len(s) \in Nat
  BY <1>1
<1>2. /\ PushBounded(q, n) = IF Len(long) > ReplayLimit THEN Tail(long) ELSE long
      /\ PushBounded(s, n) = IF Len(longer) > ReplayLimit THEN Tail(longer) ELSE longer
  BY DEF PushBounded
<1>3. long # <<>> /\ longer # <<>>
  OBVIOUS
<1>4. /\ Len(Tail(long)) = Len(long) - 1 /\ \A i \in 1 .. Len(long) - 1 : Tail(long)[i] = long[i + 1]
      /\ Len(Tail(longer)) = Len(longer) - 1 /\ \A i \in 1 .. Len(longer) - 1 : Tail(longer)[i] = longer[i + 1]
  <2> HIDE DEF long, longer
  <2> QED BY <1>1, <1>3, TailIndex
<1> HIDE DEF long, longer
<1>5. Len(q) <= Len(s) /\ ReplayLimit \in Nat
  BY StreamsAssumption DEF EndOf
<1>6. \A i \in 1 .. Len(long) : long[i] = longer[Len(longer) - Len(long) + i]
  <2> SUFFICES ASSUME NEW i \in 1 .. Len(long) PROVE long[i] = longer[Len(longer) - Len(long) + i]
    OBVIOUS
  <2>1. CASE i = Len(q) + 1
    <3>1. Len(longer) - Len(long) + i = Len(s) + 1
      BY <1>0, <2>1
    <3> QED BY <1>1, <2>1, <3>1
  <2>2. CASE i # Len(q) + 1
    <3>1. i \in 1 .. Len(q) /\ Len(longer) - Len(long) + i = Len(s) - Len(q) + i
          /\ Len(s) - Len(q) + i \in 1 .. Len(s)
      BY <1>0, <1>5, <2>2
    <3>2. q[i] = s[Len(s) - Len(q) + i]
      BY <3>1 DEF EndOf
    <3> QED BY <1>1, <3>1, <3>2
  <2> QED BY <2>1, <2>2
<1>7. Len(long) <= Len(longer)
  BY <1>0, <1>5
<1>8. CASE Len(longer) > ReplayLimit /\ Len(long) > ReplayLimit
  <2>1. ASSUME NEW i \in 1 .. Len(long) - 1
        PROVE  Tail(long)[i] = Tail(longer)[(Len(longer) - 1) - (Len(long) - 1) + i]
    <3>1. i + 1 \in 1 .. Len(long) /\ (Len(longer) - 1) - (Len(long) - 1) + i \in 1 .. Len(longer) - 1
          /\ ((Len(longer) - 1) - (Len(long) - 1) + i) + 1 = Len(longer) - Len(long) + (i + 1)
      BY <1>0, <1>7
    <3>2. long[i + 1] = longer[Len(longer) - Len(long) + (i + 1)]
      BY <1>6, <3>1
    <3>3. Tail(longer)[(Len(longer) - 1) - (Len(long) - 1) + i] = longer[((Len(longer) - 1) - (Len(long) - 1) + i) + 1]
      BY <1>4, <3>1
    <3> QED BY <1>4, <3>1, <3>2, <3>3
  <2>2. PushBounded(q, n) = Tail(long) /\ PushBounded(s, n) = Tail(longer)
    BY <1>2, <1>8
  <2>3. Len(Tail(long)) = Len(long) - 1 /\ Len(Tail(longer)) = Len(longer) - 1
        /\ Len(Tail(long)) <= Len(Tail(longer))
    <3>1. Len(Tail(long)) = Len(long) - 1 /\ Len(Tail(longer)) = Len(longer) - 1
      BY <1>4
    <3>2. Len(long) \in Nat /\ Len(longer) \in Nat
      BY <1>0
    <3>3. Len(long) - 1 <= Len(longer) - 1
      BY <1>0, <1>5
    <3> QED BY <3>1, <3>3
  <2>4. \A i \in 1 .. Len(Tail(long)) : Tail(long)[i] = Tail(longer)[Len(Tail(longer)) - Len(Tail(long)) + i]
    BY <2>1, <2>3
  <2> QED BY <2>2, <2>3, <2>4 DEF EndOf
<1>9. CASE Len(longer) > ReplayLimit /\ ~ (Len(long) > ReplayLimit)
  <2>1. Len(long) <= Len(longer) - 1
    BY <1>0, <1>5, <1>9
  <2>2. ASSUME NEW i \in 1 .. Len(long) PROVE long[i] = Tail(longer)[Len(longer) - 1 - Len(long) + i]
    <3>1. Len(longer) - 1 - Len(long) + i \in 1 .. Len(longer) - 1
          /\ (Len(longer) - 1 - Len(long) + i) + 1 = Len(longer) - Len(long) + i
      BY <1>0, <2>1
    <3>2. Tail(longer)[Len(longer) - 1 - Len(long) + i] = longer[Len(longer) - Len(long) + i]
      BY <1>4, <3>1
    <3> QED BY <1>6, <3>2
  <2> QED BY <1>2, <1>4, <1>9, <2>1, <2>2 DEF EndOf
<1>10. CASE ~ (Len(longer) > ReplayLimit)
  <2>1. ~ (Len(long) > ReplayLimit)
    BY <1>0, <1>5, <1>7, <1>10
  <2> QED BY <1>2, <1>10, <1>6, <1>7, <2>1 DEF EndOf
<1> QED BY <1>8, <1>9, <1>10

LEMMA QueueStep ==
    ASSUME Inv, [Next]_vars PROVE QueueInv'
<1> USE DEF Inv
<1>0. Types /\ StoreInv /\ QueueInv /\ PhaseInv
  OBVIOUS
<1> DEFINE pushed == PushBounded(queue, sequence)
<1>1. ASSUME publishing # None, Send, kind' = kind, phase' = phase, lagging' = lagging
      PROVE  /\ Rising(queue') /\ Len(queue') <= ReplayLimit /\ ToSet(queue') \subseteq published'
             /\ skipped' > 0 \/ lagging' # None => Len(queue') = ReplayLimit
             /\ ~Subscribed' => queue' = <<>> /\ skipped' = 0
  <2>1. Subscribed' <=> Subscribed
    BY <1>1 DEF Subscribed, Session
  <2>2. CASE ~Subscribed
    <3>1. queue' = queue /\ skipped' = skipped /\ published \subseteq published'
      BY <1>1, <2>2 DEF Send
    <3> QED BY <1>1, <2>1, <2>2, <3>1 DEF QueueInv
  <2>3. CASE Subscribed
    <3>1. queue' = pushed /\ published' = published \cup {sequence}
          /\ skipped' = IF Len(queue) = ReplayLimit THEN skipped + 1 ELSE skipped
      BY <1>1, <2>3 DEF Send
    <3>2. /\ Rising(pushed) /\ Len(pushed) <= ReplayLimit /\ ToSet(pushed) \subseteq ToSet(queue) \cup {sequence}
          /\ Len(queue) = ReplayLimit => Len(pushed) = ReplayLimit
      BY <1>1, SendFacts
    <3> HIDE DEF pushed
    <3>3. ToSet(queue') \subseteq published'
      BY <3>1, <3>2 DEF QueueInv
    <3>4. skipped' > 0 \/ lagging' # None => Len(queue) = ReplayLimit
      BY <1>1, <3>1 DEF QueueInv
    <3> QED BY <2>1, <2>3, <3>1, <3>2, <3>3, <3>4
  <2> QED BY <2>2, <2>3
<1>2. CASE Reserve \/ reserve_again \/ session_snapshot_event \/ ReadHighWater \/ EmitReplay
  BY <1>2 DEF Reserve, reserve_again, session_snapshot_event, ReadHighWater, EmitReplay,
              QueueInv, Subscribed, Session, logVars
<1>3. CASE store_session_event
  BY <1>3 DEF store_session_event, QueueInv, Subscribed, Session
<1>4. CASE send_session_event
  <2>1. publishing # None /\ Session
    BY <1>4, StreamsAssumption DEF send_session_event, StoreInv
  <2>2. Send /\ kind' = kind /\ phase' = phase /\ lagging' = lagging
    BY <1>4 DEF send_session_event
  <2> HIDE DEF pushed
  <2> QED BY <1>1, <2>1, <2>2 DEF QueueInv, Session
<1>5. CASE publish_collaboration_event
  <2>1. publishing # None /\ ~Session
    BY <1>5, StreamsAssumption DEF publish_collaboration_event
  <2>2. Send /\ kind' = kind /\ phase' = phase /\ lagging' = lagging
        /\ store' = PushBounded(store, sequence)
    BY <1>5 DEF publish_collaboration_event
  <2>3. phase' = "open" => EndOf(queue', store')
    <3> SUFFICES ASSUME phase' = "open" PROVE EndOf(queue', store')
      OBVIOUS
    <3>1. queue' = PushBounded(queue, sequence)
      BY <2>1, <2>2 DEF Send, Subscribed
    <3>2. EndOf(queue, store) /\ Len(store) <= ReplayLimit
      BY <2>1, <2>2 DEF QueueInv, StoreInv
    <3>3. queue \in Seq(Nat) /\ store \in Seq(Nat) /\ sequence \in Nat
      BY DEF Types
    <3> QED BY <2>2, <3>1, <3>2, <3>3, EndPushed
  <2> HIDE DEF pushed
  <2> QED BY <1>1, <2>1, <2>2, <2>3 DEF QueueInv
<1>6. CASE Connect
  <2>1. queue' = queue /\ skipped' = skipped /\ lagging' = lagging /\ kind' = kind /\ published' = published
        /\ phase' # "open" /\ phase = "closed"
    BY <1>6 DEF Connect, logVars
  <2>2. queue = <<>> /\ skipped = 0
    BY <2>1 DEF QueueInv, Subscribed, Session
  <2> QED BY <2>1, <2>2 DEF QueueInv
<1>7. CASE ReadReplay
  <2>1. queue' = queue /\ skipped' = skipped /\ lagging' = lagging /\ kind' = kind /\ published' = published
        /\ phase = "marked" /\ phase' = IF Session THEN "open" ELSE "captured"
    BY <1>7 DEF ReadReplay, logVars
  <2>2. Subscribed' <=> Subscribed
    BY <2>1 DEF Subscribed, Session
  <2> QED BY <2>1, <2>2 DEF QueueInv, Session
<1>8. CASE Subscribe
  <2>1. queue' = queue /\ skipped' = skipped /\ lagging' = lagging /\ kind' = kind /\ published' = published
        /\ store' = store /\ phase = "captured" /\ phase' = "open"
    BY <1>8 DEF Subscribe, logVars
  <2>2. ~Session /\ queue = <<>> /\ skipped = 0
    BY <2>1 DEF QueueInv, Subscribed, PhaseInv
  <2>3. EndOf(<<>>, store)
    BY DEF EndOf, Types
  <2> QED BY <2>1, <2>2, <2>3 DEF QueueInv, Session
<1>9. CASE Receive
  <2>1. queue' = Tail(queue) /\ queue # <<>> /\ skipped' = skipped /\ skipped = 0 /\ lagging' = lagging
        /\ lagging = None /\ kind' = kind /\ published' = published /\ store' = store /\ phase' = phase
        /\ phase = "open"
    BY <1>9 DEF Receive, Live, logVars
  <2>2. queue \in Seq(Nat) /\ Rising(queue) /\ Len(queue) <= ReplayLimit /\ ReplayLimit \in Nat
    BY StreamsAssumption DEF Types, QueueInv
  <2>3. Rising(queue') /\ Len(queue') = Len(queue) - 1 /\ ToSet(queue') \subseteq ToSet(queue)
    BY <2>1, <2>2, TailFacts
  <2>4. ~Session => EndOf(queue', store')
    <3> SUFFICES ASSUME ~Session PROVE EndOf(Tail(queue), store)
      BY <2>1
    <3>1. EndOf(queue, store)
      BY <2>1 DEF QueueInv
    <3>2. Len(queue) \in Nat /\ Len(store) \in Nat /\ Len(queue) >= 1 /\ Len(Tail(queue)) = Len(queue) - 1
          /\ \A i \in 1 .. Len(queue) - 1 : Tail(queue)[i] = queue[i + 1]
      BY <2>1, <2>2, TailIndex, ElementFacts
    <3>3. ASSUME NEW i \in 1 .. Len(queue) - 1
          PROVE  Tail(queue)[i] = store[Len(store) - (Len(queue) - 1) + i]
      <4>1. i + 1 \in 1 .. Len(queue) /\ Len(store) - (Len(queue) - 1) + i = Len(store) - Len(queue) + (i + 1)
        BY <3>2
      <4> QED BY <3>1, <3>2, <4>1 DEF EndOf
    <3>4. Len(queue) - 1 <= Len(store)
      BY <3>1, <3>2 DEF EndOf
    <3> QED BY <3>2, <3>3, <3>4 DEF EndOf
  <2>5. Subscribed'
    BY <2>1 DEF Subscribed
  <2>6. Len(queue') <= ReplayLimit
    BY <2>2, <2>3
  <2> QED BY <2>1, <2>3, <2>4, <2>5, <2>6 DEF QueueInv, Session
<1>10. CASE ReceiveLagged
  <2>1. skipped > 0 /\ skipped' = 0 /\ queue' = queue /\ kind' = kind /\ published' = published /\ store' = store
        /\ phase' = phase
    BY <1>10 DEF ReceiveLagged, logVars
  <2> QED BY <2>1 DEF QueueInv, Subscribed, Session
<1>11. CASE oldest_retained
  BY <1>11 DEF oldest_retained, QueueInv, Subscribed, Session, logVars
<1>12. CASE session_lag_gap_event \/ stream_lag_gap_event
  BY <1>12 DEF session_lag_gap_event, stream_lag_gap_event, DeliverLag, QueueInv, Subscribed, Session, logVars
<1>13. CASE Disconnect
  <2>1. queue' = <<>> /\ skipped' = 0 /\ lagging' = None /\ phase' = "closed"
    BY <1>13 DEF Disconnect
  <2>2. Rising(<<>>) /\ ToSet(<<>>) = {} /\ Len(<<>>) = 0 /\ ReplayLimit \in Nat
    BY StreamsAssumption DEF Rising, ToSet
  <2> QED BY <2>1, <2>2 DEF QueueInv
<1>14. CASE UNCHANGED vars
  BY <1>14 DEF vars, logVars, QueueInv, Subscribed, Session
<1> QED BY <1>2, <1>3, <1>4, <1>5, <1>6, <1>7, <1>8, <1>9, <1>10, <1>11, <1>12, <1>13, <1>14 DEF Next

LEMMA PhaseStep ==
    ASSUME Inv, [Next]_vars PROVE PhaseInv'
<1> USE DEF Inv
<1>1. PhaseInv
  OBVIOUS
<1>2. CASE Reserve \/ reserve_again \/ store_session_event \/ send_session_event \/ publish_collaboration_event
  BY <1>1, <1>2 DEF Reserve, reserve_again, store_session_event, send_session_event,
                    publish_collaboration_event, PhaseInv, Session, clientVars
<1>3. CASE Connect \/ session_snapshot_event \/ ReadHighWater \/ ReadReplay \/ Subscribe
  BY <1>1, <1>3 DEF Connect, session_snapshot_event, ReadHighWater, ReadReplay, Subscribe, PhaseInv, Session,
                    clientVars, logVars
<1>4. CASE EmitReplay \/ Receive \/ ReceiveLagged \/ oldest_retained
  BY <1>1, <1>4 DEF EmitReplay, Receive, ReceiveLagged, oldest_retained, Live, PhaseInv, Session,
                    clientVars, logVars
<1>5. CASE session_lag_gap_event \/ stream_lag_gap_event
  BY <1>1, <1>5 DEF session_lag_gap_event, stream_lag_gap_event, DeliverLag, PhaseInv, Session, logVars
<1>6. CASE Disconnect \/ UNCHANGED vars
  BY <1>1, <1>6 DEF Disconnect, vars, PhaseInv, Session, logVars, clientVars
<1> QED BY <1>2, <1>3, <1>4, <1>5, <1>6 DEF Next

-----------------------------------------------------------------------------
(* The window and the mark.                                                *)

LEMMA MarkStep ==
    ASSUME Inv, [Next]_vars PROVE MarkInv'
<1> USE DEF Inv
<1>0. Types /\ StoreInv /\ PhaseInv /\ MarkInv
  OBVIOUS
<1>1. CASE Reserve
  <2>1. /\ sequence \in Nat /\ sequence' = sequence + 1 /\ publishing = None /\ publishing' = "reserved"
        /\ window' = IF Opening THEN window \cup {sequence'} ELSE window
        /\ store' = store /\ kind' = kind /\ phase' = phase /\ highWater' = highWater /\ snapshot' = snapshot
        /\ late' = late /\ highWater \in Nat
    BY <1>1 DEF Reserve, Overlap, Types, openVars
  <2>2. Opening' <=> Opening
    BY <2>1 DEF Opening
  <2>3. ASSUME Session, phase \in {"opening", "marked"}, NEW n \in snapshot + 1 .. sequence'
        PROVE  n \in window'
    <3>1. Opening /\ \A m \in snapshot + 1 .. sequence : m \in window
      BY <2>3 DEF MarkInv, Opening
    <3>2. n \in snapshot + 1 .. sequence \/ n = sequence'
      BY <2>1, <2>3 DEF Types
    <3> QED BY <2>1, <3>1, <3>2
  <2>4. phase' \in {"marked", "captured", "open"} => highWater' < sequence'
    BY <2>1 DEF MarkInv
  <2>5. ~ (highWater' < sequence' /\ sequence' <= highWater')
    BY <2>1
  <2> QED BY <2>1, <2>2, <2>3, <2>4, <2>5 DEF MarkInv, Session
<1>2. CASE reserve_again
  <2>1. /\ sequence \in Nat /\ sequence' = sequence + 1 /\ ~Session
        /\ window' = IF Opening THEN window \cup {sequence'} ELSE window
        /\ kind' = kind /\ phase' = phase /\ highWater' = highWater /\ highWater \in Nat
    BY <1>2 DEF reserve_again, Overlap, Types, openVars
  <2>2. Opening' <=> Opening
    BY <2>1 DEF Opening
  <2>3. phase' \in {"marked", "captured", "open"} => highWater' < sequence'
    BY <2>1 DEF MarkInv
  <2>4. ~ (highWater' < sequence' /\ sequence' <= highWater')
    BY <2>1
  <2> QED BY <2>1, <2>2, <2>3, <2>4 DEF MarkInv, Session
<1>3. CASE store_session_event
  <2>1. /\ Session /\ publishing \in {"reserved", "rejected"} /\ store' = PushBounded(store, sequence)
        /\ late' = IF phase = "marked" THEN late \cup {sequence} ELSE late
        /\ window \subseteq window' /\ kind' = kind /\ phase' = phase /\ highWater' = highWater
        /\ snapshot' = snapshot /\ sequence' = sequence
    BY <1>3 DEF store_session_event, Overlap, openVars
  <2>2. publishing # None /\ ToSet(store') \subseteq ToSet(store) \cup {sequence}
    BY <2>1, StoreFacts, StreamsAssumption
  <2> QED BY <2>1, <2>2 DEF MarkInv, Session, Opening
<1>4. CASE send_session_event
  <2>1. /\ publishing' = None /\ store' = store /\ late' = late
        /\ window \subseteq window' /\ kind' = kind /\ phase' = phase /\ highWater' = highWater
        /\ snapshot' = snapshot /\ sequence' = sequence
    BY <1>4 DEF send_session_event, Send, Overlap, openVars
  <2> QED BY <2>1 DEF MarkInv, Session, Opening
<1>5. CASE publish_collaboration_event
  <2>1. /\ ~Session /\ publishing' = None /\ window \subseteq window' /\ kind' = kind /\ phase' = phase
        /\ highWater' = highWater /\ sequence' = sequence
    BY <1>5 DEF publish_collaboration_event, Send, Overlap, openVars
  <2> QED BY <2>1 DEF MarkInv, Session, Opening
<1>6. CASE Connect
  <2>1. /\ phase' = IF Session THEN "subscribed" ELSE "opening"
        /\ window' = IF publishing = None \/ Session THEN window ELSE window \cup {sequence}
        /\ publishing' = publishing /\ sequence' = sequence /\ kind' = kind
    BY <1>6 DEF Connect, logVars
  <2> QED BY <2>1 DEF MarkInv, Session, Opening
<1>7. CASE session_snapshot_event
  <2>1. /\ phase = "subscribed" /\ phase' = "opening" /\ publishing = None /\ publishing' = publishing
        /\ snapshot' = sequence /\ sequence' = sequence /\ kind' = kind /\ sequence \in Nat
    BY <1>7 DEF session_snapshot_event, logVars, Types
  <2>2. sequence + 1 .. sequence = {}
    BY <2>1
  <2> QED BY <2>1, <2>2 DEF MarkInv, Opening
<1>8. CASE ReadHighWater
  <2>1. /\ phase = "opening" /\ phase' = "marked" /\ publishing' = publishing /\ sequence' = sequence
        /\ kind' = kind /\ window' = window /\ late' = late /\ store' = store /\ snapshot' = snapshot
        /\ highWater' = latest_stored /\ sequence \in Nat
    BY <1>8 DEF ReadHighWater, logVars, windowVars, Types
  <2>2. Opening /\ Opening'
    BY <2>1 DEF Opening
  <2>3. CASE store = <<>>
    BY <2>1, <2>2, <2>3 DEF MarkInv, Session, latest_stored, ToSet
  <2>4. CASE store # <<>>
    <3>1. store \in Seq(Nat) /\ Rising(store) /\ ToSet(store) \subseteq 1 .. sequence
      BY DEF Types, StoreInv
    <3>2. Last(store) \in ToSet(store) /\ \A m \in ToSet(store) : m <= Last(store)
      BY <2>4, <3>1, RisingFacts
    <3>3. highWater' = Last(store) /\ highWater' <= sequence
      BY <2>1, <2>4, <3>1, <3>2 DEF latest_stored
    <3> QED BY <2>1, <2>2, <3>2, <3>3 DEF MarkInv, Session
  <2> QED BY <2>3, <2>4
<1>9. CASE ReadReplay
  <2>1. /\ phase = "marked" /\ phase' = IF Session THEN "open" ELSE "captured"
        /\ publishing' = publishing /\ sequence' = sequence /\ kind' = kind /\ window' = window
        /\ highWater' = highWater
    BY <1>9 DEF ReadReplay, logVars, windowVars, openVars
  <2> QED BY <2>1 DEF MarkInv, Session, Opening
<1>10. CASE Subscribe
  <2>1. /\ phase = "captured" /\ phase' = "open"
        /\ publishing' = publishing /\ sequence' = sequence /\ kind' = kind /\ window' = window
        /\ highWater' = highWater
    BY <1>10 DEF Subscribe, logVars, windowVars, openVars
  <2> QED BY <2>1 DEF MarkInv, Session, Opening
<1>11. CASE UNCHANGED <<logVars, phase, openVars, windowVars>>
  BY <1>11 DEF MarkInv, Session, Opening, logVars, openVars, windowVars
<1>12. CASE Disconnect
  BY <1>12 DEF Disconnect, MarkInv, Session, Opening
<1> QED BY <1>1, <1>2, <1>3, <1>4, <1>5, <1>6, <1>7, <1>8, <1>9, <1>10, <1>11, <1>12
        DEF Next, vars, EmitReplay, Receive, ReceiveLagged, oldest_retained, session_lag_gap_event,
            stream_lag_gap_event, DeliverLag

LEMMA LagStep ==
    ASSUME Inv, [Next]_vars PROVE LagInv'
<1> USE DEF Inv
<1>0. Types /\ StoreInv /\ LagInv
  OBVIOUS
<1>1. CASE oldest_retained
  <2>1. lagging \in Lags /\ sequence' = sequence
        /\ lagging'.actual = Larger(IF store = <<>> THEN sequence ELSE Head(store), 2)
    BY <1>1 DEF oldest_retained, Types, Lags, logVars
  <2>2. sequence \in Nat /\ (store # <<>> => Head(store) \in Nat /\ Head(store) <= sequence)
    <3>1. store # <<>> => Head(store) \in ToSet(store)
      BY RisingFacts DEF Types, StoreInv
    <3> QED BY <3>1, ElementFacts DEF Types, StoreInv
  <2> QED BY <2>1, <2>2 DEF LagInv, Larger
<1>2. CASE ReceiveLagged
  BY <1>2 DEF ReceiveLagged, LagInv
<1>3. CASE session_lag_gap_event \/ stream_lag_gap_event \/ Disconnect
  BY <1>3 DEF session_lag_gap_event, stream_lag_gap_event, DeliverLag, Disconnect, LagInv
<1>4. CASE Reserve \/ reserve_again
  <2>1. lagging' = lagging /\ sequence \in Nat /\ sequence' = sequence + 1
    BY <1>4 DEF Reserve, reserve_again, Types
  <2>2. lagging # None /\ lagging.actual # None => lagging.actual \in Nat
    BY LagTypes
  <2> QED BY <2>1, <2>2 DEF LagInv
<1>5. CASE UNCHANGED <<lagging, sequence>>
  BY <1>5 DEF LagInv
<1> QED BY <1>1, <1>2, <1>3, <1>4, <1>5
        DEF Next, vars, logVars, store_session_event, send_session_event, publish_collaboration_event,
            Connect, session_snapshot_event, ReadHighWater, ReadReplay, Subscribe, EmitReplay, Receive

-----------------------------------------------------------------------------
(* Nothing is passed over.                                                 *)

\* What the client need not hear of, it will not need to hear of later.
LEMMA FineKept ==
    ASSUME Inv, [Next]_vars, NEW n \in Nat, Fine(n) PROVE Fine(n)'
<1> USE DEF Inv
<1>0. Types /\ StoreInv
  OBVIOUS
<1>1. CASE Reserve \/ reserve_again
  <2>1. /\ sequence \in Nat /\ sequence' = sequence + 1 /\ known' = known /\ published' = published
        /\ window \subseteq window'
    BY <1>1 DEF Reserve, reserve_again, Types, clientVars, Overlap
  <2> QED BY <2>1 DEF Fine, Spent
<1>2. CASE send_session_event \/ publish_collaboration_event
  <2>1. /\ publishing # None /\ sequence' = sequence /\ known' = known
        /\ published' = published \cup {sequence} /\ window \subseteq window' /\ sequence \in Nat
    BY <1>2, StreamsAssumption
       DEF send_session_event, publish_collaboration_event, Send, clientVars, Overlap, Types
  <2>2. Spent(n) => n # sequence
    BY <2>1 DEF Spent
  <2> QED BY <2>1, <2>2 DEF Fine, Spent
<1>3. CASE store_session_event
  <2>1. /\ publishing # None /\ sequence' = sequence /\ known' = known
        /\ published' = published /\ window \subseteq window' /\ sequence \in Nat
    BY <1>3, StreamsAssumption DEF store_session_event, clientVars, Overlap, Types
  <2> QED BY <2>1 DEF Fine, Spent
<1>4. ASSUME UNCHANGED logVars, known \subseteq known', window \subseteq window' PROVE Fine(n)'
  BY <1>4 DEF Fine, Spent, logVars
<1>5. CASE Connect \/ session_snapshot_event \/ ReadHighWater \/ ReadReplay \/ Subscribe
  BY <1>4, <1>5 DEF Connect, session_snapshot_event, ReadHighWater, ReadReplay, Subscribe, clientVars, windowVars
<1>6. CASE EmitReplay \/ Receive \/ ReceiveLagged \/ oldest_retained
  BY <1>4, <1>6 DEF EmitReplay, Receive, ReceiveLagged, oldest_retained, Deliver, clientVars, windowVars
<1>7. CASE session_lag_gap_event \/ stream_lag_gap_event \/ Disconnect \/ UNCHANGED vars
  BY <1>4, <1>7 DEF session_lag_gap_event, stream_lag_gap_event, DeliverLag, Deliver, Disconnect, vars,
                    clientVars, windowVars
<1> QED BY <1>1, <1>2, <1>3, <1>5, <1>6, <1>7 DEF Next

\* With an empty replay and no lag, the client lacks nothing but what is in
\* the channel.
LEMMA LiveFine ==
    ASSUME Inv, Live, skipped = 0, NEW n \in Nat, n > 0, n < sequence,
           ~ (n \in ToSet(queue) /\ n > highWater)
    PROVE  Fine(n)
<1> USE DEF Inv
<1>1. phase = "open" /\ out = <<>> /\ lagging = None /\ Len(out) = 0
  BY DEF Live
<1>2. ~Pending(n)
  BY <1>1 DEF Pending, Types
<1>3. CASE n \in published
  BY <1>1, <1>2, <1>3 DEF CoverInv
<1>4. CASE n \notin published
  BY <1>4 DEF Fine, Spent
<1> QED BY <1>3, <1>4

\* The numbers up to an event of the replay, when it is read.
LEMMA ReplayCovered ==
    ASSUME Inv, phase = "marked", NEW i \in 1 .. Len(Replay), NEW n \in 1 .. Replay[i].cursor
    PROVE  \/ Fine(n)
           \/ \E j \in 1 .. i : n \in Replay[j].tells
           \/ ~Session /\ after = None /\ store # <<>> /\ n \in 1 .. Head(store) - 1
<1> USE DEF Inv
<1>1. Types /\ StoreInv /\ MarkInv /\ CursorInv
  OBVIOUS
<1>2. CASE after = None /\ Session
  <2>1. Len(Replay) = 1 /\ Replay[1].cursor = snapshot /\ Replay[1].tells = 1 .. snapshot
    BY <1>1, <1>2, ReplayFacts
  <2>2. i = 1
    BY <2>1
  <2>3. n \in Replay[1].tells /\ 1 \in 1 .. i
    BY <2>1, <2>2
  <2> QED BY <2>3
<1>3. CASE ~ (after = None /\ Session)
  <2>1. n \in Nat /\ n >= 1 /\ n <= Replay[i].cursor /\ sequence \in Nat
    <3>1. Replay \in Seq(Items) /\ Replay[i] \in Items
      BY <1>1, ReplayFacts
    <3> QED BY <1>1, <3>1 DEF Items, Types
  <2>2. CASE after # None /\ n <= after
    <3>1. n \in 1 .. after
      BY <1>1, <2>1, <2>2 DEF Types
    <3> QED BY <1>1, <2>2, <3>1 DEF CursorInv
  <2>3. CASE (after # None => n > after) /\ store # <<>> /\ n < Head(store)
    <3>1. Head(store) \in Nat /\ Head(store) <= sequence
      <4>1. Head(store) \in ToSet(store)
        BY <1>1, <2>3, RisingFacts DEF Types, StoreInv
      <4> QED BY <1>1, <2>1, <4>1 DEF StoreInv
    <3>2. CASE after # None
      <4>1. GapFirst /\ after \in Nat
        BY <1>1, <2>1, <2>3, <3>1, <3>2 DEF GapFirst, Types
      <4>2. Len(Replay) >= 1 /\ Replay[1].tells = IF Session THEN 1 .. snapshot ELSE 1 .. Head(store) - 1
        BY <1>1, <1>3, <4>1, ReplayFacts
      <4>3. CASE Session
        <5>1. \A m \in snapshot + 1 .. sequence : m \in window
          BY <1>1, <4>3 DEF MarkInv
        <5>2. n \in 1 .. snapshot \/ n \in snapshot + 1 .. sequence
          BY <1>1, <2>1, <2>3, <3>1 DEF Types
        <5>3. n \in Replay[1].tells \/ n \in window
          BY <4>2, <4>3, <5>1, <5>2
        <5>4. 1 \in 1 .. i
          OBVIOUS
        <5> QED BY <5>3, <5>4 DEF Fine
      <4>4. CASE ~Session
        <5>1. n \in Replay[1].tells
          BY <2>1, <2>3, <3>1, <4>2, <4>4
        <5>2. 1 \in 1 .. i
          OBVIOUS
        <5> QED BY <5>1, <5>2
      <4> QED BY <4>3, <4>4
    <3>3. CASE after = None
      BY <1>3, <2>1, <2>3, <3>1, <3>3
    <3> QED BY <3>2, <3>3
  <2>4. CASE (after # None => n > after) /\ ~ (store # <<>> /\ n < Head(store))
    <3>1. CASE Replay[i].event
      <4>1. /\ Replay[i].cursor = Replay[i].sequence /\ Replay[i].sequence \in ToSet(store)
            /\ \A m \in ToSet(store) : (after # None => m > after) /\ m <= Replay[i].cursor =>
                           \E j \in 1 .. i : m \in Replay[j].tells
        BY <1>1, <1>3, <3>1, ReplayFacts
      <4>2. CASE n \in ToSet(store)
        BY <2>1, <2>4, <4>1, <4>2
      <4>3. CASE n \notin ToSet(store)
        <5>1. store # <<>> /\ Head(store) \in Nat
          BY <1>1, <4>1, ElementFacts DEF ToSet
        <5>2. n \notin published
          BY <1>1, <2>1, <2>4, <4>3, <5>1 DEF StoreInv
        <5>3. n # Replay[i].cursor /\ Replay[i].cursor <= sequence /\ Replay[i].cursor \in Nat
          BY <1>1, <4>1, <4>3 DEF StoreInv
        <5>4. n < sequence
          BY <2>1, <5>3
        <5> QED BY <5>2, <5>4 DEF Fine, Spent
      <4> QED BY <4>2, <4>3
    <3>2. CASE ~Replay[i].event
      <4>1. GapFirst /\ Replay[i].cursor = after + 1
        BY <1>1, <1>3, <3>2, ReplayFacts
      <4>2. after \in Nat /\ store # <<>> /\ after + 1 < Head(store) /\ Head(store) \in Nat
        BY <1>1, <4>1, ElementFacts DEF GapFirst, Types
      <4>3. n = after + 1
        BY <2>1, <2>4, <4>1, <4>2
      <4> QED BY <2>4, <4>2, <4>3
    <3> QED BY <3>1, <3>2
  <2>5. after # None => after \in Nat
    BY <1>1 DEF Types
  <2>6. (after # None /\ n <= after) \/ (after # None => n > after)
    BY <2>1, <2>5
  <2> QED BY <2>2, <2>3, <2>4, <2>6
<1> QED BY <1>2, <1>3

LEMMA CursorStep ==
    ASSUME Inv, [Next]_vars PROVE CursorInv'
<1> USE DEF Inv
<1>0. Types /\ StoreInv /\ QueueInv /\ PhaseInv /\ MarkInv /\ LagInv /\ CursorInv
  OBVIOUS
<1>1. \A n \in Nat : Fine(n) => Fine(n)'
  BY FineKept
<1>2. /\ cursor # None => cursor \in Nat /\ \A n \in 1 .. cursor : n \in Nat /\ Fine(n)'
      /\ after # None => after \in Nat /\ \A n \in 1 .. after : n \in Nat /\ Fine(n)'
  BY <1>1 DEF CursorInv, Types
<1>3. ASSUME NEW i \in 1 .. Len(out), NEW n \in 1 .. out[i].cursor
      PROVE  Fine(n)' \/ \E j \in 1 .. i : n \in out[j].tells
  <2>1. out[i].cursor \in Nat
    BY ElementFacts DEF Items
  <2> QED BY <1>1, <2>1 DEF CursorInv
<1>4. out' = <<>> => Len(out') = 0
  OBVIOUS
<1>5. ASSUME UNCHANGED <<cursor, after, out>> PROVE CursorInv'
  BY <1>2, <1>3, <1>5 DEF CursorInv
<1>6. CASE Connect
  BY <1>2, <1>3, <1>6 DEF Connect, clientVars, CursorInv
<1>7. CASE ReadReplay
  <2>1. /\ phase = "marked" /\ out' = Replay /\ cursor' = cursor /\ after' = after
        /\ ~Session /\ after = None /\ store # <<>> => 1 .. Head(store) - 1 \subseteq known'
    BY <1>7 DEF ReadReplay, openVars
  <2>2. ASSUME NEW i \in 1 .. Len(Replay), NEW n \in 1 .. Replay[i].cursor
        PROVE  Fine(n)' \/ \E j \in 1 .. i : n \in Replay[j].tells
    <3>1. n \in Nat
      <4>1. Replay[i] \in Items
        BY <1>0, ReplayFacts
      <4> QED BY <4>1 DEF Items
    <3>2. CASE ~Session /\ after = None /\ store # <<>> /\ n \in 1 .. Head(store) - 1
      BY <2>1, <3>2 DEF Fine
    <3> QED BY <1>1, <2>1, <3>1, <3>2, ReplayCovered
  <2> QED BY <1>2, <2>1, <2>2 DEF CursorInv
<1>8. CASE EmitReplay
  <2>1. /\ out # <<>> /\ out' = Tail(out) /\ after' = after
        /\ cursor' = Head(out).cursor /\ known' = known \cup Head(out).tells
    BY <1>8 DEF EmitReplay, Deliver, openVars
  <2>2. /\ Head(out) = out[1] /\ Head(out) \in Items /\ Len(out') = Len(out) - 1 /\ Len(out) >= 1
        /\ \A i \in 1 .. Len(out) - 1 : out'[i] = out[i + 1]
        /\ Len(out) \in Nat /\ \A i \in 1 .. Len(out) : out[i] \in Items
    BY <2>1, ElementFacts
  <2>3. \A n : n \in out[1].tells => Fine(n)'
    BY <2>1, <2>2 DEF Fine
  <2>4. \A n \in 1 .. out[1].cursor : Fine(n)'
    <3>1. 1 \in 1 .. Len(out)
      BY <2>2
    <3> QED BY <1>3, <2>3, <3>1
  <2>5. ASSUME NEW i \in 1 .. Len(out'), NEW n \in 1 .. out'[i].cursor
        PROVE  Fine(n)' \/ \E j \in 1 .. i : n \in out'[j].tells
    <3>1. i + 1 \in 1 .. Len(out) /\ out'[i] = out[i + 1] /\ i \in Nat
      BY <2>2
    <3>2. Fine(n)' \/ \E j \in 1 .. i + 1 : n \in out[j].tells
      BY <1>3, <3>1
    <3>3. ASSUME NEW j \in 1 .. i + 1, n \in out[j].tells
          PROVE  Fine(n)' \/ \E k \in 1 .. i : n \in out'[k].tells
      <4>1. CASE j = 1
        BY <2>3, <3>3, <4>1
      <4>2. CASE j # 1
        <5>1. j - 1 \in 1 .. i /\ j - 1 \in 1 .. Len(out) - 1 /\ (j - 1) + 1 = j
          BY <2>2, <3>1, <4>2
        <5>2. out'[j - 1] = out[j]
          BY <2>2, <5>1
        <5> QED BY <3>3, <5>1, <5>2
      <4> QED BY <4>1, <4>2
    <3> QED BY <3>2, <3>3
  <2>6. after' # None => \A n \in 1 .. after' : Fine(n)'
    BY <1>2, <2>1
  <2>7. \A n \in 1 .. cursor' : Fine(n)'
    BY <2>1, <2>2, <2>4
  <2> QED BY <2>5, <2>6, <2>7 DEF CursorInv
<1>9. CASE Receive
  <2>1. /\ Live /\ skipped = 0 /\ queue # <<>> /\ out = <<>> /\ out' = out /\ after' = after
    BY <1>9 DEF Receive, Live, openVars
  <2>2. CASE Head(queue) <= highWater
    BY <1>5, <1>9, <2>1, <2>2 DEF Receive, clientVars
  <2>3. CASE ~ (Head(queue) <= highWater)
    <3>1. Head(queue) \in Nat /\ Head(queue) \in ToSet(queue) /\ \A m \in ToSet(queue) : Head(queue) <= m
      BY <2>1, ElementFacts, RisingFacts DEF Types, QueueInv
    <3>2. cursor' = Head(queue) /\ known' = known \cup Item(Head(queue)).tells
          /\ Item(Head(queue)).tells = IF Session THEN 1 .. Head(queue) ELSE {Head(queue)}
      BY <1>9, <2>3, <3>1, ItemFacts DEF Receive, Deliver
    <3>3. Head(queue) \in 1 .. sequence /\ sequence \in Nat
      BY <3>1 DEF QueueInv, StoreInv, Types
    <3>4. ASSUME NEW n \in 1 .. Head(queue) PROVE Fine(n)'
      <4>1. CASE n = Head(queue)
        <5>1. Head(queue) \in Item(Head(queue)).tells
          <6>1. Head(queue) \in 1 .. Head(queue)
            BY <3>3
          <6> QED BY <3>2, <6>1
        <5> QED BY <3>2, <4>1, <5>1 DEF Fine
      <4>2. CASE n # Head(queue)
        <5>1. n \in Nat /\ n > 0 /\ n < sequence /\ n < Head(queue)
          BY <3>1, <3>3, <4>2
        <5>2. n \notin ToSet(queue)
          BY <3>1, <5>1 DEF Types
        <5>3. Fine(n)
          BY <2>1, <5>1, <5>2, LiveFine
        <5> QED BY <1>1, <5>1, <5>3
      <4> QED BY <4>1, <4>2
    <3> QED BY <1>2, <1>4, <2>1, <3>2, <3>4 DEF CursorInv
  <2> QED BY <2>2, <2>3
<1>10. CASE session_lag_gap_event
  <2>1. /\ Session /\ lagging # None /\ lagging.actual # None /\ publishing = None
        /\ out' = out /\ after' = after /\ cursor' = LagExpected /\ known' = known \cup 1 .. sequence
    BY <1>10 DEF session_lag_gap_event, DeliverLag, Deliver, session_event_from_session, gap_fields, openVars
  <2>2. sequence \in Nat /\ sequence >= 1
    <3>1. Len(queue) = ReplayLimit /\ ReplayLimit \in Nat \ {0} /\ queue \in Seq(Nat)
      BY <2>1, StreamsAssumption DEF QueueInv, Types
    <3>2. 1 \in 1 .. Len(queue)
      BY <3>1
    <3>3. queue[1] \in ToSet(queue)
      BY <3>1, <3>2, Members
    <3>4. queue[1] \in 1 .. sequence
      BY <3>3 DEF QueueInv, StoreInv
    <3> QED BY <3>4 DEF Types
  <2>3. LagExpected \in Nat /\ LagExpected <= sequence
    <3>1. lagging.skipped \in Nat \ {0} /\ lagging.actual \in Nat /\ LagExpected \in Nat
          /\ (LagExpected = 1 \/ LagExpected = lagging.actual - lagging.skipped)
      BY <2>1, LagTypes
    <3>2. lagging.actual = 2 \/ lagging.actual <= sequence
      BY <2>1 DEF LagInv
    <3> QED BY <2>2, <3>1, <3>2
  <2>4. \A n \in 1 .. cursor' : Fine(n)'
    <3>1. \A n \in 1 .. LagExpected : n \in 1 .. sequence
      BY <2>2, <2>3
    <3> QED BY <2>1, <3>1 DEF Fine
  <2> QED BY <1>2, <1>3, <2>1, <2>4 DEF CursorInv
<1>11. CASE stream_lag_gap_event
  <2>1. /\ lagging # None /\ lagging.actual # None
        /\ out' = out /\ after' = after /\ cursor' = LagExpected
        /\ known' = known \cup 1 .. lagging.actual - 1
    BY <1>11 DEF stream_lag_gap_event, DeliverLag, Deliver, collaboration_gap_event, collaboration_event,
                 gap_fields, openVars
  <2>2. lagging.actual \in Nat /\ LagExpected \in Nat /\ LagExpected <= lagging.actual - 1
    <3>1. lagging.skipped \in Nat \ {0} /\ lagging.actual \in Nat /\ LagExpected \in Nat
          /\ (LagExpected = 1 \/ LagExpected = lagging.actual - lagging.skipped)
      BY <2>1, LagTypes
    <3>2. 2 <= lagging.actual
      BY <2>1 DEF LagInv
    <3> QED BY <3>1, <3>2
  <2>3. \A n \in 1 .. cursor' : Fine(n)'
    <3>1. \A n \in 1 .. LagExpected : n \in 1 .. lagging.actual - 1
      BY <2>2
    <3> QED BY <2>1, <3>1 DEF Fine
  <2> QED BY <1>2, <1>3, <2>1, <2>3 DEF CursorInv
<1>12. CASE Disconnect
  <2>1. out' = <<>> /\ after' = None /\ cursor' = cursor
    BY <1>12 DEF Disconnect
  <2> QED BY <1>2, <1>4, <2>1 DEF CursorInv
<1>13. CASE Reserve \/ reserve_again \/ store_session_event \/ send_session_event \/ publish_collaboration_event
  BY <1>5, <1>13 DEF Reserve, reserve_again, store_session_event, send_session_event,
                     publish_collaboration_event, openVars, clientVars
<1>14. CASE session_snapshot_event \/ ReadHighWater \/ Subscribe \/ ReceiveLagged \/ oldest_retained
            \/ UNCHANGED vars
  BY <1>5, <1>14 DEF session_snapshot_event, ReadHighWater, Subscribe, ReceiveLagged, oldest_retained, vars,
                     openVars, clientVars
<1> QED BY <1>6, <1>7, <1>8, <1>9, <1>10, <1>11, <1>12, <1>13, <1>14 DEF Next

-----------------------------------------------------------------------------
(* A stream has or announces everything.                                   *)

LEMMA CoverStep ==
    ASSUME Inv, [Next]_vars PROVE CoverInv'
<1> USE DEF Inv
<1>0. Types /\ StoreInv /\ QueueInv /\ PhaseInv /\ MarkInv /\ CursorInv /\ CoverInv
  OBVIOUS
<1>1. \A n \in Nat : Fine(n) => Fine(n)'
  BY FineKept
<1>2. \A n \in published : n \in Nat /\ n \in 1 .. sequence
  BY DEF Types, StoreInv
<1>3. ASSUME UNCHANGED <<kind, published, out, queue, highWater, skipped, lagging, phase>>
      PROVE  CoverInv'
  BY <1>1, <1>2, <1>3 DEF CoverInv, Pending, Session
<1>4. ASSUME publishing # None, Send, Overlap(sequence),
             UNCHANGED <<kind, out, highWater, lagging, phase, sequence>>
      PROVE  CoverInv'
  <2> DEFINE pushed == PushBounded(queue, sequence)
  <2> SUFFICES ASSUME phase \in {"captured", "open"}, NEW n \in published' PROVE Fine(n)' \/ Pending(n)'
    BY <1>4 DEF CoverInv
  <2>1. n = sequence \/ n \in published
    BY <1>4 DEF Send
  <2>2. CASE ~Subscribed
    <3>1. Opening /\ ~Session
      BY <2>2 DEF Subscribed, Opening, Session, PhaseInv
    <3>2. queue' = queue /\ skipped' = skipped /\ sequence \in window'
      BY <1>4, <2>2, <3>1 DEF Send, Overlap
    <3>3. CASE n = sequence
      BY <3>2, <3>3 DEF Fine
    <3>4. CASE n \in published
      <4>1. Fine(n) \/ Pending(n)
        BY <3>4 DEF CoverInv
      <4>2. Pending(n) => Pending(n)'
        BY <1>4, <3>2 DEF Pending, Session
      <4> QED BY <1>1, <1>2, <3>4, <4>1, <4>2
    <3> QED BY <2>1, <3>3, <3>4
  <2>3. CASE Subscribed
    <3>1. queue' = pushed /\ skipped' = IF Len(queue) = ReplayLimit THEN skipped + 1 ELSE skipped
      BY <1>4, <2>3 DEF Send
    <3>2. /\ sequence \in ToSet(pushed) /\ Head(pushed) \in Nat
          /\ \A m \in ToSet(queue) : \/ m \in ToSet(pushed)
                                     \/ Len(queue) = ReplayLimit /\ m < Head(pushed)
          /\ queue # <<>> => Head(queue) <= Head(pushed)
      BY <1>4, SendFacts
    <3> HIDE DEF pushed
    <3>3. skipped \in Nat /\ highWater \in Nat /\ sequence \in Nat /\ (skipped > 0 => skipped' > 0)
      BY <3>1 DEF Types
    <3>4. CASE n = sequence
      <4>1. CASE sequence <= highWater
        <5>1. sequence \in window
          BY <1>4, <4>1 DEF MarkInv
        <5> QED BY <1>4, <3>4, <5>1 DEF Fine, Overlap
      <4>2. CASE ~ (sequence <= highWater)
        <5>1. n \in ToSet(queue') /\ n > highWater'
          BY <1>4, <3>1, <3>2, <3>3, <3>4, <4>2
        <5> QED BY <5>1 DEF Pending
      <4> QED BY <4>1, <4>2
    <3>5. CASE n \in published /\ Fine(n)
      BY <1>1, <1>2, <3>5
    <3>6. CASE n \in published /\ Pending(n)
      <4>1. n \in Nat /\ (Session' <=> Session)
        BY <1>2, <1>4, <3>6 DEF Session
      <4>2. CASE \E i \in 1 .. Len(out) : n \in out[i].tells
        BY <1>4, <4>2 DEF Pending
      <4>3. CASE n \in ToSet(queue) /\ n > highWater
        <5>1. CASE n \in ToSet(pushed)
          BY <1>4, <3>1, <4>3, <5>1 DEF Pending
        <5>2. CASE n \notin ToSet(pushed)
          <6>1. Len(queue) = ReplayLimit /\ n < Head(queue') /\ skipped' > 0
            BY <3>1, <3>2, <3>3, <4>3, <5>2
          <6> QED BY <4>1, <6>1 DEF Pending
        <5> QED BY <5>1, <5>2
      <4>4. CASE Session /\ (skipped > 0 \/ lagging # None)
        BY <1>4, <3>3, <4>1, <4>4 DEF Pending
      <4>5. CASE (skipped > 0 \/ lagging # None) /\ n < Head(queue)
        <5>1. queue # <<>>
          <6>1. Len(queue) = ReplayLimit /\ ReplayLimit # 0
            BY <4>5, StreamsAssumption DEF QueueInv
          <6> QED BY <6>1
        <5>2. n < Head(queue') /\ Len(queue) = ReplayLimit
          BY <3>1, <3>2, <4>1, <4>5, <5>1, ElementFacts DEF QueueInv
        <5>3. skipped' > 0
          BY <3>1, <3>3, <5>2
        <5> QED BY <4>1, <5>2, <5>3 DEF Pending
      <4>6. CASE ~Session /\ lagging # None /\ lagging.actual # None /\ n < lagging.actual
        BY <1>4, <4>1, <4>6 DEF Pending
      <4> QED BY <3>6, <4>2, <4>3, <4>4, <4>5, <4>6 DEF Pending
    <3>7. n \in published => Fine(n) \/ Pending(n)
      BY DEF CoverInv
    <3> QED BY <2>1, <3>4, <3>5, <3>6, <3>7
  <2> QED BY <2>2, <2>3
<1>5. CASE Reserve \/ reserve_again \/ store_session_event
  BY <1>3, <1>5 DEF Reserve, reserve_again, store_session_event, openVars
<1>6. CASE send_session_event \/ publish_collaboration_event
  <2>1. publishing # None
    BY <1>6, StreamsAssumption DEF send_session_event, publish_collaboration_event
  <2> QED BY <1>4, <1>6, <2>1 DEF send_session_event, publish_collaboration_event, openVars
<1>7. CASE Connect \/ session_snapshot_event \/ ReadHighWater \/ Disconnect
  BY <1>7 DEF Connect, session_snapshot_event, ReadHighWater, Disconnect, CoverInv
<1>8. CASE ReadReplay
  <2>1. /\ phase = "marked" /\ out' = Replay /\ published' = published
        /\ ~Session /\ after = None /\ store # <<>> => 1 .. Head(store) - 1 \subseteq known'
    BY <1>8 DEF ReadReplay, logVars
  <2> SUFFICES ASSUME NEW n \in published PROVE Fine(n)' \/ \E i \in 1 .. Len(Replay) : n \in Replay[i].tells
    BY <2>1 DEF CoverInv, Pending
  <2>2. /\ n \in Nat /\ n \in 1 .. sequence /\ sequence \in Nat /\ store # <<>> /\ Head(store) \in Nat
        /\ (n >= Head(store) => n \in ToSet(store))
    BY <1>2, ElementFacts DEF StoreInv, Types
  <2>3. CASE after = None /\ Session
    <3>1. Len(Replay) = 1 /\ Replay[1].tells = 1 .. snapshot
      BY <2>3, ReplayFacts
    <3>2. snapshot \in Nat /\ \A m \in snapshot + 1 .. sequence : m \in window
      BY <2>1, <2>3 DEF MarkInv, Types
    <3>3. CASE n <= snapshot
      <4>1. 1 \in 1 .. Len(Replay) /\ n \in Replay[1].tells
        BY <2>2, <3>1, <3>2, <3>3
      <4> QED BY <4>1
    <3>4. CASE ~ (n <= snapshot)
      <4>1. n \in window
        BY <2>2, <3>2, <3>4
      <4>2. Fine(n)
        BY <4>1 DEF Fine
      <4> QED BY <1>1, <2>2, <4>2
    <3> QED BY <3>3, <3>4
  <2>4. CASE ~ (after = None /\ Session)
    <3>1. CASE n >= Head(store) /\ (after # None => n > after)
      <4>1. n \in ToSet(store)
        BY <2>2, <3>1
      <4> QED BY <2>4, <3>1, <4>1, ReplayFacts
    <3>2. CASE after # None /\ n <= after
      <4>1. n \in 1 .. after
        BY <2>2, <3>2 DEF Types
      <4>2. Fine(n)
        BY <3>2, <4>1 DEF CursorInv
      <4> QED BY <1>1, <2>2, <4>2
    <3>3. CASE after # None /\ n > after /\ n < Head(store)
      <4>1. GapFirst
        BY <2>2, <3>3 DEF GapFirst, Types
      <4>2. Len(Replay) >= 1 /\ Replay[1].tells = IF Session THEN 1 .. snapshot ELSE 1 .. Head(store) - 1
        BY <2>4, <4>1, ReplayFacts
      <4>3. Len(Replay) \in Nat
        BY ReplayFacts
      <4>4. 1 \in 1 .. Len(Replay)
        BY <4>2, <4>3
      <4>5. CASE Session
        <5>1. snapshot \in Nat /\ \A m \in snapshot + 1 .. sequence : m \in window
          BY <2>1, <4>5 DEF MarkInv, Types
        <5>2. n \in 1 .. snapshot \/ n \in snapshot + 1 .. sequence
          BY <2>2, <5>1
        <5>3. CASE n \in 1 .. snapshot
          BY <4>2, <4>4, <4>5, <5>3
        <5>4. CASE n \in snapshot + 1 .. sequence
          <6>1. Fine(n)
            BY <5>1, <5>4 DEF Fine
          <6> QED BY <1>1, <2>2, <6>1
        <5> QED BY <5>2, <5>3, <5>4
      <4>6. CASE ~Session
        <5>1. n \in Replay[1].tells
          BY <2>2, <3>3, <4>2, <4>6
        <5> QED BY <4>4, <5>1
      <4> QED BY <4>5, <4>6
    <3>4. CASE after = None /\ n < Head(store)
      <4>1. n \in known'
        BY <2>1, <2>2, <2>4, <3>4
      <4> QED BY <4>1 DEF Fine
    <3>5. after # None => after \in Nat
      BY DEF Types
    <3> QED BY <2>2, <3>1, <3>2, <3>3, <3>4, <3>5
  <2> QED BY <2>3, <2>4
<1>9. CASE Subscribe
  <2>1. phase = "captured" /\ UNCHANGED <<kind, published, out, queue, highWater, skipped, lagging>>
    BY <1>9 DEF Subscribe, logVars, openVars
  <2> QED BY <1>1, <1>2, <2>1 DEF CoverInv, Pending, Session
<1>10. CASE EmitReplay
  <2>1. /\ phase = "open" /\ out # <<>> /\ out' = Tail(out) /\ known' = known \cup Head(out).tells
        /\ UNCHANGED <<kind, published, queue, highWater, skipped, lagging>>
    BY <1>10 DEF EmitReplay, Deliver, logVars, openVars
  <2>2. /\ Head(out) = out[1] /\ Len(out') = Len(out) - 1
        /\ \A i \in 1 .. Len(out) - 1 : out'[i] = out[i + 1]
        /\ Len(out) \in Nat
    BY <2>1, ElementFacts
  <2>3. ASSUME NEW n \in published, NEW i \in 1 .. Len(out), n \in out[i].tells
        PROVE  Fine(n)' \/ Pending(n)'
    <3>1. CASE i = 1
      BY <2>1, <2>2, <2>3, <3>1 DEF Fine
    <3>2. CASE i # 1
      <4>1. i - 1 \in 1 .. Len(out') /\ out'[i - 1] = out[i]
        BY <2>2, <3>2
      <4> QED BY <2>3, <4>1 DEF Pending
    <3> QED BY <3>1, <3>2
  <2>4. ASSUME NEW n \in published, Pending(n) PROVE Fine(n)' \/ Pending(n)'
    BY <2>1, <2>3, <2>4 DEF Pending, Session
  <2> QED BY <1>1, <1>2, <2>1, <2>4 DEF CoverInv
<1>11. CASE Receive
  <2>1. /\ Live /\ skipped = 0 /\ queue # <<>> /\ lagging = None /\ out = <<>> /\ phase = "open"
        /\ queue' = Tail(queue) /\ UNCHANGED <<kind, published, out, highWater, skipped, lagging>>
    BY <1>11 DEF Receive, Live, logVars, openVars
  <2>2. ToSet(queue') = ToSet(queue) \ {Head(queue)} /\ Head(queue) \in Nat /\ highWater \in Nat
    BY <2>1, TailFacts, ElementFacts DEF Types, QueueInv
  <2>3. ASSUME NEW n \in published, Pending(n) PROVE Fine(n)' \/ Pending(n)'
    <3>1. n \in ToSet(queue) /\ n > highWater /\ n \in Nat
      <4>1. Len(out) = 0
        BY <2>1
      <4> QED BY <1>2, <2>1, <2>3, <4>1 DEF Pending
    <3>2. CASE n = Head(queue)
      <4>1. known' = known \cup Item(Head(queue)).tells
        BY <1>11, <2>2, <3>1, <3>2 DEF Receive, Deliver
      <4>2. Item(Head(queue)).tells = IF Session THEN 1 .. Head(queue) ELSE {Head(queue)}
        BY <2>2, ItemFacts
      <4>3. n \in 1 .. n
        BY <1>2
      <4>4. n \in known'
        BY <3>2, <4>1, <4>2, <4>3
      <4> QED BY <4>4 DEF Fine
    <3>3. CASE n # Head(queue)
      BY <2>1, <2>2, <3>1, <3>3 DEF Pending
    <3> QED BY <3>2, <3>3
  <2> QED BY <1>1, <1>2, <2>1, <2>3 DEF CoverInv
<1>12. CASE ReceiveLagged
  <2>1. /\ phase = "open" /\ lagging = None /\ skipped > 0 /\ lagging' = [skipped |-> skipped, actual |-> None]
        /\ UNCHANGED <<kind, published, out, highWater, queue>>
    BY <1>12 DEF ReceiveLagged, Live, logVars, openVars
  <2>2. lagging' # None /\ lagging'.actual = None
    <3>1. lagging' \in [skipped : Nat, actual : Nat \cup {None}]
      BY <2>1 DEF Types
    <3> QED BY <2>1, <3>1, StreamsAssumption
  <2>3. ASSUME NEW n \in published, Pending(n) PROVE Pending(n)'
    BY <2>1, <2>2, <2>3 DEF Pending, Session
  <2> QED BY <1>1, <1>2, <2>1, <2>3 DEF CoverInv
<1>13. CASE oldest_retained
  <2>1. /\ lagging # None /\ lagging.actual = None /\ phase = "open"
        /\ lagging'.actual = Larger(IF store = <<>> THEN sequence ELSE Head(store), 2)
        /\ UNCHANGED <<kind, published, out, highWater, queue, skipped>>
    BY <1>13 DEF oldest_retained, PhaseInv, Types, Lags, logVars, openVars
  <2>2. lagging' # None /\ lagging'.actual # None
    <3>1. lagging' \in Lags \/ lagging' = None
      BY TypesStep DEF Types
    <3>2. Larger(IF store = <<>> THEN sequence ELSE Head(store), 2) \in Nat
      BY ElementFacts DEF Types, Larger
    <3>3. lagging' \in Lags
      <4>1. lagging \in Lags
        BY <2>1 DEF Types
      <4> QED BY <1>13, <3>2, <4>1 DEF oldest_retained, Lags
    <3>4. lagging' \in [skipped : Nat, actual : Nat \cup {None}]
      BY <3>3 DEF Lags
    <3> QED BY <2>1, <3>2, <3>4, StreamsAssumption
  <2>3. ASSUME ~Session, NEW n \in published, n < Head(queue) PROVE n < lagging'.actual
    <3>1. Len(queue) = ReplayLimit /\ ReplayLimit \in Nat \ {0} /\ Len(store) <= ReplayLimit /\ EndOf(queue, store)
      BY <2>1, <2>3, StreamsAssumption DEF QueueInv, StoreInv
    <3>2. queue \in Seq(Nat) /\ store \in Seq(Nat) /\ Len(store) = Len(queue)
      BY <3>1 DEF Types, EndOf
    <3>3. 1 \in 1 .. Len(queue) /\ Len(store) - Len(queue) + 1 = 1 /\ queue # <<>> /\ store # <<>>
      BY <3>1, <3>2
    <3>4. queue[1] = store[1]
      BY <3>1, <3>3 DEF EndOf
    <3>5. Head(queue) = Head(store) /\ Head(store) \in Nat
      BY <3>2, <3>3, <3>4
    <3>6. lagging'.actual >= Head(store) /\ lagging'.actual \in Nat
      BY <2>1, <3>3, <3>5 DEF Larger
    <3> QED BY <1>2, <2>3, <3>5, <3>6
  <2>4. ASSUME NEW n \in published, Pending(n) PROVE Pending(n)'
    BY <2>1, <2>2, <2>3, <2>4 DEF Pending, Session
  <2> QED BY <1>1, <1>2, <2>1, <2>4 DEF CoverInv
<1>14. CASE session_lag_gap_event
  <2>1. known' = known \cup 1 .. sequence /\ published' = published
    BY <1>14 DEF session_lag_gap_event, DeliverLag, Deliver, session_event_from_session, logVars
  <2> QED BY <1>2, <2>1 DEF CoverInv, Fine
<1>15. CASE stream_lag_gap_event
  <2>1. /\ ~Session /\ lagging # None /\ lagging.actual # None /\ known' = known \cup 1 .. lagging.actual - 1
        /\ UNCHANGED <<kind, published, out, highWater, queue, skipped, phase>>
    BY <1>15 DEF stream_lag_gap_event, DeliverLag, Deliver, collaboration_gap_event, collaboration_event,
                 logVars, openVars
  <2>2. ASSUME NEW n \in published, Pending(n) PROVE Fine(n)' \/ Pending(n)'
    <3>1. CASE n < lagging.actual
      <4>1. n \in 1 .. lagging.actual - 1
        BY <1>2, <2>1, <3>1, LagTypes
      <4> QED BY <2>1, <4>1 DEF Fine
    <3>2. CASE ~ (n < lagging.actual)
      BY <2>1, <2>2, <3>2 DEF Pending, Session
    <3> QED BY <3>1, <3>2
  <2> QED BY <1>1, <1>2, <2>1, <2>2 DEF CoverInv
<1>16. CASE UNCHANGED vars
  BY <1>3, <1>16 DEF vars, logVars, openVars
<1> QED BY <1>5, <1>6, <1>7, <1>8, <1>9, <1>10, <1>11, <1>12, <1>13, <1>14, <1>15, <1>16 DEF Next

-----------------------------------------------------------------------------
(* Nothing is delivered twice.                                             *)

LEMMA TwiceStep ==
    ASSUME Inv, [Next]_vars PROVE TwiceInv'
<1> USE DEF Inv
<1>0. Types /\ StoreInv /\ QueueInv /\ PhaseInv /\ MarkInv /\ TwiceInv
  OBVIOUS
<1>1. ASSUME UNCHANGED <<out, got, repeated>>, late \subseteq late',
             \A n \in Nat : Gone(n) => Gone(n)'
      PROVE  TwiceInv'
  <2>1. \A i \in 1 .. Len(out) : out[i].sequence \in Nat
    BY ElementFacts DEF Items
  <2>2. \A g \in got : g \in Nat
    BY DEF Types
  <2> QED BY <1>1, <2>1, <2>2 DEF TwiceInv
<1>2. CASE Reserve \/ reserve_again \/ store_session_event
  <2>1. UNCHANGED <<out, got, repeated, highWater, published, queue>> /\ late \subseteq late'
    BY <1>2 DEF Reserve, reserve_again, store_session_event, openVars, clientVars
  <2>2. \A n \in Nat : Gone(n) => Gone(n)'
    BY <2>1 DEF Gone
  <2> QED BY <1>1, <2>1, <2>2
<1>3. CASE send_session_event \/ publish_collaboration_event
  <2>1. /\ Send /\ publishing # None /\ UNCHANGED <<out, got, repeated, highWater, late>>
    BY <1>3, StreamsAssumption DEF send_session_event, publish_collaboration_event, openVars, clientVars
  <2>2. sequence \notin published /\ published' = published \cup {sequence}
        /\ ToSet(queue') \subseteq ToSet(queue) \cup {sequence}
    BY <2>1, SendFacts DEF StoreInv, Send
  <2>3. \A n \in Nat : Gone(n) => Gone(n)'
    BY <2>1, <2>2 DEF Gone
  <2> QED BY <1>1, <2>1, <2>3
<1>4. CASE Connect \/ session_snapshot_event \/ ReadHighWater
  <2>1. got = {} /\ out = <<>> /\ out' = out /\ got' = got /\ repeated' = repeated /\ late' = late
    BY <1>4 DEF Connect, session_snapshot_event, ReadHighWater, PhaseInv, clientVars, windowVars
  <2>2. Len(out) = 0
    BY <2>1
  <2> QED BY <2>1, <2>2 DEF TwiceInv
<1>5. CASE ReadReplay
  <2>1. /\ phase = "marked" /\ got = {} /\ out' = Replay
        /\ UNCHANGED <<got, repeated, late, highWater, published, queue>>
    BY <1>5 DEF ReadReplay, PhaseInv, logVars, openVars, windowVars
  <2>2. /\ \A i \in 1 .. Len(Replay) : Replay[i].event => Replay[i].sequence \in ToSet(store)
        /\ \A i, j \in 1 .. Len(Replay) :
              i < j /\ Replay[i].event /\ Replay[j].event => Replay[i].sequence < Replay[j].sequence
    BY ReplayFacts
  <2>3. ASSUME NEW n \in ToSet(store) PROVE Gone(n)'
    <3>1. CASE Session
      BY <2>1, <3>1 DEF MarkInv, Gone
    <3>2. CASE ~Session
      <4>1. n \in published /\ queue = <<>>
        BY <2>1, <3>2 DEF StoreInv, QueueInv, Subscribed
      <4>2. n \notin ToSet(queue)
        BY <4>1 DEF ToSet
      <4> QED BY <2>1, <4>1, <4>2 DEF Gone
    <3> QED BY <3>1, <3>2
  <2> QED BY <2>1, <2>2, <2>3 DEF TwiceInv
<1>6. CASE EmitReplay
  <2>1. /\ out # <<>> /\ out' = Tail(out)
        /\ got' = IF Head(out).event THEN got \cup {Head(out).sequence} ELSE got
        /\ repeated' = IF Head(out).event /\ Head(out).sequence \in got
                       THEN repeated \cup {Head(out).sequence} ELSE repeated
        /\ UNCHANGED <<late, highWater, published, queue>>
    BY <1>6 DEF EmitReplay, Deliver, logVars, openVars, windowVars
  <2>2. /\ Head(out) = out[1] /\ Len(out') = Len(out) - 1 /\ Len(out) >= 1
        /\ \A i \in 1 .. Len(out) - 1 : out'[i] = out[i + 1]
        /\ Len(out) \in Nat /\ 1 \in 1 .. Len(out) /\ out[1] \in Items
    BY <2>1, ElementFacts
  <2>3. out[1].sequence \in Nat
    BY <2>2 DEF Items
  <2>4. out[1].event => Gone(out[1].sequence) /\ \A g \in got : g < out[1].sequence
    BY <2>2 DEF TwiceInv
  <2>5. out[1].event => out[1].sequence \notin got
    BY <2>3, <2>4
  <2>6. UNCHANGED <<late, highWater, published, queue>>
    BY <2>1
  <2>7. ASSUME NEW i \in 1 .. Len(out'), out'[i].event
        PROVE  Gone(out'[i].sequence) /\ \A g \in got' : g < out'[i].sequence
    <3>1. i + 1 \in 1 .. Len(out) /\ out'[i] = out[i + 1] /\ 1 < i + 1
      BY <2>2
    <3>2. Gone(out[i + 1].sequence) /\ \A g \in got : g < out[i + 1].sequence
      BY <2>7, <3>1 DEF TwiceInv
    <3>3. out[1].event => out[1].sequence < out[i + 1].sequence
      BY <2>2, <2>7, <3>1 DEF TwiceInv
    <3> QED BY <2>1, <2>2, <3>1, <3>2, <3>3
  <2>8. ASSUME NEW i \in 1 .. Len(out'), NEW j \in 1 .. Len(out'), i < j, out'[i].event, out'[j].event
        PROVE  out'[i].sequence < out'[j].sequence
    <3>1. i + 1 \in 1 .. Len(out) /\ out'[i] = out[i + 1] /\ j + 1 \in 1 .. Len(out) /\ out'[j] = out[j + 1]
          /\ i + 1 < j + 1
      BY <2>2, <2>8
    <3> QED BY <2>8, <3>1 DEF TwiceInv
  <2>9. repeated' = repeated
    BY <2>1, <2>2, <2>5
  <2>10. \A g \in got' : Gone(g)'
    BY <2>1, <2>2, <2>4, <2>6 DEF TwiceInv, Gone
  <2>11. \A i \in 1 .. Len(out') : out'[i].event =>
            (Gone(out[i].sequence))' /\ \A g \in got' : g < out'[i].sequence
    BY <2>6, <2>7 DEF Gone
  <2>12. \A i, j \in 1 .. Len(out') :
            i < j /\ out'[i].event /\ out'[j].event => out'[i].sequence < out'[j].sequence
    BY <2>8
  <2>13. repeated' \subseteq late'
    BY <2>6, <2>9 DEF TwiceInv
  <2> QED BY <2>10, <2>11, <2>12, <2>13 DEF TwiceInv
<1>7. CASE Receive
  <2>1. /\ queue # <<>> /\ out = <<>> /\ out' = out /\ queue' = Tail(queue)
        /\ UNCHANGED <<late, highWater, published>>
    BY <1>7 DEF Receive, Live, logVars, openVars, windowVars
  <2>2. /\ ToSet(queue') = ToSet(queue) \ {Head(queue)} /\ Head(queue) \in Nat /\ highWater \in Nat
        /\ Head(queue) \in ToSet(queue) /\ Head(queue) \in published
    <3>1. queue \in Seq(Nat) /\ Rising(queue)
      BY DEF Types, QueueInv
    <3> QED BY <2>1, <3>1, TailFacts, RisingFacts, ElementFacts DEF Types, QueueInv
  <2>3. \A n \in Nat : Gone(n) => Gone(n)'
    BY <2>1, <2>2 DEF Gone
  <2>4. CASE Head(queue) <= highWater
    <3>1. UNCHANGED <<got, repeated>>
      BY <1>7, <2>4 DEF Receive, clientVars
    <3> QED BY <1>1, <2>1, <2>3, <3>1
  <2>5. CASE ~ (Head(queue) <= highWater)
    <3>1. /\ got' = got \cup {Head(queue)}
          /\ repeated' = IF Head(queue) \in got THEN repeated \cup {Head(queue)} ELSE repeated
      BY <1>7, <2>2, <2>5, ItemFacts DEF Receive, Deliver
    <3>2. Head(queue) \in got => Head(queue) \in late
      BY <2>2, <2>5 DEF TwiceInv, Gone
    <3>3. Head(queue) \in published' /\ Head(queue) \notin ToSet(queue')
      BY <2>1, <2>2
    <3>4. \A g \in got : g \in Nat /\ Gone(g)
      BY DEF Types, TwiceInv
    <3>5. Len(out') = 0
      BY <2>1
    <3>6. ASSUME NEW g \in got' PROVE Gone(g)'
      BY <2>3, <3>1, <3>3, <3>4, <3>6 DEF Gone
    <3>7. repeated' \subseteq late'
      BY <2>1, <3>1, <3>2 DEF TwiceInv
    <3> QED BY <3>5, <3>6, <3>7 DEF TwiceInv
  <2> QED BY <2>4, <2>5
<1>8. CASE session_lag_gap_event \/ stream_lag_gap_event
  <2>1. UNCHANGED <<out, got, repeated, late, highWater, published, queue>>
    BY <1>8 DEF session_lag_gap_event, stream_lag_gap_event, DeliverLag, Deliver, session_event_from_session,
                collaboration_gap_event, collaboration_event, gap_fields, logVars, openVars, windowVars
  <2>2. \A n \in Nat : Gone(n) => Gone(n)'
    BY <2>1 DEF Gone
  <2> QED BY <1>1, <2>1, <2>2
<1>9. CASE Disconnect
  <2>1. out' = <<>> /\ got' = {} /\ repeated' = repeated /\ late' = late
    BY <1>9 DEF Disconnect, windowVars
  <2>2. Len(out') = 0
    BY <2>1
  <2> QED BY <2>1, <2>2 DEF TwiceInv
<1>10. CASE Subscribe \/ ReceiveLagged \/ oldest_retained \/ UNCHANGED vars
  <2>1. UNCHANGED <<out, got, repeated, late, highWater, published, queue>>
    BY <1>10 DEF Subscribe, ReceiveLagged, oldest_retained, vars, logVars, openVars, clientVars, windowVars
  <2>2. \A n \in Nat : Gone(n) => Gone(n)'
    BY <2>1 DEF Gone
  <2> QED BY <1>1, <2>1, <2>2
<1> QED BY <1>2, <1>3, <1>4, <1>5, <1>6, <1>7, <1>8, <1>9, <1>10 DEF Next

-----------------------------------------------------------------------------
(* The theorems.                                                           *)

\* In every reachable state the store and the channel hold what they should,
\* and cursors, replays and gaps pass over nothing: the invariant the two
\* properties follow from.
THEOREM StreamsInvariant == Spec => []Inv
<1>1. Init => Inv
  BY InitInv
<1>2. Inv /\ [Next]_vars => Inv'
  <2> SUFFICES ASSUME Inv, [Next]_vars PROVE Inv'
    OBVIOUS
  <2> QED BY TypesStep, LogStep, QueueStep, PhaseStep, MarkStep, LagStep, CursorStep, CoverStep, TwiceStep
          DEF Inv
<1> QED BY <1>1, <1>2, PTL DEF Spec

\* A client that has read what its streams had for it misses no event, except
\* one that was being published while a stream was opening.
THEOREM StreamsLoseOnlyWhileOpening == Spec => []LossOnlyWhileOpening
<1>1. Inv => LossOnlyWhileOpening
  <2> SUFFICES ASSUME Inv, Drained, NEW n \in published, n \notin window PROVE n \in known
    BY DEF LossOnlyWhileOpening
  <2>1. phase = "open" /\ out = <<>> /\ lagging = None /\ queue = <<>> /\ skipped = 0
    BY DEF Drained, Live
  <2>2. Len(out) = 0 /\ ToSet(queue) = {}
    BY <2>1 DEF ToSet
  <2>3. ~Pending(n)
    BY <2>1, <2>2 DEF Pending
  <2>4. Fine(n)
    BY <2>1, <2>3 DEF Inv, CoverInv
  <2> QED BY <2>4 DEF Fine
<1> QED BY <1>1, StreamsInvariant, PTL

\* A connection delivers no event twice, except one stored between reading
\* the high water mark and copying the store.
THEOREM StreamsRepeatOnlyWhenLate == Spec => []TwiceOnlyWhenLate
<1>1. Inv => TwiceOnlyWhenLate
  BY DEF Inv, TwiceInv, TwiceOnlyWhenLate
<1> QED BY <1>1, StreamsInvariant, PTL

----------------------------------------------------------------------------
(* The audio engine's routes (AudioDsp).                                   *)
(*                                                                         *)
(* A depth-first search expands a node once, so that the boundary it keeps *)
(* for a node is that of one route to it, not of every route.  RouteFound  *)
(* says what its answer is worth all the same: it finds the output if some *)
(* route leads there, and the boundary it reports is on such a route, or   *)
(* there is a route without one.  SearchInv is what every round of the     *)
(* search keeps; its last part counts: a round takes a frame, and a node's *)
(* edges push theirs when the node is expanded, which happens once.        *)

\* Only is what its recursive equation says.
LEMMA OnlyStep ==
    ASSUME NEW U, NEW s \in Seq(U), NEW S
    PROVE  \E kept : /\ Only(s, S) = kept[Len(s)]
                     /\ kept[0] = <<>>
                     /\ \A i \in 1 .. Len(s) :
                          kept[i] = IF s[i] \in S THEN Append(kept[i - 1], s[i]) ELSE kept[i - 1]
<1> DEFINE After(x, i) == IF s[i] \in S THEN Append(x, s[i]) ELSE x
           Rounds(f, n) == f = [i \in 0 .. n |-> IF i = 0 THEN <<>> ELSE After(f[i - 1], i)]
           Defined == {n \in Nat : \E f : Rounds(f, n)}
<1>1. 0 \in Defined
  <2>1. Rounds([i \in 0 .. 0 |-> <<>>], 0)
    OBVIOUS
  <2> QED BY <2>1
<1>2. ASSUME NEW n \in Nat, n \in Defined PROVE n + 1 \in Defined
  <2>1. PICK f : Rounds(f, n)
    BY <1>2
  <2> DEFINE h == [i \in 0 .. n + 1 |-> IF i \in 0 .. n THEN f[i] ELSE After(f[n], n + 1)]
  <2>2. \A i \in 0 .. n : h[i] = f[i] /\ f[i] = IF i = 0 THEN <<>> ELSE After(f[i - 1], i)
    <3>1. ASSUME NEW i \in 0 .. n PROVE f[i] = IF i = 0 THEN <<>> ELSE After(f[i - 1], i)
      <4> HIDE DEF After
      <4> QED BY <2>1
    <3>2. ASSUME NEW i \in 0 .. n PROVE h[i] = f[i]
      <4> i \in 0 .. n + 1
        OBVIOUS
      <4> HIDE DEF After
      <4> QED OBVIOUS
    <3> HIDE DEF After, h
    <3> QED BY <3>1, <3>2
  <2>3. h[n + 1] = After(f[n], n + 1) /\ h[n] = f[n]
    <3> HIDE DEF After
    <3> QED OBVIOUS
  <2>4. ASSUME NEW i \in 0 .. n + 1 PROVE h[i] = IF i = 0 THEN <<>> ELSE After(h[i - 1], i)
    <3> HIDE DEF After, h
    <3>1. CASE i = n + 1
      <4>1. i # 0 /\ i - 1 = n
        BY <3>1
      <4> QED BY <3>1, <4>1, <2>3
    <3>2. CASE i # n + 1 /\ i # 0
      <4>1. i \in 0 .. n /\ i - 1 \in 0 .. n
        BY <3>2
      <4>2. h[i - 1] = f[i - 1] /\ h[i] = f[i]
        BY <4>1, <2>2
      <4>3. f[i] = After(f[i - 1], i)
        BY <4>1, <2>2, <3>2
      <4> QED BY <4>2, <4>3, <3>2
    <3>3. CASE i = 0
      <4>1. i \in 0 .. n
        BY <3>3
      <4> QED BY <4>1, <3>3, <2>2
    <3> QED BY <3>1, <3>2, <3>3
  <2>5. Rounds(h, n + 1)
    <3>1. \A i \in 0 .. n + 1 : h[i] = IF i = 0 THEN <<>> ELSE After(h[i - 1], i)
      BY <2>4
    <3> HIDE DEF After
    <3> QED BY <3>1
  <2> HIDE DEF h, Rounds
  <2> QED BY <2>5
<1>3. PICK f : Rounds(f, Len(s)) /\ Only(s, S) = f[Len(s)]
  <2>1. Len(s) \in Defined
    <3> HIDE DEF Defined
    <3>1. Nat \subseteq Defined
      BY <1>1, <1>2, NatSetInduction
    <3> QED BY <3>1
  <2> DEFINE F == CHOOSE f : Rounds(f, Len(s))
  <2>2. Rounds(F, Len(s))
    BY <2>1
  <2>3. Only(s, S) = F[Len(s)]
    BY DEF Only
  <2> QED BY <2>2, <2>3
<1>4. f[0] = <<>>
  BY <1>3
<1>5. ASSUME NEW i \in 1 .. Len(s) PROVE f[i] = After(f[i - 1], i)
  <2> i \in 0 .. Len(s) /\ i # 0
    OBVIOUS
  <2> HIDE DEF After
  <2> QED BY <1>3
<1> QED BY <1>3, <1>4, <1>5

\* Where the elements that are kept stood: no two of them in one place.
Stood(t, s, place) ==
    /\ place \in [1 .. Len(t) -> 1 .. Len(s)]
    /\ \A i \in 1 .. Len(t) : t[i] = s[place[i]]
    /\ \A i, j \in 1 .. Len(t) : i < j => place[i] < place[j]

\* Only keeps just the elements of the set, each from a place of its own.
LEMMA OnlyFacts ==
    ASSUME NEW U, NEW s \in Seq(U), NEW S
    PROVE  /\ Only(s, S) \in Seq(U)
           /\ ToSet(Only(s, S)) = ToSet(s) \cap S
           /\ \E place : Stood(Only(s, S), s, place)
<1>1. PICK kept : /\ Only(s, S) = kept[Len(s)]
                  /\ kept[0] = <<>>
                  /\ \A i \in 1 .. Len(s) :
                       kept[i] = IF s[i] \in S THEN Append(kept[i - 1], s[i]) ELSE kept[i - 1]
  BY OnlyStep
<1> DEFINE Sofar(i) == {s[j] : j \in 1 .. i} \cap S
           Fits(i) == /\ kept[i] \in Seq(U) /\ ToSet(kept[i]) = Sofar(i)
                      /\ \E place : Stood(kept[i], s, place) /\ \A k \in 1 .. Len(kept[i]) : place[k] <= i
           Good == {i \in Nat : i <= Len(s) => Fits(i)}
<1>0. Len(s) \in Nat
  OBVIOUS
<1>2. 0 \in Good
  <2>1. kept[0] \in Seq(U) /\ ToSet(kept[0]) = {} /\ Len(kept[0]) = 0
    BY <1>1 DEF ToSet
  <2>2. Sofar(0) = {}
    OBVIOUS
  <2>3. Stood(kept[0], s, [i \in 1 .. 0 |-> 1])
    BY <1>0, <2>1 DEF Stood
  <2>4. \A k \in 1 .. Len(kept[0]) : [i \in 1 .. 0 |-> 1][k] <= 0
    BY <2>1
  <2> HIDE DEF Sofar
  <2> QED BY <2>1, <2>2, <2>3, <2>4
<1>3. ASSUME NEW n \in Nat, n \in Good PROVE n + 1 \in Good
  <2> SUFFICES ASSUME n + 1 <= Len(s) PROVE Fits(n + 1)
    OBVIOUS
  <2>1. n + 1 \in 1 .. Len(s) /\ (n + 1) - 1 = n
    BY <1>0
  <2>2. Fits(n)
    BY <1>0, <1>3
  <2>3. kept[n + 1] = IF s[n + 1] \in S THEN Append(kept[n], s[n + 1]) ELSE kept[n]
    BY <1>1, <2>1
  <2>4. Sofar(n + 1) = IF s[n + 1] \in S THEN Sofar(n) \cup {s[n + 1]} ELSE Sofar(n)
    <3>1. 1 .. n + 1 = 1 .. n \cup {n + 1}
      OBVIOUS
    <3> QED BY <3>1
  <2> HIDE DEF Sofar
  <2>5. PICK place : Stood(kept[n], s, place) /\ \A k \in 1 .. Len(kept[n]) : place[k] <= n
    BY <2>2
  <2>6. CASE s[n + 1] \in S
    <3> DEFINE t == kept[n + 1]
               m == Len(kept[n])
               to == [k \in 1 .. m + 1 |-> IF k = m + 1 THEN n + 1 ELSE place[k]]
    <3>0. m \in Nat
      BY <2>2
    <3>1. /\ t \in Seq(U) /\ Len(t) = m + 1 /\ ToSet(t) = Sofar(n) \cup {s[n + 1]}
          /\ (\A i \in 1 .. m : t[i] = kept[n][i]) /\ t[m + 1] = s[n + 1]
      <4>1. s[n + 1] \in U
        BY <2>1
      <4>2. ToSet(Append(kept[n], s[n + 1])) = ToSet(kept[n]) \cup {s[n + 1]}
        BY <2>2, <4>1, ToSetOfAppend
      <4> QED BY <2>2, <2>3, <2>6, <4>1, <4>2
    <3> HIDE DEF t, m
    <3>2. \A k \in 1 .. m : k \in 1 .. m + 1 /\ k # m + 1 /\ to[k] = place[k] /\ place[k] \in 1 .. Len(s) /\ place[k] <= n
      <4>1. place \in [1 .. m -> 1 .. Len(s)] /\ \A k \in 1 .. m : place[k] <= n
        BY <2>5 DEF Stood, m
      <4>2. ASSUME NEW k \in 1 .. m PROVE k \in 1 .. m + 1 /\ k # m + 1 /\ to[k] = place[k]
        BY <3>0
      <4> QED BY <4>1, <4>2
    <3>3. to[m + 1] = n + 1
      BY <3>0
    <3>4. \A k \in 1 .. m + 1 : k = m + 1 \/ k \in 1 .. m
      BY <3>0
    <3>5. to \in [1 .. m + 1 -> 1 .. Len(s)]
      BY <2>1, <3>2, <3>4
    <3> HIDE DEF to
    <3>6. \A i \in 1 .. m + 1 : t[i] = s[to[i]] /\ to[i] <= n + 1
      <4> SUFFICES ASSUME NEW i \in 1 .. m + 1 PROVE t[i] = s[to[i]] /\ to[i] <= n + 1
        OBVIOUS
      <4>1. CASE i \in 1 .. m
        <5>1. t[i] = kept[n][i] /\ kept[n][i] = s[place[i]]
          BY <2>5, <3>1, <4>1 DEF Stood, m
        <5> QED BY <3>2, <4>1, <5>1, <1>0
      <4>2. CASE i = m + 1
        BY <3>1, <3>3, <4>2
      <4> QED BY <3>4, <4>1, <4>2
    <3>7. \A i, j \in 1 .. m + 1 : i < j => to[i] < to[j]
      <4> SUFFICES ASSUME NEW i \in 1 .. m + 1, NEW j \in 1 .. m + 1, i < j PROVE to[i] < to[j]
        OBVIOUS
      <4>1. i \in 1 .. m
        BY <3>0
      <4>2. CASE j \in 1 .. m
        BY <2>5, <3>2, <4>1, <4>2 DEF Stood, m
      <4>3. CASE j = m + 1
        BY <3>2, <3>3, <4>1, <4>3, <1>0
      <4> QED BY <3>4, <4>2, <4>3
    <3>8. Stood(t, s, to)
      BY <3>1, <3>5, <3>6, <3>7 DEF Stood
    <3> QED BY <2>4, <2>6, <3>1, <3>6, <3>8 DEF t
  <2>7. CASE s[n + 1] \notin S
    <3>1. kept[n + 1] = kept[n] /\ Sofar(n + 1) = Sofar(n)
      BY <2>3, <2>4, <2>7
    <3>2. \A k \in 1 .. Len(kept[n]) : place[k] <= n + 1
      BY <2>5 DEF Stood
    <3> QED BY <2>2, <2>5, <3>1, <3>2
  <2> QED BY <2>6, <2>7
<1>4. Fits(Len(s))
  <2>1. Nat \subseteq Good
    <3> HIDE DEF Good
    <3> QED BY <1>2, <1>3, NatSetInduction
  <2> HIDE DEF Fits
  <2> QED BY <1>0, <2>1
<1>5. Sofar(Len(s)) = ToSet(s) \cap S
  BY DEF ToSet
<1> QED BY <1>1, <1>4, <1>5

\* The edges of a graph, in their order.
LEMMA GraphFacts ==
    ASSUME NEW g, IsGraph(g)
    PROVE  /\ g.edges \in Seq(ToSet(g.edges)) /\ Len(g.edges) \in Nat
           /\ \A i \in 1 .. Len(g.edges) : g.edges[i] \in ToSet(g.edges)
           /\ \A e \in SignalEdges(g) : e \in ToSet(g.edges) /\ e.from \in Nodes(g) /\ e.to \in Nodes(g)
BY DEF IsGraph, SignalEdges

\* Every node is reached from itself.
LEMMA LeadsNowhere ==
    ASSUME NEW g, NEW es, NEW a
    PROVE  Leads(g, es, a, a)
BY DEF Leads

\* A route goes on along an edge from its end.
LEMMA LeadsOn ==
    ASSUME NEW g, NEW es, NEW a, NEW b, Leads(g, es, a, b), NEW e \in es, e.from = b
    PROVE  Leads(g, es, a, e.to)
BY DEF Leads

\* What a frame's boundary is worth: none means a route without one, and one
\* means a route with one.
FrameSound(g, input, frame) ==
    /\ Leads(g, SignalEdges(g), input, frame.node)
    /\ frame.bridge = <<>> => Leads(g, Unbridged(g), input, frame.node)
    /\ frame.bridge # <<>> => BridgedRoute(g, input, frame.node)

SearchFrames(g) == [node : Nodes(g), bridge : Seq(Nodes(g))]
NextFrame(g, e, frame) == [node |-> e.to, bridge |-> next_bridge(g, e.to, frame.bridge)]

\* An edge takes a sound frame to a sound one.
LEMMA FrameGoesOn ==
    ASSUME NEW g, IsGraph(g), NEW input, NEW frame \in SearchFrames(g), FrameSound(g, input, frame),
           NEW e \in SignalEdges(g), e.from = frame.node
    PROVE  NextFrame(g, e, frame) \in SearchFrames(g) /\ FrameSound(g, input, NextFrame(g, e, frame))
<1> DEFINE next == NextFrame(g, e, frame)
<1>1. e.to \in Nodes(g) /\ frame.bridge \in Seq(Nodes(g))
  BY GraphFacts DEF SearchFrames
<1>2. next.node = e.to /\ next.bridge = next_bridge(g, e.to, frame.bridge)
  BY DEF NextFrame
<1>3. next \in SearchFrames(g)
  <2>1. next_bridge(g, e.to, frame.bridge) \in Seq(Nodes(g))
    BY <1>1 DEF next_bridge
  <2> QED BY <1>1, <2>1 DEF NextFrame, SearchFrames
<1>4. Leads(g, SignalEdges(g), input, e.to)
  BY LeadsOn DEF FrameSound
<1>5. CASE is_audio_clock_boundary_kind(g.kind[e.to])
  <2>1. next.bridge = <<e.to>> /\ <<e.to>> # <<>>
    BY <1>2, <1>5 DEF next_bridge
  <2>2. BridgedRoute(g, input, e.to)
    BY <1>1, <1>4, <1>5, LeadsNowhere DEF BridgedRoute
  <2> HIDE DEF next
  <2> QED BY <1>2, <1>3, <1>4, <2>1, <2>2 DEF FrameSound, next
<1>6. CASE ~ is_audio_clock_boundary_kind(g.kind[e.to])
  <2>1. next.bridge = frame.bridge
    BY <1>2, <1>6 DEF next_bridge
  <2>2. ASSUME frame.bridge = <<>> PROVE Leads(g, Unbridged(g), input, e.to)
    <3>1. e \in Unbridged(g)
      BY <1>6 DEF Unbridged
    <3> QED BY <2>2, <3>1, LeadsOn DEF FrameSound
  <2>3. ASSUME frame.bridge # <<>> PROVE BridgedRoute(g, input, e.to)
    <3>1. PICK m \in Nodes(g) : /\ is_audio_clock_boundary_kind(g.kind[m])
                                /\ Leads(g, SignalEdges(g), input, m)
                                /\ Leads(g, SignalEdges(g), m, frame.node)
      BY <2>3 DEF FrameSound, BridgedRoute
    <3>2. Leads(g, SignalEdges(g), m, e.to)
      BY <3>1, LeadsOn
    <3> QED BY <3>1, <3>2 DEF BridgedRoute
  <2> HIDE DEF next
  <2> QED BY <1>2, <1>3, <1>4, <2>1, <2>2, <2>3 DEF FrameSound, next
<1> QED BY <1>5, <1>6

\* The places of the edges from a node, and of those from nodes not yet expanded.
EdgesFrom(g, n) == {i \in 1 .. Len(g.edges) : g.edges[i].from = n}
Unspent(g, visited) == {i \in 1 .. Len(g.edges) : g.edges[i].from \notin visited}

LEMMA PlacesAreFinite ==
    ASSUME NEW g, IsGraph(g), NEW n, NEW visited
    PROVE  /\ IsFiniteSet(EdgesFrom(g, n)) /\ Cardinality(EdgesFrom(g, n)) \in Nat
           /\ IsFiniteSet(Unspent(g, visited)) /\ Cardinality(Unspent(g, visited)) \in Nat
<1>1. IsFiniteSet(1 .. Len(g.edges))
  BY GraphFacts, FS_Interval
<1>2. EdgesFrom(g, n) \subseteq 1 .. Len(g.edges) /\ Unspent(g, visited) \subseteq 1 .. Len(g.edges)
  BY DEF EdgesFrom, Unspent
<1>3. IsFiniteSet(EdgesFrom(g, n)) /\ IsFiniteSet(Unspent(g, visited))
  BY <1>1, <1>2, FS_Subset
<1> QED BY <1>3, FS_CardinalityType

\* Expanding a node pushes a sound frame for each of its signal edges, and no
\* more frames than it has edges.
LEMMA PushedFacts ==
    ASSUME NEW g, IsGraph(g), NEW input, NEW frame \in SearchFrames(g), FrameSound(g, input, frame)
    PROVE  /\ Pushed(g, frame) \in Seq(SearchFrames(g))
           /\ \A i \in 1 .. Len(Pushed(g, frame)) : FrameSound(g, input, Pushed(g, frame)[i])
           /\ \A e \in SignalEdges(g) : e.from = frame.node =>
                \E i \in 1 .. Len(Pushed(g, frame)) : Pushed(g, frame)[i].node = e.to
           /\ Len(Pushed(g, frame)) <= Cardinality(EdgesFrom(g, frame.node))
<1> DEFINE S == {e \in SignalEdges(g) : e.from = frame.node}
           taken == Only(g.edges, S)
           U == ToSet(g.edges)
<1>1. g.edges \in Seq(U)
  BY GraphFacts
<1>2. taken \in Seq(U) /\ ToSet(taken) = U \cap S /\ \E place : Stood(taken, g.edges, place)
  <2> HIDE DEF S, U
  <2>1. taken \in Seq(U) /\ ToSet(taken) = ToSet(g.edges) \cap S /\ \E place : Stood(taken, g.edges, place)
    BY <1>1, OnlyFacts
  <2> QED BY <2>1 DEF U
<1>3. Pushed(g, frame) = [i \in 1 .. Len(taken) |-> NextFrame(g, taken[i], frame)]
  BY DEF Pushed, NextFrame
<1> HIDE DEF taken
<1>4. Len(taken) \in Nat /\ \A i \in 1 .. Len(taken) : taken[i] \in ToSet(taken)
  BY <1>2 DEF ToSet
<1>5. \A i \in 1 .. Len(taken) : taken[i] \in SignalEdges(g) /\ taken[i].from = frame.node
  BY <1>2, <1>4
<1>6. \A i \in 1 .. Len(taken) : /\ NextFrame(g, taken[i], frame) \in SearchFrames(g)
                               /\ FrameSound(g, input, NextFrame(g, taken[i], frame))
  BY <1>5, FrameGoesOn
<1>7. /\ Pushed(g, frame) \in Seq(SearchFrames(g)) /\ Len(Pushed(g, frame)) = Len(taken)
      /\ \A i \in 1 .. Len(taken) : Pushed(g, frame)[i] = NextFrame(g, taken[i], frame)
  <2>1. Pushed(g, frame) \in [1 .. Len(taken) -> SearchFrames(g)]
    BY <1>3, <1>6
  <2> QED BY <1>3, <1>4, <2>1
<1>8. ASSUME NEW e \in SignalEdges(g), e.from = frame.node
      PROVE  \E i \in 1 .. Len(taken) : Pushed(g, frame)[i].node = e.to
  <2>1. e \in ToSet(taken)
    BY <1>2, <1>8, GraphFacts
  <2>2. PICK i \in 1 .. Len(taken) : taken[i] = e
    BY <1>2, <2>1 DEF ToSet
  <2>3. Pushed(g, frame)[i] = NextFrame(g, e, frame)
    BY <1>7, <2>2
  <2>4. NextFrame(g, e, frame).node = e.to
    BY DEF NextFrame
  <2> QED BY <2>3, <2>4
<1>9. Len(taken) <= Cardinality(EdgesFrom(g, frame.node))
  <2>1. PICK place : Stood(taken, g.edges, place)
    BY <1>2
  <2>2. place \in [1 .. Len(taken) -> EdgesFrom(g, frame.node)]
    BY <1>5, <2>1 DEF Stood, EdgesFrom
  <2>3. \A i, j \in 1 .. Len(taken) : place[i] = place[j] => i = j
    <3> SUFFICES ASSUME NEW i \in 1 .. Len(taken), NEW j \in 1 .. Len(taken), place[i] = place[j], i # j PROVE FALSE
      OBVIOUS
    <3>1. i < j \/ j < i
      BY <1>4
    <3>2. place[i] \in Int /\ place[j] \in Int
      BY <2>1 DEF Stood
    <3> QED BY <2>1, <3>1, <3>2 DEF Stood
  <2>4. place \in Injection(1 .. Len(taken), EdgesFrom(g, frame.node))
    BY <2>2, <2>3 DEF Injection, IsInjective
  <2>5. IsFiniteSet(EdgesFrom(g, frame.node))
    BY PlacesAreFinite
  <2>6. Cardinality(1 .. Len(taken)) <= Cardinality(EdgesFrom(g, frame.node))
    BY <2>4, <2>5, FS_Injection
  <2>7. Cardinality(1 .. Len(taken)) = Len(taken)
    <3> DEFINE n == Len(taken)
    <3>1. n \in Nat
      BY <1>4
    <3> HIDE DEF n
    <3>2. Cardinality(1 .. n) = IF 1 > n THEN 0 ELSE n - 1 + 1
      BY <3>1, FS_Interval
    <3>3. Cardinality(1 .. n) = n
      BY <3>1, <3>2
    <3> QED BY <3>3 DEF n
  <2> QED BY <2>6, <2>7
<1> QED BY <1>6, <1>7, <1>8, <1>9

----------------------------------------------------------------------------
(* What a round of the search keeps.                                       *)

SearchStates(g) ==
    [stack : Seq(SearchFrames(g)), visited : SUBSET Nodes(g), found : BOOLEAN, bridge : Seq(Nodes(g))]

\* The nodes that were expanded or wait on the stack.
Met(s) == s.visited \cup {s.stack[i].node : i \in 1 .. Len(s.stack)}

\* The answer as the frame that gave it.
Answer(s, output) == [node |-> output, bridge |-> s.bridge]

SearchFits(g, input, output, s) ==
    /\ s \in SearchStates(g)
    /\ \A i \in 1 .. Len(s.stack) : FrameSound(g, input, s.stack[i])
    /\ output \notin s.visited
    /\ input \in Met(s)
    /\ \A e \in SignalEdges(g) : e.from \in s.visited => e.to \in Met(s)
    /\ s.found => FrameSound(g, input, Answer(s, output))

\* Rounds that are left are enough for the frames there are and will be.
InTime(g, k, s) ==
    s.found \/ s.stack = <<>> \/ Len(s.stack) + Cardinality(Unspent(g, s.visited)) + k <= Len(g.edges) + 1

SearchInv(g, input, output, k, s) == SearchFits(g, input, output, s) /\ InTime(g, k, s)

SearchStart(input) ==
    [stack |-> <<[node |-> input, bridge |-> <<>>]>>, visited |-> {}, found |-> FALSE, bridge |-> <<>>]

\* The search begins at the input.
LEMMA SearchBegins ==
    ASSUME NEW g, IsGraph(g), NEW input \in Nodes(g), NEW output \in Nodes(g)
    PROVE  SearchInv(g, input, output, 0, SearchStart(input))
<1> DEFINE frame == [node |-> input, bridge |-> <<>>]
           s == SearchStart(input)
<1>1. frame \in SearchFrames(g) /\ frame.node = input /\ frame.bridge = <<>>
  BY DEF SearchFrames
<1>2. FrameSound(g, input, frame)
  <2> HIDE DEF frame
  <2> QED BY <1>1, LeadsNowhere DEF FrameSound
<1>3. s.stack = <<frame>> /\ s.visited = {} /\ s.found = FALSE /\ s.bridge = <<>>
  BY DEF SearchStart
<1>4. s \in SearchStates(g)
  <2> HIDE DEF frame
  <2>1. <<frame>> \in Seq(SearchFrames(g))
    BY <1>1
  <2> QED BY <2>1 DEF SearchStart, SearchStates, frame
<1> HIDE DEF frame, s
<1>5. Len(s.stack) = 1 /\ s.stack[1] = frame
  BY <1>3
<1>6. input \in Met(s)
  BY <1>1, <1>5 DEF Met
<1>7. Cardinality(Unspent(g, s.visited)) = Len(g.edges)
  <2>1. Unspent(g, s.visited) = 1 .. Len(g.edges)
    BY <1>3 DEF Unspent
  <2> DEFINE n == Len(g.edges)
  <2>2. n \in Nat
    BY GraphFacts
  <2> HIDE DEF n
  <2>3. Cardinality(1 .. n) = IF 1 > n THEN 0 ELSE n - 1 + 1
    BY <2>2, FS_Interval
  <2>4. Cardinality(1 .. n) = n
    BY <2>2, <2>3
  <2> QED BY <2>1, <2>4 DEF n
<1>8. InTime(g, 0, s)
  BY <1>5, <1>7, GraphFacts DEF InTime
<1>9. \A i \in 1 .. Len(s.stack) : FrameSound(g, input, s.stack[i])
  BY <1>2, <1>5
<1> QED BY <1>3, <1>4, <1>6, <1>8, <1>9 DEF SearchInv, SearchFits, s

\* The frame on top of the stack and the frames below it.
LEMMA StackFacts ==
    ASSUME NEW F, NEW stack \in Seq(F), stack # <<>>
    PROVE  /\ Last(stack) \in F /\ Front(stack) \in Seq(F) /\ Len(Front(stack)) = Len(stack) - 1
           /\ Len(stack) \in Nat \ {0}
           /\ \A i \in 1 .. Len(Front(stack)) : i \in 1 .. Len(stack) /\ Front(stack)[i] = stack[i]
           /\ \A i \in 1 .. Len(stack) : i \in 1 .. Len(Front(stack)) \/ stack[i] = Last(stack)
           /\ \E i \in 1 .. Len(stack) : stack[i] = Last(stack)
<1>1. Len(stack) \in Nat \ {0}
  OBVIOUS
<1>2. Last(stack) = stack[Len(stack)] /\ Last(stack) \in F
  BY <1>1 DEF Last
<1>3. /\ Front(stack) \in Seq(F) /\ Len(Front(stack)) = Len(stack) - 1
      /\ \A i \in 1 .. Len(stack) - 1 : Front(stack)[i] = stack[i]
  <2> DEFINE n == Len(stack) - 1
  <2>1. n \in Nat /\ n <= Len(stack) /\ Front(stack) = SubSeq(stack, 1, n)
    BY <1>1 DEF Front
  <2> HIDE DEF n
  <2>2. SubSeq(stack, 1, n) \in Seq(F) /\ Len(SubSeq(stack, 1, n)) = n
        /\ \A i \in 1 .. n : SubSeq(stack, 1, n)[i] = stack[i]
    BY <2>1
  <2> QED BY <2>1, <2>2 DEF n
<1> QED BY <1>1, <1>2, <1>3

\* Adding frames that the edges of a node pushed, on top of those below its own.
LEMMA StackGrows ==
    ASSUME NEW F, NEW s \in Seq(F), NEW t \in Seq(F)
    PROVE  /\ s \o t \in Seq(F) /\ Len(s \o t) = Len(s) + Len(t)
           /\ \A i \in 1 .. Len(s) : i \in 1 .. Len(s \o t) /\ (s \o t)[i] = s[i]
           /\ \A i \in 1 .. Len(t) : Len(s) + i \in 1 .. Len(s \o t) /\ (s \o t)[Len(s) + i] = t[i]
           /\ \A i \in 1 .. Len(s \o t) : i \in 1 .. Len(s) \/ i - Len(s) \in 1 .. Len(t)
           /\ \A i \in 1 .. Len(s \o t) : i \notin 1 .. Len(s) => (s \o t)[i] = t[i - Len(s)]
<1>1. /\ s \o t \in Seq(F) /\ Len(s \o t) = Len(s) + Len(t) /\ Len(s) \in Nat /\ Len(t) \in Nat
      /\ \A i \in 1 .. Len(s) : (s \o t)[i] = s[i]
      /\ \A i \in 1 .. Len(t) : (s \o t)[Len(s) + i] = t[i]
  OBVIOUS
<1>2. \A i \in 1 .. Len(s \o t) : i \in 1 .. Len(s) \/ i - Len(s) \in 1 .. Len(t)
  BY <1>1
<1>3. ASSUME NEW i \in 1 .. Len(s \o t), i \notin 1 .. Len(s) PROVE (s \o t)[i] = t[i - Len(s)]
  <2>1. i - Len(s) \in 1 .. Len(t) /\ Len(s) + (i - Len(s)) = i
    BY <1>1, <1>2, <1>3
  <2> QED BY <1>1, <2>1
<1> QED BY <1>1, <1>2, <1>3

\* The edges of an expanded node are spent.
LEMMA ExpandingSpends ==
    ASSUME NEW g, IsGraph(g), NEW n, NEW visited, n \notin visited
    PROVE  Cardinality(Unspent(g, visited)) =
             Cardinality(Unspent(g, visited \cup {n})) + Cardinality(EdgesFrom(g, n))
<1> DEFINE A == Unspent(g, visited \cup {n})
           B == EdgesFrom(g, n)
<1>1. Unspent(g, visited) = A \cup B /\ A \cap B = {}
  BY DEF Unspent, EdgesFrom
<1>2. IsFiniteSet(A) /\ IsFiniteSet(B) /\ Cardinality(A) \in Nat /\ Cardinality(B) \in Nat
  BY PlacesAreFinite
<1> HIDE DEF A, B
<1>3. Cardinality(A \cup B) = Cardinality(A) + Cardinality(B) - Cardinality(A \cap B)
  BY <1>2, FS_Union
<1>4. Cardinality(A \cap B) = 0
  BY <1>1, FS_EmptySet
<1>5. Cardinality(A \cup B) = Cardinality(A) + Cardinality(B)
  BY <1>2, <1>3, <1>4
<1> QED BY <1>1, <1>5 DEF A, B

\* Every round keeps it.
LEMMA RoundKeeps ==
    ASSUME NEW g, IsGraph(g), NEW input \in Nodes(g), NEW output \in Nodes(g), NEW k \in Nat, NEW s,
           SearchInv(g, input, output, k, s)
    PROVE  SearchInv(g, input, output, k + 1, SearchRound(g, output, s))
<1> DEFINE next == SearchRound(g, output, s)
           top == Last(s.stack)
           F == SearchFrames(g)
<1>1. /\ s.stack \in Seq(F) /\ s.visited \in SUBSET Nodes(g) /\ s.found \in BOOLEAN /\ s.bridge \in Seq(Nodes(g))
      /\ s = [stack |-> s.stack, visited |-> s.visited, found |-> s.found, bridge |-> s.bridge]
  BY DEF SearchInv, SearchFits, SearchStates
<1>2. CASE s.found
  <2>1. next = s
    BY <1>2 DEF SearchRound
  <2> QED BY <1>2, <2>1 DEF SearchInv, InTime
<1>3. CASE s.stack = <<>>
  <2>1. next = s
    BY <1>3 DEF SearchRound
  <2> QED BY <1>3, <2>1 DEF SearchInv, InTime
<1>4. CASE ~ s.found /\ s.stack # <<>>
  <2>1. /\ top \in F /\ Front(s.stack) \in Seq(F) /\ Len(Front(s.stack)) = Len(s.stack) - 1
        /\ Len(s.stack) \in Nat \ {0}
        /\ \A i \in 1 .. Len(Front(s.stack)) : i \in 1 .. Len(s.stack) /\ Front(s.stack)[i] = s.stack[i]
        /\ \A i \in 1 .. Len(s.stack) : i \in 1 .. Len(Front(s.stack)) \/ s.stack[i] = top
        /\ \E i \in 1 .. Len(s.stack) : s.stack[i] = top
    <3> HIDE DEF F
    <3> QED BY <1>1, <1>4, StackFacts
  <2>2. FrameSound(g, input, top) /\ top.node \in Nodes(g) /\ top.bridge \in Seq(Nodes(g))
    <3>1. FrameSound(g, input, top)
      BY <2>1 DEF SearchInv, SearchFits
    <3> QED BY <2>1, <3>1 DEF SearchFrames
  <2>3. Len(s.stack) + Cardinality(Unspent(g, s.visited)) + k <= Len(g.edges) + 1
    BY <1>4 DEF SearchInv, InTime
  <2>4. Cardinality(Unspent(g, s.visited)) \in Nat /\ Len(g.edges) \in Nat
    BY PlacesAreFinite, GraphFacts
  <2> HIDE DEF top, F
  <2>5. CASE top.node \in s.visited
    <3>1. next = [s EXCEPT !.stack = Front(s.stack)]
      BY <1>4, <2>5 DEF SearchRound, top
    <3> HIDE DEF next
    <3>2. next.stack = Front(s.stack) /\ next.visited = s.visited /\ next.found = s.found /\ next.bridge = s.bridge
      BY <1>1, <3>1
    <3>3. next \in SearchStates(g)
      BY <1>1, <2>1, <3>1 DEF SearchStates, F
    <3>4. Met(s) \subseteq Met(next)
      <4> SUFFICES ASSUME NEW i \in 1 .. Len(s.stack) PROVE s.stack[i].node \in Met(next)
        BY <3>2 DEF Met
      <4>1. CASE s.stack[i] = top
        BY <2>5, <3>2, <4>1 DEF Met
      <4>2. CASE i \in 1 .. Len(Front(s.stack))
        BY <2>1, <3>2, <4>2 DEF Met
      <4> QED BY <2>1, <4>1, <4>2
    <3>5. \A i \in 1 .. Len(next.stack) : FrameSound(g, input, next.stack[i])
      BY <2>1, <3>2 DEF SearchInv, SearchFits
    <3>6. SearchFits(g, input, output, next)
      BY <1>4, <3>2, <3>3, <3>4, <3>5 DEF SearchInv, SearchFits
    <3>7. InTime(g, k + 1, next)
      <4>1. Len(next.stack) + Cardinality(Unspent(g, next.visited)) + (k + 1) <= Len(g.edges) + 1
        BY <2>1, <2>3, <2>4, <3>2
      <4> QED BY <4>1 DEF InTime
    <3> QED BY <3>6, <3>7 DEF SearchInv, next
  <2>6. CASE top.node \notin s.visited /\ top.node = output
    <3>1. next = [s EXCEPT !.found = TRUE, !.bridge = top.bridge]
      BY <1>4, <2>6 DEF SearchRound, top
    <3> HIDE DEF next
    <3>2. next.stack = s.stack /\ next.visited = s.visited /\ next.found = TRUE /\ next.bridge = top.bridge
      BY <1>1, <3>1
    <3>3. next \in SearchStates(g)
      BY <1>1, <2>2, <3>1 DEF SearchStates, F
    <3>4. Met(next) = Met(s)
      BY <3>2 DEF Met
    <3>5. Answer(next, output).node = top.node /\ Answer(next, output).bridge = top.bridge
      BY <2>6, <3>2 DEF Answer
    <3>6. FrameSound(g, input, Answer(next, output))
      BY <2>2, <3>5 DEF FrameSound
    <3>7. SearchFits(g, input, output, next)
      BY <3>2, <3>3, <3>4, <3>6 DEF SearchInv, SearchFits
    <3> QED BY <3>2, <3>7 DEF SearchInv, InTime, next
  <2>7. CASE top.node \notin s.visited /\ top.node # output
    <3> DEFINE front == Front(s.stack)
               pushed == Pushed(g, top)
    <3>1. next = [s EXCEPT !.stack = front \o pushed, !.visited = @ \cup {top.node}]
      BY <1>4, <2>7 DEF SearchRound, top
    <3>2. /\ pushed \in Seq(F)
          /\ \A i \in 1 .. Len(pushed) : FrameSound(g, input, pushed[i])
          /\ \A e \in SignalEdges(g) : e.from = top.node => \E i \in 1 .. Len(pushed) : pushed[i].node = e.to
          /\ Len(pushed) <= Cardinality(EdgesFrom(g, top.node))
      BY <2>1, <2>2, PushedFacts DEF F
    <3>3. /\ front \o pushed \in Seq(F) /\ Len(front \o pushed) = Len(front) + Len(pushed)
          /\ \A i \in 1 .. Len(front) : i \in 1 .. Len(front \o pushed) /\ (front \o pushed)[i] = front[i]
          /\ \A i \in 1 .. Len(pushed) :
               Len(front) + i \in 1 .. Len(front \o pushed) /\ (front \o pushed)[Len(front) + i] = pushed[i]
          /\ \A i \in 1 .. Len(front \o pushed) : i \in 1 .. Len(front) \/ i - Len(front) \in 1 .. Len(pushed)
          /\ \A i \in 1 .. Len(front \o pushed) : i \notin 1 .. Len(front) => (front \o pushed)[i] = pushed[i - Len(front)]
      <4> HIDE DEF front, pushed
      <4>1. front \in Seq(F)
        BY <2>1 DEF front
      <4> QED BY <3>2, <4>1, StackGrows
    <3> HIDE DEF front, pushed, next
    <3>4. /\ next.stack = front \o pushed /\ next.visited = s.visited \cup {top.node}
          /\ next.found = s.found /\ next.bridge = s.bridge
      BY <1>1, <3>1
    <3>5. next \in SearchStates(g)
      BY <1>1, <2>2, <3>1, <3>3 DEF SearchStates, F
    <3>6. Met(s) \subseteq Met(next)
      <4> SUFFICES ASSUME NEW i \in 1 .. Len(s.stack) PROVE s.stack[i].node \in Met(next)
        BY <3>4 DEF Met
      <4>1. CASE s.stack[i] = top
        BY <3>4, <4>1 DEF Met
      <4>2. CASE i \in 1 .. Len(front)
        <5>1. next.stack[i] = s.stack[i] /\ i \in 1 .. Len(next.stack)
          BY <2>1, <3>3, <3>4, <4>2 DEF front
        <5> QED BY <5>1 DEF Met
      <4> QED BY <2>1, <4>1, <4>2 DEF front
    <3>7. ASSUME NEW e \in SignalEdges(g), e.from \in next.visited PROVE e.to \in Met(next)
      <4>1. CASE e.from \in s.visited
        BY <3>6, <4>1 DEF SearchInv, SearchFits
      <4>2. CASE e.from = top.node
        <5>1. PICK i \in 1 .. Len(pushed) : pushed[i].node = e.to
          BY <3>2, <4>2
        <5>2. Len(front) + i \in 1 .. Len(next.stack) /\ next.stack[Len(front) + i].node = e.to
          BY <3>3, <3>4, <5>1
        <5> QED BY <5>2 DEF Met
      <4> QED BY <3>4, <3>7, <4>1, <4>2
    <3>8. ASSUME NEW i \in 1 .. Len(next.stack) PROVE FrameSound(g, input, next.stack[i])
      <4>1. CASE i \in 1 .. Len(front)
        <5>1. next.stack[i] = s.stack[i] /\ i \in 1 .. Len(s.stack)
          BY <2>1, <3>3, <3>4, <4>1 DEF front
        <5> QED BY <5>1 DEF SearchInv, SearchFits
      <4>2. CASE i \notin 1 .. Len(front)
        BY <3>2, <3>3, <3>4, <4>2
      <4> QED BY <4>1, <4>2
    <3>9. SearchFits(g, input, output, next)
      <4>1. output \notin next.visited /\ input \in Met(next) /\ ~ next.found
        BY <1>4, <2>7, <3>4, <3>6 DEF SearchInv, SearchFits
      <4> QED BY <3>5, <3>7, <3>8, <4>1 DEF SearchFits
    <3>10. InTime(g, k + 1, next)
      <4> DEFINE before == Cardinality(Unspent(g, s.visited))
                 rest == Cardinality(Unspent(g, next.visited))
                 spent == Cardinality(EdgesFrom(g, top.node))
                 height == Len(next.stack)
      <4>1. before = rest + spent
        BY <2>7, <3>4, ExpandingSpends
      <4>2. rest \in Nat /\ spent \in Nat
        BY PlacesAreFinite
      <4>3. height = Len(s.stack) - 1 + Len(pushed) /\ Len(pushed) <= spent /\ Len(pushed) \in Nat
        BY <2>1, <3>2, <3>3, <3>4 DEF front
      <4> DEFINE size == Len(s.stack)
                 more == Len(pushed)
                 edges == Len(g.edges)
      <4>4. size \in Nat /\ edges \in Nat /\ size + before + k <= edges + 1
        BY <2>1, <2>3, <2>4
      <4> HIDE DEF before, rest, spent, height, size, more, edges
      <4>5. height = size - 1 + more /\ more <= spent /\ more \in Nat
        BY <4>3 DEF size, more
      <4>6. height + rest + (k + 1) <= edges + 1
        BY <4>1, <4>2, <4>4, <4>5
      <4> QED BY <4>6 DEF InTime, rest, height, edges
    <3> QED BY <3>9, <3>10 DEF SearchInv, next
  <2> QED BY <2>5, <2>6, <2>7
<1> QED BY <1>1, <1>2, <1>3, <1>4

\* The states after each of the rounds of a search.
IsSearch(search, g, input, output) ==
    /\ find_audio_route_to_output(g, input, output) = search[Len(g.edges) + 1]
    /\ search[0] = SearchStart(input)
    /\ \A k \in 1 .. Len(g.edges) + 1 : search[k] = SearchRound(g, output, search[k - 1])

\* The search is what its recursive equation says.
LEMMA SearchSteps ==
    ASSUME NEW g, IsGraph(g), NEW input, NEW output
    PROVE  \E search : IsSearch(search, g, input, output)
<1> DEFINE last == Len(g.edges) + 1
           Rounds(f, n) ==
             f = [k \in 0 .. n |-> IF k = 0 THEN SearchStart(input) ELSE SearchRound(g, output, f[k - 1])]
           Defined == {n \in Nat : \E f : Rounds(f, n)}
<1>1. 0 \in Defined
  <2>1. Rounds([i \in 0 .. 0 |-> SearchStart(input)], 0)
    OBVIOUS
  <2> QED BY <2>1
<1>2. ASSUME NEW n \in Nat, n \in Defined PROVE n + 1 \in Defined
  <2>1. PICK f : Rounds(f, n)
    BY <1>2
  <2> DEFINE h == [i \in 0 .. n + 1 |-> IF i \in 0 .. n THEN f[i] ELSE SearchRound(g, output, f[n])]
  <2>2. \A i \in 0 .. n : h[i] = f[i] /\ f[i] = IF i = 0 THEN SearchStart(input) ELSE SearchRound(g, output, f[i - 1])
    <3>1. ASSUME NEW i \in 0 .. n
          PROVE  f[i] = IF i = 0 THEN SearchStart(input) ELSE SearchRound(g, output, f[i - 1])
      BY <2>1
    <3>2. ASSUME NEW i \in 0 .. n PROVE h[i] = f[i]
      <4> i \in 0 .. n + 1
        OBVIOUS
      <4> QED OBVIOUS
    <3> HIDE DEF h
    <3> QED BY <3>1, <3>2
  <2>3. h[n + 1] = SearchRound(g, output, f[n]) /\ h[n] = f[n]
    OBVIOUS
  <2>4. ASSUME NEW i \in 0 .. n + 1
        PROVE  h[i] = IF i = 0 THEN SearchStart(input) ELSE SearchRound(g, output, h[i - 1])
    <3> HIDE DEF h
    <3>1. CASE i = n + 1
      <4>1. i # 0 /\ i - 1 = n
        BY <3>1
      <4> QED BY <3>1, <4>1, <2>3
    <3>2. CASE i # n + 1 /\ i # 0
      <4>1. i \in 0 .. n /\ i - 1 \in 0 .. n
        BY <3>2
      <4>2. h[i - 1] = f[i - 1] /\ h[i] = f[i]
        BY <4>1, <2>2
      <4>3. f[i] = SearchRound(g, output, f[i - 1])
        BY <4>1, <2>2, <3>2
      <4> QED BY <4>2, <4>3, <3>2
    <3>3. CASE i = 0
      <4>1. i \in 0 .. n
        BY <3>3
      <4> QED BY <4>1, <3>3, <2>2
    <3> QED BY <3>1, <3>2, <3>3
  <2>5. Rounds(h, n + 1)
    <3>1. \A i \in 0 .. n + 1 : h[i] = IF i = 0 THEN SearchStart(input) ELSE SearchRound(g, output, h[i - 1])
      BY <2>4
    <3> QED BY <3>1
  <2> HIDE DEF h, Rounds
  <2> QED BY <2>5
<1>3. last \in Nat
  BY GraphFacts
<1>4. PICK f : Rounds(f, last) /\ find_audio_route_to_output(g, input, output) = f[last]
  <2>1. last \in Defined
    <3> HIDE DEF Defined, last
    <3>1. Nat \subseteq Defined
      BY <1>1, <1>2, NatSetInduction
    <3> QED BY <3>1, <1>3
  <2> DEFINE found == CHOOSE f : Rounds(f, last)
  <2>2. Rounds(found, last)
    BY <2>1
  <2>3. find_audio_route_to_output(g, input, output) = found[last]
    BY DEF find_audio_route_to_output, SearchStart
  <2> QED BY <2>2, <2>3
<1>5. f[0] = SearchStart(input)
  <2> HIDE DEF last
  <2> 0 \in 0 .. last
    BY <1>3
  <2> QED BY <1>4
<1>6. ASSUME NEW k \in 1 .. last PROVE f[k] = SearchRound(g, output, f[k - 1])
  <2> HIDE DEF last
  <2> k \in 0 .. last /\ k # 0
    BY <1>3
  <2> QED BY <1>4
<1> QED BY <1>4, <1>5, <1>6 DEF IsSearch

\* The search ends with an answer or with nothing left to expand.
LEMMA SearchEnds ==
    ASSUME NEW g, IsGraph(g), NEW input \in Nodes(g), NEW output \in Nodes(g)
    PROVE  LET route == find_audio_route_to_output(g, input, output)
           IN  SearchFits(g, input, output, route) /\ (route.found \/ route.stack = <<>>)
<1>0. Len(g.edges) \in Nat
  BY GraphFacts
<1>1. PICK search : IsSearch(search, g, input, output)
  BY SearchSteps
<1> DEFINE last == Len(g.edges) + 1
           Good == {k \in Nat : k <= last => SearchInv(g, input, output, k, search[k])}
<1>2. 0 \in Good
  BY <1>1, SearchBegins DEF IsSearch
<1>3. ASSUME NEW k \in Nat, k \in Good PROVE k + 1 \in Good
  <2> SUFFICES ASSUME k + 1 <= last PROVE SearchInv(g, input, output, k + 1, search[k + 1])
    OBVIOUS
  <2>1. k <= last /\ k + 1 \in 1 .. last /\ (k + 1) - 1 = k
    BY <1>0
  <2>2. SearchInv(g, input, output, k, search[k])
    BY <1>3, <2>1
  <2>3. search[k + 1] = SearchRound(g, output, search[k])
    BY <1>1, <2>1 DEF IsSearch
  <2> QED BY <2>2, <2>3, RoundKeeps
<1>4. SearchInv(g, input, output, last, search[last])
  <2>1. Nat \subseteq Good
    <3> HIDE DEF Good
    <3> QED BY <1>2, <1>3, NatSetInduction
  <2>2. last \in Nat /\ last <= last
    BY <1>0
  <2> HIDE DEF last
  <2> QED BY <2>1, <2>2
<1> DEFINE s == search[last]
<1> HIDE DEF s
<1>5. SearchFits(g, input, output, s) /\ InTime(g, last, s)
  BY <1>4 DEF SearchInv, s
<1>6. s.found \/ s.stack = <<>>
  <2> SUFFICES ASSUME s.stack # <<>>, Len(s.stack) + Cardinality(Unspent(g, s.visited)) + last <= last
               PROVE  FALSE
    BY <1>5 DEF InTime
  <2>1. Len(s.stack) \in Nat \ {0}
    <3>1. s.stack \in Seq(SearchFrames(g))
      BY <1>5 DEF SearchFits, SearchStates
    <3> QED BY <3>1
  <2>2. Cardinality(Unspent(g, s.visited)) \in Nat
    BY PlacesAreFinite
  <2> QED BY <1>0, <2>1, <2>2
<1> QED BY <1>1, <1>5, <1>6 DEF s, IsSearch

\* The search finds the output if some route leads there; if it reports no clock
\* boundary some route has none, and if it reports one some route has one
\* (find_audio_route_to_output).
THEOREM RouteFound ==
    ASSUME NEW g, IsGraph(g), NEW input \in Nodes(g), NEW output \in Nodes(g)
    PROVE  LET route == find_audio_route_to_output(g, input, output)
           IN  /\ route.found <=> Leads(g, SignalEdges(g), input, output)
               /\ route.found /\ route.bridge = <<>> => Leads(g, Unbridged(g), input, output)
               /\ route.found /\ route.bridge # <<>> => BridgedRoute(g, input, output)
<1> DEFINE route == find_audio_route_to_output(g, input, output)
<1>1. SearchFits(g, input, output, route) /\ (route.found \/ route.stack = <<>>)
  BY SearchEnds
<1> HIDE DEF route
<1>2. Answer(route, output).node = output /\ Answer(route, output).bridge = route.bridge
  BY DEF Answer
<1>3. ASSUME route.found
      PROVE  /\ Leads(g, SignalEdges(g), input, output)
             /\ route.bridge = <<>> => Leads(g, Unbridged(g), input, output)
             /\ route.bridge # <<>> => BridgedRoute(g, input, output)
  <2>1. FrameSound(g, input, Answer(route, output))
    BY <1>1, <1>3 DEF SearchFits
  <2> QED BY <1>2, <2>1 DEF FrameSound
<1>4. ASSUME ~ route.found PROVE ~ Leads(g, SignalEdges(g), input, output)
  <2>1. route.stack = <<>>
    BY <1>1, <1>4
  <2>2. Met(route) = route.visited
    <3>1. Len(route.stack) = 0
      BY <2>1
    <3> QED BY <3>1 DEF Met
  <2>3. route.visited \in SUBSET Nodes(g)
    BY <1>1 DEF SearchFits, SearchStates
  <2>4. /\ input \in route.visited /\ output \notin route.visited
        /\ \A e \in SignalEdges(g) : e.from \in route.visited => e.to \in route.visited
    BY <1>1, <2>2 DEF SearchFits
  <2> QED BY <2>3, <2>4 DEF Leads
<1> QED BY <1>3, <1>4 DEF route

\* Only a crossing with a route that has no boundary is judged invalid, and any
\* crossing that has no other.
LEMMA JudgedFairly ==
    ASSUME NEW g, IsGraph(g)
    PROVE  /\ "invalid" \in Range(audio_clock_bridge_plans(g)) =>
                \E r \in Crossings(g) : Leads(g, Unbridged(g), r[1], r[2])
           /\ "invalid" \notin Range(audio_clock_bridge_plans(g)) =>
                \A r \in Crossings(g) : BridgedRoute(g, r[1], r[2])
<1>1. Range(audio_clock_bridge_plans(g)) = {bridge_method(g, r[1], r[2]) : r \in audio_routes(g)}
  BY DEF Range, audio_clock_bridge_plans
<1>2. ASSUME NEW r \in Nodes(g) \X Nodes(g)
      PROVE  LET route == find_audio_route_to_output(g, r[1], r[2])
             IN  bridge_method(g, r[1], r[2]) = "invalid" <=>
                   /\ audio_clock_domain_id(g, r[1]) # audio_clock_domain_id(g, r[2])
                   /\ route.bridge = <<>>
  BY DEF bridge_method, plan_audio_clock_bridge
<1>3. ASSUME "invalid" \in Range(audio_clock_bridge_plans(g))
      PROVE  \E r \in Crossings(g) : Leads(g, Unbridged(g), r[1], r[2])
  <2>1. PICK r \in audio_routes(g) : bridge_method(g, r[1], r[2]) = "invalid"
    BY <1>1, <1>3
  <2>2. /\ r \in Nodes(g) \X Nodes(g) /\ g.kind[r[1]] = "input" /\ g.kind[r[2]] = "output"
        /\ find_audio_route_to_output(g, r[1], r[2]).found
    BY DEF audio_routes
  <2>3. /\ audio_clock_domain_id(g, r[1]) # audio_clock_domain_id(g, r[2])
        /\ find_audio_route_to_output(g, r[1], r[2]).bridge = <<>>
    BY <1>2, <2>1, <2>2
  <2>4. r[1] \in Nodes(g) /\ r[2] \in Nodes(g)
    BY <2>2
  <2>5. Leads(g, SignalEdges(g), r[1], r[2]) /\ Leads(g, Unbridged(g), r[1], r[2])
    BY <2>2, <2>3, <2>4, RouteFound
  <2>6. r \in Crossings(g)
    BY <2>2, <2>3, <2>5 DEF Crossings
  <2> QED BY <2>5, <2>6
<1>4. ASSUME "invalid" \notin Range(audio_clock_bridge_plans(g)), NEW r \in Crossings(g)
      PROVE  BridgedRoute(g, r[1], r[2])
  <2>1. /\ r \in Nodes(g) \X Nodes(g) /\ g.kind[r[1]] = "input" /\ g.kind[r[2]] = "output"
        /\ audio_clock_domain_id(g, r[1]) # audio_clock_domain_id(g, r[2])
        /\ Leads(g, SignalEdges(g), r[1], r[2])
    BY DEF Crossings
  <2>2. r[1] \in Nodes(g) /\ r[2] \in Nodes(g)
    BY <2>1
  <2>3. find_audio_route_to_output(g, r[1], r[2]).found
    BY <2>1, <2>2, RouteFound
  <2>4. r \in audio_routes(g)
    BY <2>1, <2>3 DEF audio_routes
  <2>5. bridge_method(g, r[1], r[2]) # "invalid"
    BY <1>1, <1>4, <2>4
  <2>6. find_audio_route_to_output(g, r[1], r[2]).bridge # <<>>
    BY <1>2, <2>1, <2>5
  <2> QED BY <2>2, <2>3, <2>6, RouteFound
<1> QED BY <1>3, <1>4

\* The engine's error and its plan are those of the graph it was given.
AudioInv ==
    /\ graph \in Graphs /\ options \in Options
    /\ engine = "crossing-requires-bridge" => "invalid" \in Range(audio_clock_bridge_plans(graph))
    /\ plan.nodes # <<>> => "invalid" \notin Range(audio_clock_bridge_plans(graph))

LEMMA AudioInvInit == AudioInit => AudioInv
BY DEF AudioInit, AudioInv, NoPlan

LEMMA AudioInvStep == AudioInv /\ [AudioNext]_audioVars => AudioInv'
<1> SUFFICES ASSUME AudioInv, [AudioNext]_audioVars PROVE AudioInv'
  OBVIOUS
<1> DEFINE Invalid == "invalid" \in Range(audio_clock_bridge_plans(graph))
<1>1. ASSUME graph' = graph, options' = options, plan' = plan, engine' = engine \/ engine' # "crossing-requires-bridge"
      PROVE  AudioInv'
  BY <1>1 DEF AudioInv
<1>2. ASSUME NEW error, Refuse(error), error = "crossing-requires-bridge" => Invalid, graph' = graph, options' = options
      PROVE  AudioInv'
  BY <1>2 DEF AudioInv, Refuse
<1>3. ASSUME graph' = graph, options' = options, engine' # "crossing-requires-bridge", PlanError = "none"
      PROVE  AudioInv'
  <2>1. ~ Invalid
    BY <1>3 DEF PlanError
  <2> QED BY <1>3, <2>1 DEF AudioInv
<1>4. PlanError = "crossing-requires-bridge" => Invalid
  BY DEF PlanError
<1>5. CASE run_offline_audio_dsp
  <2>1. graph' = graph /\ options' = options
    BY <1>5 DEF run_offline_audio_dsp
  <2>2. options.blocks \in Nat
    BY OptionsAssumption DEF AudioInv, IsOptions
  <2>3. CASE options.blocks = 0
    <3>1. Refuse("invalid-block-count")
      BY <1>5, <2>2, <2>3 DEF run_offline_audio_dsp
    <3> QED BY <1>2, <2>1, <3>1
  <2>4. CASE options.blocks > 0 /\ PlanError # "none"
    <3>1. Refuse(PlanError)
      BY <1>5, <2>2, <2>4 DEF run_offline_audio_dsp
    <3> QED BY <1>2, <1>4, <2>1, <3>1
  <2>5. CASE options.blocks > 0 /\ PlanError = "none"
    <3>1. engine' = "offline"
      BY <1>5, <2>2, <2>5 DEF run_offline_audio_dsp
    <3> QED BY <1>3, <2>1, <2>5, <3>1
  <2> QED BY <2>2, <2>3, <2>4, <2>5
<1>6. CASE OfflineNode
  BY <1>1, <1>6 DEF OfflineNode
<1>7. CASE OfflineBlock
  BY <1>1, <1>7 DEF OfflineBlock
<1>8. CASE new_executor
  <2> DEFINE outputs == Only(build_audio_dsp_plan.nodes, {n \in Nodes(graph) : graph.kind[n] = "output"})
             Unsupported == \E n \in ToSet(build_audio_dsp_plan.nodes) :
                              graph.kind[n] \notin {"sig", "osc", "mul", "output"}
  <2>1. graph' = graph /\ options' = options
    BY <1>8 DEF new_executor
  <2>2. options.channels \in Nat
    BY OptionsAssumption DEF AudioInv, IsOptions
  <2>3. CASE options.channels = 0
    <3>1. Refuse("invalid-channel-count")
      BY <1>8, <2>2, <2>3 DEF new_executor
    <3> QED BY <1>2, <2>1, <3>1
  <2>4. CASE options.channels > 0 /\ PlanError # "none"
    <3>1. Refuse(PlanError)
      BY <1>8, <2>2, <2>4 DEF new_executor
    <3> QED BY <1>2, <1>4, <2>1, <3>1
  <2>5. CASE options.channels > 0 /\ PlanError = "none" /\ Len(outputs) # 1
    <3>1. Refuse("output-count")
      BY <1>8, <2>2, <2>5 DEF new_executor
    <3> QED BY <1>2, <2>1, <3>1
  <2>6. CASE options.channels > 0 /\ PlanError = "none" /\ Len(outputs) = 1 /\ Unsupported
    <3>1. Refuse("unsupported-node-kind")
      BY <1>8, <2>2, <2>6 DEF new_executor
    <3> QED BY <1>2, <2>1, <3>1
  <2>7. CASE options.channels > 0 /\ PlanError = "none" /\ Len(outputs) = 1 /\ ~ Unsupported
    <3>1. engine' = "realtime"
      BY <1>8, <2>2, <2>7 DEF new_executor
    <3> QED BY <1>3, <2>1, <2>7, <3>1
  <2> QED BY <2>2, <2>3, <2>4, <2>5, <2>6, <2>7
<1>9. CASE RealtimeNode
  BY <1>1, <1>9 DEF RealtimeNode
<1>10. CASE copy_output_frames
  BY <1>1, <1>10 DEF copy_output_frames
<1>11. CASE \E frames \in Callbacks : BeginCallback(frames)
  BY <1>1, <1>11 DEF BeginCallback
<1>12. CASE UNCHANGED audioVars
  BY <1>1, <1>12 DEF audioVars
<1> QED BY <1>5, <1>6, <1>7, <1>8, <1>9, <1>10, <1>11, <1>12 DEF AudioNext

\* An audio graph is refused for a missing clock bridge only if a route between
\* two domains has none, and planned only if every crossing pair has a route with
\* one (audio_clock_bridge_plans, find_audio_route_to_output).
THEOREM CrossingsJudged == AudioSpec => []CrossingsAreJudged
<1>1. AudioInv => CrossingsAreJudged
  BY JudgedFairly, GraphsAssumption DEF AudioInv, CrossingsAreJudged
<1> QED BY <1>1, AudioInvInit, AudioInvStep, PTL DEF AudioSpec

----------------------------------------------------------------------------
(* The signal exists.                                                      *)
(*                                                                         *)
(* What a node sends depends on what others sent before, or at the same    *)
(* time if they precede it; so that there is one signal, and it is what    *)
(* its recursive equation says.                                            *)

\* A set of numbers has a least one.
LEMMA LeastNumber ==
    ASSUME NEW S, S \subseteq Nat, S # {}
    PROVE  \E x \in S : \A y \in S : x <= y
<1>1. \E x \in S : \A y \in S : <<y, x>> \notin OpToRel(<, Nat)
  BY NatLessThanWellFounded, WFMin
<1>2. PICK x \in S : \A y \in S : <<y, x>> \notin OpToRel(<, Nat)
  BY <1>1
<1>3. \A y \in S : ~ (y < x)
  BY <1>2 DEF OpToRel
<1>4. \A y \in S : x <= y
  BY <1>3
<1> QED BY <1>4

\* The edge a port listens to is a signal edge into it.
LEMMA IntoFacts ==
    ASSUME NEW g, IsGraph(g), NEW n, NEW port, SignalInto(g, n, port) # <<>>
    PROVE  /\ Head(SignalInto(g, n, port)) \in SignalEdges(g)
           /\ Head(SignalInto(g, n, port)).to = n
           /\ Head(SignalInto(g, n, port)).from \in Nodes(g)
<1> DEFINE S == {e \in SignalEdges(g) : e.to = n /\ e.toPort = port}
           into == SignalInto(g, n, port)
           U == ToSet(g.edges)
<1>1. g.edges \in Seq(U)
  BY GraphFacts
<1>2. into \in Seq(U) /\ ToSet(into) = ToSet(g.edges) \cap S
  <2> HIDE DEF S, U
  <2>1. Only(g.edges, S) \in Seq(U) /\ ToSet(Only(g.edges, S)) = ToSet(g.edges) \cap S
    BY <1>1, OnlyFacts
  <2> QED BY <2>1 DEF SignalInto, S
<1> HIDE DEF into, U
<1>3. Head(into) \in ToSet(into)
  <2>1. into # <<>>
    BY DEF into
  <2>2. 1 \in DOMAIN into /\ Head(into) = into[1]
    BY <1>2, <2>1
  <2> QED BY <2>2 DEF ToSet
<1>4. Head(into) \in S
  BY <1>2, <1>3
<1> QED BY <1>4, GraphFacts DEF into

\* Edges that are not late, to a node other than the output, run forwards.
LEMMA PlannedEdge ==
    ASSUME NEW g, IsGraph(g), NEW o \in PlannedOrders(g), NEW e \in SignalEdges(g), ~ Late(g, o, e),
           g.kind[e.to] # "output"
    PROVE  Precedes(o, e.from, e.to)
BY GraphFacts DEF PlannedOrders, Late

\* Two signals that agree where a node's inputs come from.
Agree(f, h, g, o, n, t) ==
    \A m \in Nodes(g), s \in Nat : s < t \/ (s = t /\ Precedes(o, m, n)) => f[<<m, s>>] = h[<<m, s>>]

LEMMA ArrivesAgree ==
    ASSUME NEW g, IsGraph(g), NEW o \in PlannedOrders(g), NEW delay \in Nat \ {0},
           NEW n, NEW t \in Nat, g.kind[n] # "output", NEW port,
           NEW f, NEW h, Agree(f, h, g, o, n, t)
    PROVE  Arrives(g, o, delay, f, n, port, t) = Arrives(g, o, delay, h, n, port, t)
<1> DEFINE into == SignalInto(g, n, port)
           e == Head(into)
           sent == IF Late(g, o, e) THEN t - delay ELSE t
<1>1. CASE into = <<>> \/ sent < 0
  BY <1>1 DEF Arrives
<1>2. CASE into # <<>> /\ ~ (sent < 0)
  <2>1. e \in SignalEdges(g) /\ e.to = n /\ e.from \in Nodes(g)
    BY <1>2, IntoFacts
  <2>2. /\ Arrives(g, o, delay, f, n, port, t) = f[<<e.from, sent>>]
        /\ Arrives(g, o, delay, h, n, port, t) = h[<<e.from, sent>>]
    BY <1>2 DEF Arrives
  <2> HIDE DEF e
  <2>3. sent \in Nat /\ (sent < t \/ (sent = t /\ Precedes(o, e.from, n)))
    <3>1. CASE Late(g, o, e)
      BY <1>2, <3>1
    <3>2. CASE ~ Late(g, o, e)
      BY <1>2, <2>1, <3>2, PlannedEdge
    <3> QED BY <3>1, <3>2
  <2> HIDE DEF sent
  <2> QED BY <2>1, <2>2, <2>3 DEF Agree
<1> QED BY <1>1, <1>2

LEMMA SendsAgree ==
    ASSUME NEW g, IsGraph(g), NEW o \in PlannedOrders(g), NEW delay \in Nat \ {0},
           NEW n, NEW t \in Nat, NEW f, NEW h, Agree(f, h, g, o, n, t)
    PROVE  Sends(g, o, delay, f, n, t) = Sends(g, o, delay, h, n, t)
<1>1. CASE g.kind[n] = "mul"
  <2>1. /\ Arrives(g, o, delay, f, n, "left", t) = Arrives(g, o, delay, h, n, "left", t)
        /\ Arrives(g, o, delay, f, n, "right", t) = Arrives(g, o, delay, h, n, "right", t)
    BY <1>1, ArrivesAgree
  <2> QED BY <1>1, <2>1 DEF Sends
<1>2. CASE g.kind[n] # "mul"
  BY <1>2 DEF Sends
<1> QED BY <1>1, <1>2

\* The places of a planned order.
IsOrder(g, o) ==
           /\ o \in Seq(Nodes(g)) /\ Len(o) \in Nat /\ Len(o) = Len(g.nodes)
           /\ \A n \in Nodes(g) : \E j \in 1 .. Len(o) : o[j] = n
           /\ \A j, k \in 1 .. Len(o) : o[j] = o[k] => j = k
           /\ \A a, b : Precedes(o, a, b) => \E j, k \in 1 .. Len(o) : j < k /\ o[j] = a /\ o[k] = b
           /\ \A j, k \in 1 .. Len(o) : j < k => Precedes(o, o[j], o[k])
           /\ \A j \in 1 .. Len(o) : o[j] \in Nodes(g)

LEMMA OrderFacts ==
    ASSUME NEW g, IsGraph(g), NEW o \in PlannedOrders(g)
    PROVE  IsOrder(g, o)
<1>1. Len(g.nodes) \in Nat /\ o \in [1 .. Len(g.nodes) -> Nodes(g)]
  BY DEF IsGraph, PlannedOrders
<1>2. o \in Seq(Nodes(g)) /\ Len(o) = Len(g.nodes) /\ DOMAIN o = 1 .. Len(o)
  BY <1>1
<1>3. \A n \in Nodes(g) : \E j \in 1 .. Len(o) : o[j] = n
  BY <1>2 DEF PlannedOrders, ToSet
<1>4. \A j, k \in 1 .. Len(o) : o[j] = o[k] => j = k
  BY <1>2 DEF PlannedOrders
<1> QED BY <1>1, <1>2, <1>3, <1>4 DEF Precedes, IsOrder

\* f is the signal up to the k-th node at time t.
Solves(f, g, o, delay, t, k) ==
    \A m \in Nodes(g), s \in Nat :
      s < t \/ (s = t /\ \E j \in 1 .. k : o[j] = m) => f[<<m, s>>] = Sends(g, o, delay, f, m, s)

\* There is no more than one signal: where two agreed last, and at the first node
\* then, they were computed from the same values.
LEMMA SolutionsAgree ==
    ASSUME NEW g, IsGraph(g), NEW o \in PlannedOrders(g), NEW delay \in Nat \ {0}, NEW T \in Nat,
           NEW f, Solves(f, g, o, delay, T, 0), NEW h, Solves(h, g, o, delay, T, 0),
           NEW n \in Nodes(g), NEW t \in Nat, t < T
    PROVE  f[<<n, t>>] = h[<<n, t>>]
<1>o. IsOrder(g, o)
  BY OrderFacts
<1>p. /\ \A m \in Nodes(g) : \E j \in 1 .. Len(o) : o[j] = m
      /\ \A i, j \in 1 .. Len(o) : o[i] = o[j] => i = j
      /\ \A a, b : Precedes(o, a, b) => \E i, j \in 1 .. Len(o) : i < j /\ o[i] = a /\ o[j] = b
      /\ Len(o) \in Nat /\ \A j \in 1 .. Len(o) : o[j] \in Nodes(g)
  BY <1>o DEF IsOrder
<1> DEFINE Differ == {s \in Nat : s < T /\ \E m \in Nodes(g) : f[<<m, s>>] # h[<<m, s>>]}
<1> SUFFICES ASSUME Differ # {} PROVE FALSE
  OBVIOUS
<1>1. PICK s \in Differ : \A r \in Differ : s <= r
  <2> Differ \subseteq Nat
    OBVIOUS
  <2> HIDE DEF Differ
  <2> QED BY LeastNumber
<1>2. s \in Nat /\ s < T /\ \A m \in Nodes(g), r \in Nat : r < s => f[<<m, r>>] = h[<<m, r>>]
  <2> SUFFICES ASSUME NEW m \in Nodes(g), NEW r \in Nat, r < s, f[<<m, r>>] # h[<<m, r>>] PROVE FALSE
    BY <1>1
  <2>1. r < T
    BY <1>1
  <2>2. r \in Differ
    BY <2>1
  <2> QED BY <1>1, <2>2
<1> DEFINE Places == {j \in 1 .. Len(o) : f[<<o[j], s>>] # h[<<o[j], s>>]}
<1>3. Places # {} /\ Places \subseteq Nat
  <2>1. PICK m \in Nodes(g) : f[<<m, s>>] # h[<<m, s>>]
    BY <1>1
  <2>2. PICK j \in 1 .. Len(o) : o[j] = m
    BY <1>p
  <2>3. j \in Places
    BY <2>1, <2>2
  <2>4. Places \subseteq Nat
    BY <1>p
  <2> QED BY <2>3, <2>4
<1>4. PICK j \in Places : \A i \in Places : j <= i
  <2> HIDE DEF Places
  <2> QED BY <1>3, LeastNumber
<1>5. o[j] \in Nodes(g)
  BY <1>p
<1>6. Agree(f, h, g, o, o[j], s)
  <2> SUFFICES ASSUME NEW m \in Nodes(g), NEW r \in Nat, r < s \/ (r = s /\ Precedes(o, m, o[j]))
               PROVE  f[<<m, r>>] = h[<<m, r>>]
    BY DEF Agree
  <2>1. CASE r < s
    BY <1>2, <2>1
  <2>2. CASE r = s /\ Precedes(o, m, o[j])
    <3>0. \E i, k \in 1 .. Len(o) : i < k /\ o[i] = m /\ o[k] = o[j]
      <4> DEFINE last == o[j]
      <4>1. Precedes(o, m, last)
        BY <2>2
      <4> HIDE DEF last
      <4>2. \E i, k \in 1 .. Len(o) : i < k /\ o[i] = m /\ o[k] = last
        BY <1>p, <4>1
      <4> QED BY <4>2 DEF last
    <3>1. PICK i, k \in 1 .. Len(o) : i < k /\ o[i] = m /\ o[k] = o[j]
      BY <3>0
    <3>2. k = j /\ i \notin Places
      <4>1. k = j
        BY <3>1, <1>p
      <4> QED BY <1>4, <3>1, <4>1, <1>p
    <3> QED BY <2>2, <3>1, <3>2
  <2> QED BY <2>1, <2>2
<1>7. Sends(g, o, delay, f, o[j], s) = Sends(g, o, delay, h, o[j], s)
  BY <1>2, <1>6, SendsAgree
<1>8. f[<<o[j], s>>] = Sends(g, o, delay, f, o[j], s) /\ h[<<o[j], s>>] = Sends(g, o, delay, h, o[j], s)
  BY <1>2, <1>5 DEF Solves
<1> QED BY <1>4, <1>7, <1>8

\* What is known up to one node tells what the next one sends.
LEMMA SolveNode ==
    ASSUME NEW g, IsGraph(g), NEW o \in PlannedOrders(g), NEW delay \in Nat \ {0}, NEW t \in Nat,
           NEW k \in 0 .. Len(o) - 1, NEW f, Solves(f, g, o, delay, t, k)
    PROVE  \E h : Solves(h, g, o, delay, t, k + 1)
<1>o. IsOrder(g, o)
  BY OrderFacts
<1>p. /\ \A m \in Nodes(g) : \E j \in 1 .. Len(o) : o[j] = m
      /\ \A i, j \in 1 .. Len(o) : o[i] = o[j] => i = j
      /\ \A a, b : Precedes(o, a, b) => \E i, j \in 1 .. Len(o) : i < j /\ o[i] = a /\ o[j] = b
      /\ Len(o) \in Nat /\ \A j \in 1 .. Len(o) : o[j] \in Nodes(g)
  BY <1>o DEF IsOrder
<1> DEFINE n == o[k + 1]
           sent == Sends(g, o, delay, f, n, t)
           h == [p \in Nodes(g) \X Nat |-> IF p = <<n, t>> THEN sent ELSE f[p]]
<1>0. k + 1 \in 1 .. Len(o) /\ n \in Nodes(g)
  BY <1>p
<1>1. h[<<n, t>>] = sent
  <2> <<n, t>> \in Nodes(g) \X Nat
    BY <1>0
  <2> HIDE DEF n, sent
  <2> QED OBVIOUS
<1>2. ASSUME NEW m \in Nodes(g), NEW s \in Nat, m # n \/ s # t PROVE h[<<m, s>>] = f[<<m, s>>]
  <2> <<m, s>> \in Nodes(g) \X Nat /\ <<m, s>> # <<n, t>>
    BY <1>2
  <2> HIDE DEF n, sent
  <2> QED OBVIOUS
<1> HIDE DEF h, sent
<1>3. ASSUME NEW m \in Nodes(g), NEW s \in Nat, s < t \/ (s = t /\ \E j \in 1 .. k + 1 : o[j] = m)
      PROVE  Agree(f, h, g, o, m, s)
  <2> SUFFICES ASSUME NEW l \in Nodes(g), NEW r \in Nat, r < s \/ (r = s /\ Precedes(o, l, m)), l = n, r = t
               PROVE  FALSE
    BY <1>2 DEF Agree
  <2>1. s = t /\ r = s /\ Precedes(o, l, m) /\ \E j \in 1 .. k + 1 : o[j] = m
    BY <1>3
  <2>2. PICK j \in 1 .. k + 1 : o[j] = m
    BY <2>1
  <2>3. PICK a, b \in 1 .. Len(o) : a < b /\ o[a] = l /\ o[b] = m
    BY <2>1, <1>p
  <2>4. j \in 1 .. Len(o)
    BY <1>0, <1>p
  <2>5. b = j /\ a = k + 1
    BY <1>0, <2>2, <2>3, <2>4, <1>p
  <2> QED BY <2>2, <2>3, <2>5
<1>4. ASSUME NEW m \in Nodes(g), NEW s \in Nat, s < t \/ (s = t /\ \E j \in 1 .. k + 1 : o[j] = m)
      PROVE  h[<<m, s>>] = Sends(g, o, delay, h, m, s)
  <2>1. Sends(g, o, delay, h, m, s) = Sends(g, o, delay, f, m, s)
    BY <1>3, <1>4, SendsAgree
  <2>2. CASE m = n /\ s = t
    BY <1>1, <2>1, <2>2 DEF sent
  <2>3. CASE m # n \/ s # t
    <3>1. s < t \/ (s = t /\ \E j \in 1 .. k : o[j] = m)
      BY <1>4, <2>3
    <3>2. f[<<m, s>>] = Sends(g, o, delay, f, m, s)
      BY <3>1 DEF Solves
    <3> QED BY <1>2, <2>1, <2>3, <3>2
  <2> QED BY <2>2, <2>3
<1>5. Solves(h, g, o, delay, t, k + 1)
  BY <1>4 DEF Solves
<1> QED BY <1>5

\* So there is a signal up to any time.
LEMMA SolutionExists ==
    ASSUME NEW g, IsGraph(g), NEW o \in PlannedOrders(g), NEW delay \in Nat \ {0}, NEW T \in Nat
    PROVE  \E f : Solves(f, g, o, delay, T, 0)
<1>o. IsOrder(g, o)
  BY OrderFacts
<1>p. /\ \A m \in Nodes(g) : \E j \in 1 .. Len(o) : o[j] = m
      /\ \A i, j \in 1 .. Len(o) : o[i] = o[j] => i = j
      /\ \A a, b : Precedes(o, a, b) => \E i, j \in 1 .. Len(o) : i < j /\ o[i] = a /\ o[j] = b
      /\ Len(o) \in Nat /\ \A j \in 1 .. Len(o) : o[j] \in Nodes(g)
  BY <1>o DEF IsOrder
<1> DEFINE Solved == {t \in Nat : \E f : Solves(f, g, o, delay, t, 0)}
<1>1. 0 \in Solved
  <2>1. Solves(<<>>, g, o, delay, 0, 0)
    BY DEF Solves
  <2> QED BY <2>1
<1>2. ASSUME NEW t \in Nat, t \in Solved PROVE t + 1 \in Solved
  <2> DEFINE Upto == {k \in Nat : k <= Len(o) => \E f : Solves(f, g, o, delay, t, k)}
  <2>1. 0 \in Upto
    BY <1>2
  <2>2. ASSUME NEW k \in Nat, k \in Upto PROVE k + 1 \in Upto
    <3> SUFFICES ASSUME k + 1 <= Len(o) PROVE \E f : Solves(f, g, o, delay, t, k + 1)
      OBVIOUS
    <3>1. Len(o) \in Nat
      BY <1>p
    <3>2. k <= Len(o) /\ k \in 0 .. Len(o) - 1
      BY <3>1
    <3>3. PICK f : Solves(f, g, o, delay, t, k)
      BY <2>2, <3>2
    <3> QED BY <3>2, <3>3, SolveNode
  <2>3. Nat \subseteq Upto
    <3> HIDE DEF Upto
    <3> QED BY <2>1, <2>2, NatSetInduction
  <2>4. Len(o) \in Nat /\ Len(o) <= Len(o)
    BY <1>p
  <2>5. PICK f : Solves(f, g, o, delay, t, Len(o))
    BY <2>3, <2>4
  <2>6. Solves(f, g, o, delay, t + 1, 0)
    <3> SUFFICES ASSUME NEW m \in Nodes(g), NEW s \in Nat, s < t + 1
                 PROVE  f[<<m, s>>] = Sends(g, o, delay, f, m, s)
      BY DEF Solves
    <3>1. s < t \/ (s = t /\ \E j \in 1 .. Len(o) : o[j] = m)
      BY <1>p
    <3> QED BY <2>5, <3>1 DEF Solves
  <2> QED BY <2>6
<1>3. Nat \subseteq Solved
  <2> HIDE DEF Solved
  <2> QED BY <1>1, <1>2, NatSetInduction
<1> QED BY <1>3

\* The signal is what its recursive equation says, at every time.
LEMMA SignalFacts ==
    ASSUME NEW g, IsGraph(g), NEW o \in PlannedOrders(g), NEW delay \in Nat \ {0},
           NEW n \in Nodes(g), NEW t \in Nat
    PROVE  Signal(g, o, delay)[<<n, t>>] = Sends(g, o, delay, Signal(g, o, delay), n, t)
<1> DEFINE Upto(T) == CHOOSE f : Solves(f, g, o, delay, T + 1, 0)
           F == [p \in Nodes(g) \X Nat |-> Upto(p[2])[p]]
           IsSignal(f) == f = [p \in Nodes(g) \X Nat |-> Sends(g, o, delay, f, p[1], p[2])]
<1>1. \A T \in Nat : Solves(Upto(T), g, o, delay, T + 1, 0)
  <2> SUFFICES ASSUME NEW T \in Nat PROVE \E f : Solves(f, g, o, delay, T + 1, 0)
    OBVIOUS
  <2>1. T + 1 \in Nat
    OBVIOUS
  <2> QED BY <2>1, SolutionExists
<1> HIDE DEF Upto
<1>2. ASSUME NEW m \in Nodes(g), NEW s \in Nat PROVE F[<<m, s>>] = Upto(s)[<<m, s>>]
  <2> <<m, s>> \in Nodes(g) \X Nat /\ <<m, s>>[2] = s
    OBVIOUS
  <2> QED OBVIOUS
<1> HIDE DEF F
<1>3. ASSUME NEW m \in Nodes(g), NEW s \in Nat PROVE F[<<m, s>>] = Sends(g, o, delay, F, m, s)
  <2>1. Agree(Upto(s), F, g, o, m, s)
    <3> SUFFICES ASSUME NEW l \in Nodes(g), NEW r \in Nat, r <= s
                 PROVE  Upto(s)[<<l, r>>] = Upto(r)[<<l, r>>]
      BY <1>2 DEF Agree
    <3>1. r + 1 \in Nat /\ s + 1 \in Nat /\ r < r + 1 /\ r + 1 <= s + 1
      OBVIOUS
    <3>2. Solves(Upto(s), g, o, delay, s + 1, 0) /\ Solves(Upto(r), g, o, delay, r + 1, 0)
      BY <1>1
    <3>3. Solves(Upto(s), g, o, delay, r + 1, 0)
      <4> SUFFICES ASSUME NEW a \in Nodes(g), NEW b \in Nat, b < r + 1
                   PROVE  Upto(s)[<<a, b>>] = Sends(g, o, delay, Upto(s), a, b)
        BY DEF Solves
      <4>1. b < s + 1
        BY <3>1
      <4> QED BY <3>2, <4>1 DEF Solves
    <3> QED BY <3>1, <3>2, <3>3, SolutionsAgree
  <2>2. Upto(s)[<<m, s>>] = Sends(g, o, delay, Upto(s), m, s)
    <3>1. s < s + 1
      OBVIOUS
    <3> QED BY <1>1, <3>1 DEF Solves
  <2> QED BY <1>2, <2>1, <2>2, SendsAgree
<1>4. IsSignal(F)
  <2>1. \A p \in Nodes(g) \X Nat : F[p] = Sends(g, o, delay, F, p[1], p[2])
    <3> SUFFICES ASSUME NEW p \in Nodes(g) \X Nat PROVE F[p] = Sends(g, o, delay, F, p[1], p[2])
      OBVIOUS
    <3>1. p[1] \in Nodes(g) /\ p[2] \in Nat /\ p = <<p[1], p[2]>>
      OBVIOUS
    <3> QED BY <1>3, <3>1
  <2> QED BY <2>1 DEF F
<1>5. IsSignal(Signal(g, o, delay))
  <2> DEFINE S == CHOOSE f : IsSignal(f)
  <2>1. IsSignal(S)
    <3> HIDE DEF IsSignal
    <3> QED BY <1>4
  <2>2. Signal(g, o, delay) = S
    BY DEF Signal
  <2> HIDE DEF S, IsSignal
  <2> QED BY <2>1, <2>2
<1> DEFINE signal == Signal(g, o, delay)
<1> HIDE DEF signal
<1>6. signal = [p \in Nodes(g) \X Nat |-> Sends(g, o, delay, signal, p[1], p[2])]
  BY <1>5 DEF signal
<1>7. <<n, t>> \in Nodes(g) \X Nat /\ <<n, t>>[1] = n /\ <<n, t>>[2] = t
  OBVIOUS
<1>8. signal[<<n, t>>] = Sends(g, o, delay, signal, n, t)
  BY <1>6, <1>7
<1> QED BY <1>8 DEF signal

----------------------------------------------------------------------------
(* The plan keeps the order.                                               *)

\* What Only takes from a planned order stands in that order, once each.
LEMMA PartOfOrder ==
    ASSUME NEW g, IsGraph(g), NEW o \in PlannedOrders(g), NEW S, S \subseteq Nodes(g)
    PROVE  LET part == Only(o, S)
           IN  /\ part \in Seq(Nodes(g)) /\ Len(part) \in Nat /\ DOMAIN part = 1 .. Len(part)
               /\ ToSet(part) = S
               /\ \A j, k \in 1 .. Len(part) : Precedes(o, part[j], part[k]) <=> j < k
<1> DEFINE part == Only(o, S)
<1>o. IsOrder(g, o)
  BY OrderFacts
<1>1. o \in Seq(Nodes(g))
  BY <1>o DEF IsOrder
<1>2. part \in Seq(Nodes(g)) /\ ToSet(part) = ToSet(o) \cap S /\ \E place : Stood(part, o, place)
  BY <1>1, OnlyFacts
<1> HIDE DEF part
<1>3. part \in Seq(Nodes(g)) /\ Len(part) \in Nat /\ DOMAIN part = 1 .. Len(part)
  BY <1>2
<1>4. ToSet(part) = S
  <2>1. Nodes(g) \subseteq ToSet(o)
    BY DEF PlannedOrders
  <2> QED BY <1>2, <2>1
<1>5. PICK place : Stood(part, o, place)
  BY <1>2
<1>6. /\ \A j \in 1 .. Len(part) : place[j] \in 1 .. Len(o) /\ part[j] = o[place[j]]
      /\ \A i, j \in 1 .. Len(part) : i < j => place[i] < place[j]
  BY <1>5 DEF Stood
<1>7. ASSUME NEW j \in 1 .. Len(part), NEW k \in 1 .. Len(part) PROVE Precedes(o, part[j], part[k]) <=> j < k
  <2> DEFINE a == part[j]
             b == part[k]
  <2>1. a = o[place[j]] /\ b = o[place[k]] /\ place[j] \in 1 .. Len(o) /\ place[k] \in 1 .. Len(o)
    BY <1>6
  <2> HIDE DEF a, b
  <2>2. ASSUME j < k PROVE Precedes(o, a, b)
    <3>1. place[j] < place[k]
      BY <1>6, <2>2
    <3>2. Precedes(o, o[place[j]], o[place[k]])
      BY <1>o, <2>1, <3>1 DEF IsOrder
    <3> QED BY <2>1, <3>2
  <2>3. ASSUME Precedes(o, a, b) PROVE j < k
    <3>1. PICK x, y \in 1 .. Len(o) : x < y /\ o[x] = a /\ o[y] = b
      BY <1>o, <2>3 DEF IsOrder
    <3>2. x = place[j] /\ y = place[k]
      <4>1. \A c, d \in 1 .. Len(o) : o[c] = o[d] => c = d
        BY <1>o DEF IsOrder
      <4> QED BY <2>1, <3>1, <4>1
    <3>3. CASE k = j
      BY <3>1, <3>2, <3>3
    <3>4. CASE k < j
      <4>1. place[k] < place[j]
        BY <1>6, <3>4
      <4> QED BY <2>1, <3>1, <3>2, <4>1
    <3> QED BY <1>3, <3>3, <3>4
  <2> QED BY <2>2, <2>3 DEF a, b
<1> QED BY <1>3, <1>4, <1>7 DEF part

\* The nodes and the buffers of a plan.
PlanNodes(g, o) == Only(o, {n \in Nodes(g) : g.kind[n] \in AudioBlockKinds})
PlanBuffers(g, o) == audio_buffers(g, o)

\* What rendering needs to know of a plan p.
IsPlan(g, o, p) ==
    /\ p.nodes \in Seq(Nodes(g)) /\ Len(p.nodes) \in Nat
    /\ \A n \in Nodes(g) : g.kind[n] \in AudioBlockKinds <=> \E j \in 1 .. Len(p.nodes) : p.nodes[j] = n
    /\ \A j, k \in 1 .. Len(p.nodes) : Precedes(o, p.nodes[j], p.nodes[k]) <=> j < k
    /\ \A j, k \in 1 .. Len(p.nodes) : p.nodes[j] = p.nodes[k] => j = k
    /\ p.buffers \in Seq(Nodes(g)) /\ DOMAIN p.buffers = 1 .. Len(p.buffers) /\ Len(p.buffers) \in Nat
    /\ \A b \in DOMAIN p.buffers : g.kind[p.buffers[b]] \in AudioBlockKinds /\ SignalOutputs(g.kind[p.buffers[b]]) # {}
    /\ \A n \in Nodes(g) : g.kind[n] \in AudioBlockKinds /\ SignalOutputs(g.kind[n]) # {} =>
         BufferOf(p, n) \in DOMAIN p.buffers /\ p.buffers[BufferOf(p, n)] = n
    /\ \A b, c \in DOMAIN p.buffers : p.buffers[b] = p.buffers[c] => b = c

LEMMA PlanFacts ==
    ASSUME NEW g, IsGraph(g), NEW o \in PlannedOrders(g), NEW p,
           p.nodes = PlanNodes(g, o), p.buffers = PlanBuffers(g, o)
    PROVE  IsPlan(g, o, p)
<1> DEFINE N == {n \in Nodes(g) : g.kind[n] \in AudioBlockKinds}
           S == {n \in Nodes(g) : g.kind[n] \in AudioBlockKinds /\ SignalOutputs(g.kind[n]) # {}}
<1>1. N \subseteq Nodes(g) /\ S \subseteq Nodes(g)
  OBVIOUS
<1>2. p.nodes = Only(o, N) /\ p.buffers = Only(o, S)
  BY DEF PlanNodes, PlanBuffers, audio_buffers
<1>N. \A n \in Nodes(g) : n \in N <=> g.kind[n] \in AudioBlockKinds
  OBVIOUS
<1>S. \A n \in Nodes(g) : n \in S <=> g.kind[n] \in AudioBlockKinds /\ SignalOutputs(g.kind[n]) # {}
  OBVIOUS
<1> HIDE DEF N, S
<1>3. /\ p.nodes \in Seq(Nodes(g)) /\ Len(p.nodes) \in Nat /\ DOMAIN p.nodes = 1 .. Len(p.nodes)
      /\ ToSet(p.nodes) = N
      /\ \A j, k \in 1 .. Len(p.nodes) : Precedes(o, p.nodes[j], p.nodes[k]) <=> j < k
  BY <1>1, <1>2, PartOfOrder
<1>4. /\ p.buffers \in Seq(Nodes(g)) /\ Len(p.buffers) \in Nat /\ DOMAIN p.buffers = 1 .. Len(p.buffers)
      /\ ToSet(p.buffers) = S
      /\ \A j, k \in 1 .. Len(p.buffers) : Precedes(o, p.buffers[j], p.buffers[k]) <=> j < k
  BY <1>1, <1>2, PartOfOrder
<1>5. \A n \in Nodes(g) : g.kind[n] \in AudioBlockKinds <=> \E j \in 1 .. Len(p.nodes) : p.nodes[j] = n
  BY <1>3, <1>N DEF ToSet
<1>6. ASSUME NEW s, NEW L \in Nat, \A j, k \in 1 .. L : Precedes(o, s[j], s[k]) <=> j < k,
             NEW j \in 1 .. L, NEW k \in 1 .. L, s[j] = s[k]
      PROVE  j = k
  <2> DEFINE P(a, b) == Precedes(o, s[a], s[b])
  <2>0. P(j, k) <=> P(k, k)
    BY <1>6
  <2>1. (P(j, k) <=> j < k) /\ (P(k, j) <=> k < j) /\ (P(k, k) <=> k < k)
    BY <1>6
  <2>2. P(k, j) <=> P(k, k)
    BY <1>6
  <2> HIDE DEF P
  <2> QED BY <2>0, <2>1, <2>2
<1>7. \A j, k \in 1 .. Len(p.nodes) : p.nodes[j] = p.nodes[k] => j = k
  BY <1>3, <1>6
<1>8. \A b, c \in DOMAIN p.buffers : p.buffers[b] = p.buffers[c] => b = c
  BY <1>4, <1>6
<1>9. ASSUME NEW b \in DOMAIN p.buffers
      PROVE  g.kind[p.buffers[b]] \in AudioBlockKinds /\ SignalOutputs(g.kind[p.buffers[b]]) # {}
  <2>1. p.buffers[b] \in S /\ p.buffers[b] \in Nodes(g)
    BY <1>4 DEF ToSet
  <2> QED BY <2>1, <1>S
<1>10. ASSUME NEW n \in Nodes(g), g.kind[n] \in AudioBlockKinds, SignalOutputs(g.kind[n]) # {}
       PROVE  BufferOf(p, n) \in DOMAIN p.buffers /\ p.buffers[BufferOf(p, n)] = n
  <2>1. n \in ToSet(p.buffers)
    BY <1>4, <1>10, <1>S
  <2>2. \E b \in DOMAIN p.buffers : p.buffers[b] = n
    BY <2>1 DEF ToSet
  <2>3. BufferOf(p, n) = CHOOSE b \in DOMAIN p.buffers : p.buffers[b] = n
    BY <2>1 DEF BufferOf
  <2> QED BY <2>2, <2>3
<1> QED BY <1>3, <1>4, <1>5, <1>7, <1>8, <1>9, <1>10 DEF IsPlan
LEMMA DivMod == ASSUME NEW a \in Int, NEW T \in Nat \ {0}
   PROVE a % T \in Int /\ a \div T \in Int /\ a = T * (a \div T) + (a % T) /\ 0 <= a % T /\ a % T < T
OBVIOUS

LEMMA ProductSign == ASSUME NEW x \in Nat, NEW y \in Nat PROVE x * y \in Nat
OBVIOUS

LEMMA SmallMultiple == ASSUME NEW x \in Int, NEW T \in Nat \ {0}, T * x < T, -T < T * x PROVE x = 0
<1>1. CASE x >= 1
  <2>1. x - 1 \in Nat /\ T * (x - 1) \in Nat
    BY <1>1, ProductSign
  <2>2. T * x = T * (x - 1) + T
    OBVIOUS
  <2> QED BY <2>1, <2>2
<1>2. CASE x <= -1
  <2>1. -x - 1 \in Nat /\ T * (-x - 1) \in Nat
    BY <1>2, ProductSign
  <2>2. T * x = - (T * (-x - 1)) - T
    OBVIOUS
  <2> QED BY <2>1, <2>2
<1> QED BY <1>1, <1>2

LEMMA ModPlus == ASSUME NEW a \in Int, NEW b \in Int, NEW T \in Nat \ {0}
   PROVE ((a % T) + b) % T = (a + b) % T
<1> DEFINE q == a \div T
           r == a % T
           q2 == (r + b) \div T
           r2 == (r + b) % T
           q3 == (a + b) \div T
           r3 == (a + b) % T
<1>1. q \in Int /\ r \in Int /\ a = T * q + r /\ 0 <= r /\ r < T
  BY DivMod
<1>2. q2 \in Int /\ r2 \in Int /\ r + b = T * q2 + r2 /\ 0 <= r2 /\ r2 < T
  BY <1>1, DivMod
<1>3. q3 \in Int /\ r3 \in Int /\ a + b = T * q3 + r3 /\ 0 <= r3 /\ r3 < T
  BY DivMod
<1> HIDE DEF q, r, q2, r2, q3, r3
<1>4. T * (q3 - q - q2) = r2 - r3
  BY <1>1, <1>2, <1>3
<1>5. q3 - q - q2 = 0
  BY <1>1, <1>2, <1>3, <1>4, SmallMultiple
<1>6. r2 = r3
  BY <1>2, <1>3, <1>4, <1>5
<1> QED BY <1>6 DEF r2, r3, r

----------------------------------------------------------------------------
(* Rendering.                                                              *)
(*                                                                         *)
(* While a block is rendered, a buffer holds what its node sends in this   *)
(* block if the node's turn was already, and otherwise what is left of the *)
(* block before: silence offline, its samples in realtime.  RenderInv says *)
(* so, and which phase the oscillators have reached by then.               *)

AudioRunning == engine \in {"offline", "realtime"}
AudioDelay == IF engine = "offline" THEN StreamLength ELSE options.block
AudioSignal == Signal(graph, order, AudioDelay)

\* The plan's node n had its turn in this block.
HadTurn(n) == \E j \in 1 .. at - 1 : plan.nodes[j] = n

\* What the buffer of node n holds at its i-th place.
HeldSample(n, i) ==
    IF HadTurn(n) THEN AudioSignal[<<n, rendered * options.block + (i - 1)>>]
    ELSE IF engine = "offline" \/ rendered = 0 THEN 0
    ELSE AudioSignal[<<n, (rendered - 1) * options.block + (i - 1)>>]

\* The blocks for which oscillator n has run.
BlocksRun(n) == IF HadTurn(n) THEN rendered + 1 ELSE rendered

AskedInv ==
    graph \in Graphs /\ options \in Options /\ order \in PlannedOrders(graph)

BeginInv ==
    engine = "idle" =>
      /\ at = 1 /\ rendered = 0 /\ phases = [n \in Nodes(graph) |-> 0]
      /\ reports = <<>> /\ snapshots = {}
      /\ callback = [total |-> 0, offset |-> 0, output |-> <<>>, start |-> 0]

PlanInv ==
    AudioRunning =>
      /\ plan = build_audio_dsp_plan /\ PlanError = "none"
      /\ at \in 1 .. Len(plan.nodes) + 1
      /\ rendered \in Nat

BuffersInv ==
    AudioRunning =>
      /\ DOMAIN buffers = DOMAIN plan.buffers
      /\ \A b \in DOMAIN plan.buffers : \A i \in 1 .. options.block :
           buffers[b][i] = HeldSample(plan.buffers[b], i)

PhasesInv ==
    AudioRunning =>
      /\ DOMAIN phases = Nodes(graph)
      /\ \A n \in Nodes(graph) : graph.kind[n] = "osc" =>
           phases[n] = (BlocksRun(n) * options.block * oscillator_frequency(graph, n)) % Turn

OfflineInv ==
    engine = "offline" =>
      /\ options.blocks \in Nat /\ rendered < options.blocks
      /\ reports \in Seq(ToSet(reports)) /\ Len(reports) = rendered

RealtimeInv ==
    engine = "realtime" =>
      /\ reports = <<>> /\ snapshots = {}
      /\ options.channels > 0
      /\ \A n \in ToSet(plan.nodes) : graph.kind[n] \in {"sig", "osc", "mul", "output"}
      /\ \E n \in ToSet(plan.nodes) : graph.kind[n] = "output"
      /\ callback \in [total : Nat, offset : Nat, start : Nat, output : Seq(ToSet(callback.output))]
      /\ callback.offset <= callback.total /\ callback.start <= rendered
      /\ Len(callback.output) = callback.offset
      /\ CallbackDone \/ callback.offset = (rendered - callback.start) * options.block

RenderInv ==
    /\ AskedInv /\ BeginInv /\ PlanInv /\ BuffersInv /\ PhasesInv /\ OfflineInv /\ RealtimeInv
    /\ OfflineIsSignal /\ RealtimeIsSignal

\* What a running engine has been given and has planned.
LEMMA RunningFacts ==
    ASSUME AskedInv, PlanInv, OfflineInv, AudioRunning
    PROVE  /\ IsGraph(graph) /\ order \in PlannedOrders(graph) /\ IsPlan(graph, order, plan)
           /\ options.block \in Nat \ {0} /\ AudioDelay \in Nat \ {0} /\ options.channels \in Nat
           /\ \A n \in Nodes(graph) : SignalOutputs(graph.kind[n]) # {} => graph.kind[n] \in AudioBlockKinds
<1>1. IsGraph(graph) /\ IsOptions(options)
  BY GraphsAssumption, OptionsAssumption DEF AskedInv
<1>2. options.block \in Nat /\ options.blocks \in Nat /\ options.channels \in Nat
  BY <1>1 DEF IsOptions
<1>3. plan = build_audio_dsp_plan /\ PlanError = "none"
  BY DEF PlanInv
<1>4. options.block # 0 /\ ~ reject_signal_ports_outside_audio_block(graph)
  BY <1>3 DEF PlanError
<1>5. plan.nodes = PlanNodes(graph, order) /\ plan.buffers = PlanBuffers(graph, order)
  BY <1>3 DEF build_audio_dsp_plan, PlanNodes, PlanBuffers
<1>6. IsPlan(graph, order, plan)
  BY <1>1, <1>5, PlanFacts DEF AskedInv
<1>7. AudioDelay \in Nat \ {0}
  <2>1. CASE engine = "offline"
    <3>1. rendered \in Nat /\ rendered < options.blocks
      BY <2>1 DEF OfflineInv, PlanInv
    <3>2. options.blocks - 1 \in Nat /\ options.block - 1 \in Nat
      BY <1>2, <1>4, <3>1
    <3>3. (options.blocks - 1) * options.block \in Nat
      BY <1>2, <3>2, ProductSign
    <3>4. options.blocks * options.block = (options.blocks - 1) * options.block + options.block
      BY <1>2
    <3> QED BY <1>2, <1>4, <2>1, <3>3, <3>4 DEF AudioDelay, StreamLength
  <2>2. CASE engine # "offline"
    BY <1>2, <1>4, <2>2 DEF AudioDelay
  <2> QED BY <2>1, <2>2
<1>8. \A n \in Nodes(graph) : SignalOutputs(graph.kind[n]) # {} => graph.kind[n] \in AudioBlockKinds
  BY <1>4 DEF reject_signal_ports_outside_audio_block
<1> QED BY <1>1, <1>2, <1>4, <1>6, <1>7, <1>8 DEF AskedInv

\* The time a place of the current block stands for.
Now(i) == rendered * options.block + (i - 1)

LEMMA NowFacts ==
    ASSUME NEW r \in Nat, NEW B \in Nat \ {0}, NEW i \in 1 .. B
    PROVE  /\ r * B \in Nat /\ r * B + (i - 1) \in Nat
           /\ (r + 1) * B = r * B + B
           /\ r # 0 => (r - 1) * B = r * B - B /\ (r - 1) * B \in Nat
           /\ \A n \in Nat : r < n => r * B + (i - 1) < n * B
<1>1. r * B \in Nat
  BY ProductSign
<1>2. ASSUME r # 0 PROVE (r - 1) * B = r * B - B /\ (r - 1) * B \in Nat
  <2>1. r - 1 \in Nat
    BY <1>2
  <2>2. (r - 1) * B \in Nat
    BY <2>1, ProductSign
  <2> QED BY <2>2
<1>3. ASSUME NEW n \in Nat, r < n PROVE r * B + (i - 1) < n * B
  <2>1. n - r - 1 \in Nat
    BY <1>3
  <2>2. (n - r - 1) * B \in Nat
    BY <2>1, ProductSign
  <2>3. n * B = r * B + B + (n - r - 1) * B
    OBVIOUS
  <2> QED BY <1>1, <2>2, <2>3
<1> QED BY <1>1, <1>2, <1>3

\* What a node reads at a port is what arrives there.
LEMMA InputArrives ==
    ASSUME AskedInv, PlanInv, BuffersInv, OfflineInv, AudioRunning,
           NEW n \in Nodes(graph), NEW port, NEW i \in 1 .. options.block,
           \/ at <= Len(plan.nodes) /\ n = plan.nodes[at] /\ graph.kind[n] # "output"
           \/ at > Len(plan.nodes) /\ graph.kind[n] = "output"
    PROVE  Sample(signal_input_buffer(plan, graph, n, port), i)
             = Arrives(graph, order, AudioDelay, AudioSignal, n, port, Now(i))
<1> DEFINE g == graph
           into == SignalInto(graph, n, port)
           e == Head(into)
           m == e.from
           b == BufferOf(plan, m)
           behind == Late(graph, order, e)
           sent == IF behind THEN Now(i) - AudioDelay ELSE Now(i)
<1>1. /\ IsGraph(graph) /\ order \in PlannedOrders(graph) /\ IsPlan(graph, order, plan)
      /\ options.block \in Nat \ {0} /\ AudioDelay \in Nat \ {0}
      /\ \A k \in Nodes(graph) : SignalOutputs(graph.kind[k]) # {} => graph.kind[k] \in AudioBlockKinds
  BY RunningFacts
<1>2. rendered \in Nat /\ at \in 1 .. Len(plan.nodes) + 1 /\ Len(plan.nodes) \in Nat
  BY <1>1 DEF PlanInv, IsPlan
<1>P. \A j, k \in 1 .. Len(plan.nodes) : Precedes(order, plan.nodes[j], plan.nodes[k]) <=> j < k
  BY <1>1 DEF IsPlan
<1>3. Now(i) \in Nat
  BY <1>1, <1>2, NowFacts DEF Now
<1>4. CASE into = <<>>
  <2>1. signal_input_buffer(plan, graph, n, port) = 0
    BY <1>4 DEF signal_input_buffer
  <2>2. 0 \notin DOMAIN buffers
    BY <1>1 DEF IsPlan, BuffersInv
  <2> QED BY <1>4, <2>1, <2>2 DEF Sample, Arrives
<1>5. CASE into # <<>>
  <2>1. e \in SignalEdges(graph) /\ e.to = n /\ m \in Nodes(graph)
    BY <1>1, <1>5, IntoFacts
  <2>2. signal_input_buffer(plan, graph, n, port) = b
    BY <1>5 DEF signal_input_buffer
  <2>3. Arrives(graph, order, AudioDelay, AudioSignal, n, port, Now(i))
          = IF sent < 0 THEN 0 ELSE AudioSignal[<<m, sent>>]
    BY <1>5 DEF Arrives
  <2>4. SignalOutputs(graph.kind[m]) # {} /\ graph.kind[m] \in AudioBlockKinds
    BY <1>1, <2>1 DEF SignalEdges, is_audio_signal_edge
  <2>L. behind <=> e.feedback /\ graph.kind[n] # "output" /\ ~ Precedes(order, m, n)
    BY <2>1 DEF Late
  <2>P. behind \/ graph.kind[n] = "output" \/ Precedes(order, m, n)
    BY <1>1, <2>1, PlannedEdge
  <2> HIDE DEF m, behind
  <2>5. b \in DOMAIN plan.buffers /\ plan.buffers[b] = m
    BY <1>1, <2>1, <2>4 DEF IsPlan
  <2> HIDE DEF b
  <2>6. Sample(b, i) = HeldSample(m, i)
    BY <2>5 DEF Sample, BuffersInv
  <2>7. \E j \in 1 .. Len(plan.nodes) : plan.nodes[j] = m
    BY <1>1, <2>1, <2>4 DEF IsPlan
  <2>8. CASE ~ behind
    <3>1. HadTurn(m)
      <4>1. CASE at > Len(plan.nodes)
        BY <1>2, <2>7, <4>1 DEF HadTurn
      <4>2. CASE at <= Len(plan.nodes)
        <5>1. n = plan.nodes[at] /\ Precedes(order, m, n)
          BY <1>2, <2>8, <2>P, <4>2
        <5>2. PICK j \in 1 .. Len(plan.nodes) : plan.nodes[j] = m
          BY <2>7
        <5>3. j < at
          BY <1>2, <1>P, <4>2, <5>1, <5>2
        <5> QED BY <1>2, <5>2, <5>3 DEF HadTurn
      <4> QED BY <1>2, <4>1, <4>2
    <3>2. sent = Now(i) /\ ~ (sent < 0)
      BY <1>3, <2>8
    <3>3. HeldSample(m, i) = AudioSignal[<<m, Now(i)>>]
      BY <3>1 DEF HeldSample, Now
    <3> HIDE DEF sent
    <3> QED BY <2>2, <2>3, <2>6, <3>2, <3>3
  <2>9. CASE behind
    <3>1. at <= Len(plan.nodes) /\ n = plan.nodes[at]
      BY <1>2, <2>9, <2>L
    <3>2. ~ HadTurn(m)
      <4> SUFFICES ASSUME NEW j \in 1 .. at - 1, plan.nodes[j] = m PROVE FALSE
        BY DEF HadTurn
      <4>1. Precedes(order, plan.nodes[j], plan.nodes[at])
        <5>1. j \in 1 .. Len(plan.nodes) /\ at \in 1 .. Len(plan.nodes) /\ j < at
          BY <1>2, <3>1
        <5> QED BY <1>P, <5>1
      <4> QED BY <2>9, <2>L, <3>1, <4>1
    <3>3. sent = Now(i) - AudioDelay
      BY <2>9
    <3>4. CASE engine = "offline"
      <4>1. AudioDelay = options.blocks * options.block /\ options.blocks \in Nat /\ rendered < options.blocks
        BY <3>4 DEF AudioDelay, StreamLength, OfflineInv
      <4>2. Now(i) < AudioDelay
        BY <1>1, <1>2, <4>1, NowFacts DEF Now
      <4>3. sent < 0
        BY <1>1, <1>3, <3>3, <4>2
      <4>4. HeldSample(m, i) = 0
        BY <3>2, <3>4 DEF HeldSample
      <4> HIDE DEF sent
      <4> QED BY <2>2, <2>3, <2>6, <4>3, <4>4
    <3>5. CASE engine = "realtime" /\ rendered = 0
      <4>1. Now(i) = i - 1 /\ AudioDelay = options.block
        BY <1>1, <3>5 DEF Now, AudioDelay
      <4>2. sent < 0
        BY <1>1, <3>3, <4>1
      <4>3. HeldSample(m, i) = 0
        BY <3>2, <3>5 DEF HeldSample
      <4> HIDE DEF sent
      <4> QED BY <2>2, <2>3, <2>6, <4>2, <4>3
    <3>6. CASE engine = "realtime" /\ rendered # 0
      <4>1. /\ (rendered - 1) * options.block = rendered * options.block - options.block
            /\ (rendered - 1) * options.block \in Nat /\ rendered * options.block \in Nat
        BY <1>1, <1>2, <3>6, NowFacts
      <4>2. sent = (rendered - 1) * options.block + (i - 1)
        <5>1. AudioDelay = options.block
          BY <3>6 DEF AudioDelay
        <5> QED BY <1>1, <3>3, <4>1, <5>1 DEF Now
      <4>3. ~ (sent < 0)
        BY <1>1, <4>1, <4>2
      <4>4. HeldSample(m, i) = AudioSignal[<<m, (rendered - 1) * options.block + (i - 1)>>]
        BY <3>2, <3>6 DEF HeldSample
      <4> HIDE DEF sent
      <4> QED BY <2>2, <2>3, <2>6, <4>2, <4>3, <4>4
    <3> QED BY <3>4, <3>5, <3>6 DEF AudioRunning
  <2> QED BY <2>8, <2>9
<1> QED BY <1>4, <1>5

----------------------------------------------------------------------------
(* One node's turn.                                                        *)

\* An oscillator's frequency is a number.
LEMMA FrequencyIsNumber ==
    ASSUME NEW g, IsGraph(g), NEW n \in Nodes(g)
    PROVE  oscillator_frequency(g, n) \in Int
<1> DEFINE E == {e \in ToSet(g.edges) : e.to = n /\ e.toPort = "frequency"}
           into == Only(g.edges, E)
<1>0. DefaultFrequency \in Int /\ NoParam \notin Int
  BY NumbersAssumption
<1>1. \A m \in Nodes(g) : g.param[m] \in Int \union {NoParam}
  BY DEF IsGraph
<1>2. ASSUME NEW m \in Nodes(g), NEW d \in Int PROVE param(g.param[m], d) \in Int
  BY <1>1 DEF param
<1>3. control_input(g, n, "frequency") = IF into = <<>> THEN NoParam ELSE param(g.param[Head(into).from], 0)
  BY DEF control_input
<1>4. ASSUME into # <<>> PROVE Head(into).from \in Nodes(g)
  <2>1. g.edges \in Seq(ToSet(g.edges))
    BY DEF IsGraph
  <2>2. into \in Seq(ToSet(g.edges)) /\ ToSet(into) = ToSet(g.edges) \cap E
    <3> HIDE DEF E
    <3> QED BY <2>1, OnlyFacts
  <2> HIDE DEF into
  <2>3. 1 \in DOMAIN into /\ Head(into) = into[1]
    BY <1>4, <2>2
  <2>4. Head(into) \in ToSet(g.edges)
    BY <2>2, <2>3 DEF ToSet
  <2> QED BY <2>4 DEF IsGraph
<1> HIDE DEF into
<1>5. control_input(g, n, "frequency") = NoParam \/ control_input(g, n, "frequency") \in Int
  <2>1. ASSUME into # <<>> PROVE param(g.param[Head(into).from], 0) \in Int
    <3> DEFINE from == Head(into).from
    <3>1. from \in Nodes(g)
      BY <1>4, <2>1
    <3> HIDE DEF from
    <3>2. param(g.param[from], 0) \in Int
      BY <1>2, <3>1
    <3> QED BY <3>2 DEF from
  <2> QED BY <1>3, <2>1
<1>6. param(g.param[n], DefaultFrequency) \in Int
  BY <1>0, <1>2
<1> QED BY <1>0, <1>5, <1>6 DEF oscillator_frequency

\* The phase an oscillator has reached after so many frames.
LEMMA PhaseGoesOn ==
    ASSUME NEW r \in Nat, NEW B \in Nat, NEW f \in Int, NEW d \in Int
    PROVE  (((r * B * f) % Turn) + d * f) % Turn = ((r * B + d) * f) % Turn
<1>1. Turn \in Nat \ {0}
  BY NumbersAssumption
<1>2. r * B \in Int /\ r * B * f \in Int /\ d * f \in Int
  OBVIOUS
<1>3. (((r * B * f) % Turn) + d * f) % Turn = (r * B * f + d * f) % Turn
  BY <1>1, <1>2, ModPlus
<1>4. r * B * f + d * f = (r * B + d) * f
  OBVIOUS
<1> QED BY <1>3, <1>4

\* The node whose turn it is.
Current == plan.nodes[at]

\* The samples of a node that has an output of its own are what it sends.
LEMMA SamplesAreSent ==
    ASSUME AskedInv, PlanInv, BuffersInv, PhasesInv, OfflineInv, AudioRunning,
           at <= Len(plan.nodes), graph.kind[Current] # "output",
           NEW i \in 1 .. options.block
    PROVE  LET sent == Sends(graph, order, AudioDelay, AudioSignal, Current, Now(i))
           IN  /\ graph.kind[Current] = "sig" => render_sig(Current)[i] = sent
               /\ graph.kind[Current] = "osc" => render_osc(Current)[i] = sent
               /\ graph.kind[Current] = "mul" => render_mul(Current)[i] = sent
<1> DEFINE n == Current
           sent == Sends(graph, order, AudioDelay, AudioSignal, n, Now(i))
<1>1. /\ IsGraph(graph) /\ order \in PlannedOrders(graph) /\ IsPlan(graph, order, plan)
      /\ options.block \in Nat \ {0} /\ AudioDelay \in Nat \ {0}
  BY RunningFacts
<1>2. rendered \in Nat /\ at \in 1 .. Len(plan.nodes)
  BY <1>1 DEF PlanInv, IsPlan
<1>3. n \in Nodes(graph)
  BY <1>1, <1>2 DEF IsPlan, Current
<1>4. n = plan.nodes[at]
  BY DEF Current
<1> HIDE DEF n
<1>5. ASSUME graph.kind[n] = "sig" PROVE render_sig(n)[i] = sent
  BY <1>5 DEF render_sig, Sends
<1>6. ASSUME graph.kind[n] = "osc" PROVE render_osc(n)[i] = sent
  <2> DEFINE f == oscillator_frequency(graph, n)
  <2>1. f \in Int
    BY <1>1, <1>3, FrequencyIsNumber
  <2>2. ~ HadTurn(n)
    BY <1>1, <1>2, <1>4 DEF HadTurn, IsPlan
  <2>3. phases[n] = (rendered * options.block * f) % Turn
    BY <1>3, <1>6, <2>2 DEF PhasesInv, BlocksRun
  <2>4. render_osc(n)[i] = (phases[n] + (i - 1) * f) % Turn
    BY DEF render_osc, Increment
  <2>5. sent = (Now(i) * f) % Turn
    BY <1>6 DEF Sends
  <2> HIDE DEF f
  <2>6. i - 1 \in Int
    BY <1>1
  <2>7. (((rendered * options.block * f) % Turn) + (i - 1) * f) % Turn
          = ((rendered * options.block + (i - 1)) * f) % Turn
    <3>1. rendered \in Nat /\ options.block \in Nat
      BY <1>1, <1>2
    <3> QED BY <2>1, <2>6, <3>1, PhaseGoesOn, Zenon
  <2> QED BY <2>3, <2>4, <2>5, <2>7 DEF Now
<1>7. ASSUME graph.kind[n] = "mul" PROVE render_mul(n)[i] = sent
  <2>1. \A port : Sample(signal_input_buffer(plan, graph, n, port), i)
                    = Arrives(graph, order, AudioDelay, AudioSignal, n, port, Now(i))
    BY <1>2, <1>3, <1>4, <1>7, InputArrives
  <2>2. render_mul(n)[i] = Sample(signal_input_buffer(plan, graph, n, "left"), i)
                             * Sample(signal_input_buffer(plan, graph, n, "right"), i)
    BY DEF render_mul
  <2>3. sent = Arrives(graph, order, AudioDelay, AudioSignal, n, "left", Now(i))
                 * Arrives(graph, order, AudioDelay, AudioSignal, n, "right", Now(i))
    BY <1>7 DEF Sends
  <2> QED BY <2>1, <2>2, <2>3
<1> QED BY <1>5, <1>6, <1>7 DEF n

\* Plans do not change while they are rendered.
LEMMA PlanStays ==
    ASSUME UNCHANGED <<graph, options, order>>
    PROVE  build_audio_dsp_plan' = build_audio_dsp_plan /\ PlanError' = PlanError
BY DEF build_audio_dsp_plan, PlanError

LEMMA NodeRendered ==
    ASSUME AskedInv, PlanInv, BuffersInv, PhasesInv, OfflineInv, AudioRunning,
           at <= Len(plan.nodes), graph.kind[Current] \in {"sig", "osc", "mul", "snapshot", "output"},
           RenderNode(Current), at' = at + 1,
           UNCHANGED <<graph, options, order, engine, plan, rendered>>
    PROVE  PlanInv' /\ BuffersInv' /\ PhasesInv'
<1>n. PICK n : n = Current
  OBVIOUS
<1> DEFINE B == options.block
<1>1. /\ IsGraph(graph) /\ order \in PlannedOrders(graph) /\ IsPlan(graph, order, plan)
      /\ options.block \in Nat \ {0} /\ AudioDelay \in Nat \ {0}
  BY RunningFacts
<1>2. rendered \in Nat /\ at \in 1 .. Len(plan.nodes) /\ Len(plan.nodes) \in Nat
  BY <1>1 DEF PlanInv, IsPlan
<1>3. n \in Nodes(graph) /\ n = plan.nodes[at]
  BY <1>1, <1>2, <1>n DEF IsPlan, Current
<1>4. /\ AudioRunning' /\ AudioDelay' = AudioDelay /\ AudioSignal' = AudioSignal
      /\ Nodes(graph)' = Nodes(graph)
  BY DEF AudioRunning, AudioDelay, StreamLength, AudioSignal
<1>5. \A m : HadTurn(m)' <=> HadTurn(m) \/ m = n
  <2>1. at' - 1 = at /\ plan' = plan
    BY <1>2
  <2>2. 1 .. at = 1 .. at - 1 \union {at}
    BY <1>2
  <2> QED BY <1>3, <2>1, <2>2 DEF HadTurn
<1>6. ~ HadTurn(n)
  BY <1>1, <1>2, <1>3 DEF HadTurn, IsPlan
<1>7. PlanInv'
  <2>1. at' \in 1 .. Len(plan.nodes) + 1
    BY <1>2
  <2> QED BY <1>2, <2>1, PlanStays DEF PlanInv
<1>8. \A m, i : m # n => HeldSample(m, i)' = HeldSample(m, i)
  BY <1>4, <1>5 DEF HeldSample
<1>9. \A i : HeldSample(n, i)' = AudioSignal[<<n, Now(i)>>]
  BY <1>4, <1>5 DEF HeldSample, Now
<1>10. ASSUME NEW i \in 1 .. B
       PROVE  AudioSignal[<<n, Now(i)>>] = Sends(graph, order, AudioDelay, AudioSignal, n, Now(i))
  <2>1. Now(i) \in Nat
    BY <1>1, <1>2, NowFacts DEF Now
  <2> QED BY <1>1, <1>3, <2>1, SignalFacts DEF AudioSignal
<1>11. BuffersInv'
  <2>1. /\ DOMAIN buffers = DOMAIN plan.buffers
        /\ \A b \in DOMAIN plan.buffers : \A i \in 1 .. B : buffers[b][i] = HeldSample(plan.buffers[b], i)
    BY DEF BuffersInv
  <2>2. ASSUME NEW samples, buffers' = [buffers EXCEPT ![BufferOf(plan, n)] = samples],
               SignalOutputs(graph.kind[n]) # {}, graph.kind[n] \in AudioBlockKinds,
               \A i \in 1 .. B : samples[i] = Sends(graph, order, AudioDelay, AudioSignal, n, Now(i))
        PROVE  BuffersInv'
    <3>1. BufferOf(plan, n) \in DOMAIN plan.buffers /\ plan.buffers[BufferOf(plan, n)] = n
      BY <1>1, <1>3, <2>2 DEF IsPlan
    <3>2. DOMAIN buffers' = DOMAIN plan.buffers
      BY <2>1, <2>2
    <3>3. ASSUME NEW b \in DOMAIN plan.buffers, NEW i \in 1 .. B
          PROVE  buffers'[b][i] = HeldSample(plan.buffers[b], i)'
      <4>1. CASE b = BufferOf(plan, n)
        <5>1. buffers'[b] = samples /\ plan.buffers[b] = n
          BY <2>1, <2>2, <3>1, <4>1
        <5>2. samples[i] = AudioSignal[<<n, Now(i)>>]
          BY <1>10, <2>2
        <5> QED BY <1>9, <5>1, <5>2
      <4>2. CASE b # BufferOf(plan, n)
        <5>1. buffers'[b] = buffers[b] /\ plan.buffers[b] # n
          BY <1>1, <2>1, <2>2, <3>1, <4>2 DEF IsPlan
        <5> QED BY <1>8, <2>1, <5>1
      <4> QED BY <4>1, <4>2
    <3> QED BY <3>2, <3>3 DEF BuffersInv
  <2>3. CASE graph.kind[n] = "sig"
    <3>1. buffers' = [buffers EXCEPT ![BufferOf(plan, n)] = render_sig(n)]
      BY <1>n, <2>3 DEF RenderNode, write_signal_output
    <3>2. \A i \in 1 .. B : render_sig(n)[i] = Sends(graph, order, AudioDelay, AudioSignal, n, Now(i))
      BY <2>3, <1>n, SamplesAreSent
    <3> QED BY <2>2, <2>3, <3>1, <3>2 DEF SignalOutputs, AudioBlockKinds
  <2>4. CASE graph.kind[n] = "osc"
    <3>1. buffers' = [buffers EXCEPT ![BufferOf(plan, n)] = render_osc(n)]
      BY <1>n, <2>4 DEF RenderNode, write_signal_output
    <3>2. \A i \in 1 .. B : render_osc(n)[i] = Sends(graph, order, AudioDelay, AudioSignal, n, Now(i))
      BY <2>4, <1>n, SamplesAreSent
    <3> QED BY <2>2, <2>4, <3>1, <3>2 DEF SignalOutputs, AudioBlockKinds
  <2>5. CASE graph.kind[n] = "mul"
    <3>1. buffers' = [buffers EXCEPT ![BufferOf(plan, n)] = render_mul(n)]
      BY <1>n, <2>5 DEF RenderNode, write_signal_output
    <3>2. \A i \in 1 .. B : render_mul(n)[i] = Sends(graph, order, AudioDelay, AudioSignal, n, Now(i))
      BY <2>5, <1>n, SamplesAreSent
    <3> QED BY <2>2, <2>5, <3>1, <3>2 DEF SignalOutputs, AudioBlockKinds
  <2>6. CASE graph.kind[n] \in {"snapshot", "output"}
    <3>1. buffers' = buffers
      BY <1>n, <2>6 DEF RenderNode
    <3>2. SignalOutputs(graph.kind[n]) = {}
      BY <2>6 DEF SignalOutputs
    <3>3. \A b \in DOMAIN plan.buffers : plan.buffers[b] # n
      BY <1>1, <3>2 DEF IsPlan
    <3> QED BY <1>8, <2>1, <3>1, <3>3 DEF BuffersInv
  <2> QED BY <1>n, <2>3, <2>4, <2>5, <2>6
<1>12. PhasesInv'
  <2>1. /\ DOMAIN phases = Nodes(graph)
        /\ \A m \in Nodes(graph) : graph.kind[m] = "osc" =>
             phases[m] = (BlocksRun(m) * B * oscillator_frequency(graph, m)) % Turn
    BY DEF PhasesInv
  <2>2. \A m : m # n => BlocksRun(m)' = BlocksRun(m)
    BY <1>5 DEF BlocksRun
  <2>3. BlocksRun(n) = rendered /\ BlocksRun(n)' = rendered + 1
    BY <1>5, <1>6 DEF BlocksRun
  <2>4. phases' = IF graph.kind[n] = "osc" THEN [phases EXCEPT ![n] = next_phase(n)] ELSE phases
    BY <1>n DEF RenderNode
  <2>5. DOMAIN phases' = Nodes(graph)
    BY <2>1, <2>4
  <2>6. ASSUME NEW m \in Nodes(graph), graph.kind[m] = "osc"
        PROVE  phases'[m] = (BlocksRun(m)' * B * oscillator_frequency(graph, m)) % Turn
    <3>1. CASE m # n
      <4>1. phases'[m] = phases[m]
        BY <2>1, <2>4, <3>1
      <4> QED BY <2>1, <2>2, <2>6, <3>1, <4>1
    <3>2. CASE m = n
      <4> DEFINE f == oscillator_frequency(graph, n)
      <4>1. f \in Int
        BY <1>1, <1>3, FrequencyIsNumber
      <4>2. phases'[n] = (phases[n] + B * f) % Turn
        BY <1>3, <2>1, <2>4, <2>6, <3>2 DEF next_phase, Increment
      <4>3. phases[n] = (rendered * B * f) % Turn
        BY <1>3, <2>1, <2>3, <2>6, <3>2
      <4> HIDE DEF f
      <4>4. phases'[n] = ((rendered * B + B) * f) % Turn
        <5>1. (((rendered * B * f) % Turn) + B * f) % Turn = ((rendered * B + B) * f) % Turn
          <6>1. B \in Nat /\ B \in Int
            BY <1>1
          <6> HIDE DEF B
          <6> QED BY <1>2, <4>1, <6>1, PhaseGoesOn
        <5> QED BY <4>2, <4>3, <5>1
      <4>5. (rendered + 1) * B = rendered * B + B
        BY <1>1, <1>2
      <4> QED BY <2>3, <3>2, <4>4, <4>5 DEF f
    <3> QED BY <3>1, <3>2
  <2> QED BY <1>4, <2>5, <2>6 DEF PhasesInv
<1> QED BY <1>7, <1>11, <1>12

----------------------------------------------------------------------------
(* Every step keeps the signal.                                            *)

\* Nothing more happens once the engine has stopped.
Stopped == engine \notin {"idle", "offline", "realtime"}

LEMMA StoppedKeeps ==
    ASSUME RenderInv, Stopped',
           UNCHANGED <<graph, options, order, reports, snapshots>>,
           plan' = plan \/ (reports = <<>> /\ snapshots = {})
    PROVE  RenderInv'
<1>1. AskedInv' /\ BeginInv' /\ PlanInv' /\ BuffersInv' /\ PhasesInv' /\ OfflineInv' /\ RealtimeInv' /\ RealtimeIsSignal'
  BY DEF RenderInv, AskedInv, BeginInv, PlanInv, BuffersInv, PhasesInv, OfflineInv, RealtimeInv,
         RealtimeIsSignal, AudioRunning, Stopped
<1>2. OfflineIsSignal'
  <2>1. CASE plan' = plan
    BY <2>1 DEF RenderInv, OfflineIsSignal, StreamLength
  <2>2. CASE reports = <<>> /\ snapshots = {}
    BY <2>2 DEF OfflineIsSignal
  <2> QED BY <2>1, <2>2
<1> QED BY <1>1, <1>2 DEF RenderInv

\* The first block begins with silence and phases of zero, offline and in realtime.
LEMMA FirstBlock ==
    ASSUME AskedInv, BeginInv, engine = "idle", PlanError = "none",
           engine' \in {"offline", "realtime"}, plan' = build_audio_dsp_plan, buffers' = SilentBuffers(build_audio_dsp_plan),
           UNCHANGED <<graph, options, order, at, phases, rendered>>
    PROVE  AskedInv' /\ BeginInv' /\ PlanInv' /\ BuffersInv' /\ PhasesInv'
<1>1. at' = 1 /\ rendered' = 0 /\ phases' = [n \in Nodes(graph) |-> 0]
  BY DEF BeginInv
<1>2. AskedInv' /\ BeginInv'
  BY DEF AskedInv, BeginInv
<1>3. IsPlan(graph, order, plan')
  <2>1. plan'.nodes = PlanNodes(graph, order) /\ plan'.buffers = PlanBuffers(graph, order)
    BY DEF build_audio_dsp_plan, PlanNodes, PlanBuffers
  <2>2. IsGraph(graph)
    BY GraphsAssumption DEF AskedInv
  <2> QED BY <2>1, <2>2, PlanFacts DEF AskedInv
<1>4. PlanInv'
  BY <1>1, <1>3, PlanStays DEF PlanInv, IsPlan
<1>5. \A n : ~ HadTurn(n)'
  BY <1>1 DEF HadTurn
<1>6. BuffersInv'
  <2>1. \A n, i : HeldSample(n, i)' = 0
    BY <1>1, <1>5 DEF HeldSample
  <2>2. DOMAIN buffers' = DOMAIN plan'.buffers /\ \A b \in DOMAIN plan'.buffers : buffers'[b] = Silence
    BY DEF SilentBuffers
  <2>3. \A i \in 1 .. options'.block : Silence[i] = 0
    BY DEF Silence
  <2> QED BY <2>1, <2>2, <2>3 DEF BuffersInv
<1>7. PhasesInv'
  <2>1. \A n : BlocksRun(n)' = 0
    BY <1>1, <1>5 DEF BlocksRun
  <2>2. options.block \in Nat
    BY OptionsAssumption DEF AskedInv, IsOptions
  <2>3. 0 % Turn = 0
    <3>1. Turn \in Nat \ {0}
      BY NumbersAssumption
    <3>2. 0 = Turn * (0 \div Turn) + (0 % Turn) /\ 0 <= 0 % Turn /\ 0 % Turn < Turn /\ 0 \div Turn \in Int /\ 0 % Turn \in Int
      BY <3>1, DivMod
    <3> QED BY <3>1, <3>2, SmallMultiple
  <2>4. ASSUME NEW n \in Nodes(graph) PROVE 0 * options.block * oscillator_frequency(graph, n) = 0
    <3>1. oscillator_frequency(graph, n) \in Int
      BY GraphsAssumption, FrequencyIsNumber DEF AskedInv
    <3> QED BY <2>2, <3>1
  <2>5. DOMAIN phases' = Nodes(graph) /\ \A n \in Nodes(graph) : phases'[n] = 0
    BY <1>1
  <2>6. ASSUME NEW n \in Nodes(graph)
        PROVE  phases'[n] = (BlocksRun(n)' * options.block * oscillator_frequency(graph, n)) % Turn
    BY <2>1, <2>3, <2>4, <2>5
  <2> QED BY <2>5, <2>6 DEF PhasesInv
<1> QED BY <1>2, <1>4, <1>6, <1>7

LEMMA RenderInvInit == AudioInit => RenderInv
BY DEF AudioInit, RenderInv, AskedInv, BeginInv, PlanInv, BuffersInv, PhasesInv, OfflineInv, RealtimeInv,
       OfflineIsSignal, RealtimeIsSignal, AudioRunning

\* An error is not the name of an engine that goes on.
LEMMA ErrorStops ==
    ASSUME NEW error, error # "idle", error # "offline", error # "realtime", Refuse(error)
    PROVE  Stopped'
BY DEF Refuse, Stopped

LEMMA PlanErrorIsError == PlanError # "idle" /\ PlanError # "offline" /\ PlanError # "realtime"
BY DEF PlanError

LEMMA BeginOffline ==
    ASSUME RenderInv, run_offline_audio_dsp
    PROVE  RenderInv'
<1>1. /\ engine = "idle"
      /\ UNCHANGED <<graph, options, order, at, phases, rendered, reports, snapshots, callback>>
  BY DEF run_offline_audio_dsp
<1>2. options.blocks \in Nat
  BY OptionsAssumption DEF RenderInv, AskedInv, IsOptions
<1>3. reports = <<>> /\ snapshots = {} /\ rendered = 0
  BY <1>1 DEF RenderInv, BeginInv
<1>4. CASE options.blocks = 0
  <2>1. Refuse("invalid-block-count")
    BY <1>2, <1>4 DEF run_offline_audio_dsp
  <2> QED BY <1>1, <1>3, <2>1, ErrorStops, StoppedKeeps
<1>5. CASE options.blocks > 0 /\ PlanError # "none"
  <2>1. Refuse(PlanError)
    BY <1>2, <1>5 DEF run_offline_audio_dsp
  <2>2. Stopped'
    BY <2>1, PlanErrorIsError DEF Refuse, Stopped
  <2> QED BY <1>1, <1>3, <2>2, StoppedKeeps
<1>6. CASE options.blocks > 0 /\ PlanError = "none"
  <2>1. engine' = "offline" /\ plan' = build_audio_dsp_plan /\ buffers' = SilentBuffers(build_audio_dsp_plan)
    BY <1>2, <1>6 DEF run_offline_audio_dsp
  <2>2. AskedInv' /\ BeginInv' /\ PlanInv' /\ BuffersInv' /\ PhasesInv'
    BY <1>1, <1>6, <2>1, FirstBlock DEF RenderInv
  <2>3. OfflineInv'
    BY <1>1, <1>2, <1>3, <1>6 DEF OfflineInv
  <2>4. RealtimeInv' /\ RealtimeIsSignal'
    BY <2>1 DEF RealtimeInv, RealtimeIsSignal
  <2>5. OfflineIsSignal'
    BY <1>1, <1>3 DEF OfflineIsSignal
  <2> QED BY <2>2, <2>3, <2>4, <2>5 DEF RenderInv
<1> QED BY <1>2, <1>4, <1>5, <1>6

LEMMA BeginRealtime ==
    ASSUME RenderInv, new_executor
    PROVE  RenderInv'
<1> DEFINE p == build_audio_dsp_plan
           outputs == Only(p.nodes, {n \in Nodes(graph) : graph.kind[n] = "output"})
           Unsupported == \E n \in ToSet(p.nodes) : graph.kind[n] \notin {"sig", "osc", "mul", "output"}
<1>1. /\ engine = "idle"
      /\ UNCHANGED <<graph, options, order, at, phases, rendered, reports, snapshots, callback>>
  BY DEF new_executor
<1>2. options.channels \in Nat
  BY OptionsAssumption DEF RenderInv, AskedInv, IsOptions
<1>3. /\ reports = <<>> /\ snapshots = {} /\ rendered = 0
      /\ callback = [total |-> 0, offset |-> 0, output |-> <<>>, start |-> 0]
  BY <1>1 DEF RenderInv, BeginInv
<1>4. CASE options.channels = 0
  <2>1. Refuse("invalid-channel-count")
    BY <1>2, <1>4 DEF new_executor
  <2> QED BY <1>1, <1>3, <2>1, ErrorStops, StoppedKeeps
<1>5. CASE options.channels > 0 /\ PlanError # "none"
  <2>1. Refuse(PlanError)
    BY <1>2, <1>5 DEF new_executor
  <2>2. Stopped'
    BY <2>1, PlanErrorIsError DEF Refuse, Stopped
  <2> QED BY <1>1, <1>3, <2>2, StoppedKeeps
<1>6. CASE options.channels > 0 /\ PlanError = "none" /\ Len(outputs) # 1
  <2>1. Refuse("output-count")
    BY <1>2, <1>6 DEF new_executor
  <2> QED BY <1>1, <1>3, <2>1, ErrorStops, StoppedKeeps
<1>7. CASE options.channels > 0 /\ PlanError = "none" /\ Len(outputs) = 1 /\ Unsupported
  <2>1. Refuse("unsupported-node-kind")
    BY <1>2, <1>7 DEF new_executor
  <2> QED BY <1>1, <1>3, <2>1, ErrorStops, StoppedKeeps
<1>8. CASE options.channels > 0 /\ PlanError = "none" /\ Len(outputs) = 1 /\ ~ Unsupported
  <2>1. engine' = "realtime" /\ plan' = p /\ buffers' = SilentBuffers(p)
    BY <1>2, <1>8 DEF new_executor
  <2>2. AskedInv' /\ BeginInv' /\ PlanInv' /\ BuffersInv' /\ PhasesInv'
    <3>1. AskedInv /\ BeginInv
      BY DEF RenderInv
    <3> QED BY <1>1, <1>8, <2>1, <3>1, FirstBlock
  <2>3. \E n \in ToSet(p.nodes) : graph.kind[n] = "output"
    <3> DEFINE O == {n \in Nodes(graph) : graph.kind[n] = "output"}
    <3>1. p.nodes \in Seq(Nodes(graph))
      <4>1. p.nodes = PlanNodes(graph, order)
        BY DEF build_audio_dsp_plan, PlanNodes
      <4>2. IsGraph(graph) /\ order \in PlannedOrders(graph)
        BY GraphsAssumption DEF RenderInv, AskedInv
      <4>3. {n \in Nodes(graph) : graph.kind[n] \in AudioBlockKinds} \subseteq Nodes(graph)
        OBVIOUS
      <4> QED BY <4>1, <4>2, <4>3, PartOfOrder DEF PlanNodes
    <3>2. outputs \in Seq(Nodes(graph)) /\ ToSet(outputs) = ToSet(p.nodes) \cap O
      <4> HIDE DEF p, O
      <4>1. Only(p.nodes, O) \in Seq(Nodes(graph)) /\ ToSet(Only(p.nodes, O)) = ToSet(p.nodes) \cap O
        BY <3>1, OnlyFacts
      <4> QED BY <4>1 DEF O
    <3> HIDE DEF p
    <3>3. outputs[1] \in ToSet(outputs)
      <4> HIDE DEF outputs
      <4>1. Len(outputs) = 1
        BY <1>8
      <4>2. 1 \in DOMAIN outputs
        BY <3>2, <4>1
      <4> QED BY <4>2 DEF ToSet
    <3> QED BY <3>2, <3>3
  <2>4. RealtimeInv'
    <3>1. CallbackDone'
      BY <1>1, <1>3 DEF CallbackDone
    <3>2. \A n \in ToSet(p.nodes) : graph.kind[n] \in {"sig", "osc", "mul", "output"}
      BY <1>8
    <3> HIDE DEF p
    <3>3. /\ callback'.total \in Nat /\ callback'.offset \in 0 .. callback'.total
          /\ callback'.start \in 0 .. rendered'
          /\ callback'.output \in Seq(ToSet(callback'.output)) /\ Len(callback'.output) = callback'.offset
      BY <1>1, <1>3
    <3> QED BY <1>1, <1>3, <1>8, <2>1, <2>3, <3>1, <3>2, <3>3 DEF RealtimeInv
  <2>5. OfflineInv' /\ OfflineIsSignal'
    BY <1>1, <1>3, <2>1 DEF OfflineInv, OfflineIsSignal
  <2>6. RealtimeIsSignal'
    <3>1. DOMAIN callback'.output = {}
      BY <1>1, <1>3
    <3> QED BY <3>1 DEF RealtimeIsSignal
  <2> QED BY <2>2, <2>4, <2>5, <2>6 DEF RenderInv
<1> QED BY <1>2, <1>4, <1>5, <1>6, <1>7, <1>8

\* A turn offline: a snapshot takes what arrives at its port.
LEMMA OfflineNodeKeeps ==
    ASSUME RenderInv, OfflineNode
    PROVE  RenderInv'
<1>0. /\ AskedInv /\ PlanInv /\ BuffersInv /\ PhasesInv /\ OfflineInv /\ OfflineIsSignal
      /\ engine = "offline" /\ AudioRunning
      /\ UNCHANGED <<graph, options, order, plan, rendered, reports, callback>>
      /\ at <= Len(plan.nodes)
  BY DEF RenderInv, OfflineNode, AudioRunning
<1>1. /\ IsGraph(graph) /\ order \in PlannedOrders(graph) /\ IsPlan(graph, order, plan)
      /\ options.block \in Nat \ {0} /\ AudioDelay \in Nat \ {0}
  BY <1>0, RunningFacts
<1>2. rendered \in Nat /\ at \in 1 .. Len(plan.nodes)
  BY <1>0, <1>1 DEF PlanInv, IsPlan
<1>3. Current \in Nodes(graph)
  BY <1>1, <1>2 DEF IsPlan, Current
<1>4. CASE graph.kind[Current] \notin {"sig", "osc", "mul", "snapshot"}
  <2>1. engine' = "unsupported-node-kind" /\ snapshots' = snapshots
    BY <1>4 DEF OfflineNode, Current
  <2>2. Stopped'
    BY <2>1 DEF Stopped
  <2> QED BY <1>0, <2>1, <2>2, StoppedKeeps
<1>5. CASE graph.kind[Current] \in {"sig", "osc", "mul", "snapshot"}
  <2>1. /\ RenderNode(Current) /\ at' = at + 1 /\ engine' = engine
        /\ snapshots' = IF graph.kind[Current] = "snapshot"
                        THEN snapshots \union
                               {<<rendered, Current, Sample(signal_input_buffer(plan, graph, Current, "signal"), 1)>>}
                        ELSE snapshots
    BY <1>5 DEF OfflineNode, Current
  <2>2. PlanInv' /\ BuffersInv' /\ PhasesInv'
    BY <1>0, <1>5, <2>1, NodeRendered
  <2>3. AskedInv' /\ BeginInv' /\ OfflineInv' /\ RealtimeInv' /\ RealtimeIsSignal'
    BY <1>0, <2>1 DEF AskedInv, BeginInv, OfflineInv, RealtimeInv, RealtimeIsSignal
  <2>4. OfflineIsSignal'
    <3> DEFINE value == Sample(signal_input_buffer(plan, graph, Current, "signal"), 1)
               signal == Signal(graph, order, StreamLength)
               Right(s) == s[3] = Arrives(graph, order, StreamLength, signal, s[2], "signal", s[1] * options.block)
    <3>1. ASSUME graph.kind[Current] = "snapshot" PROVE Right(<<rendered, Current, value>>)
      <4>1. 1 \in 1 .. options.block
        BY <1>1
      <4>2. value = Arrives(graph, order, AudioDelay, AudioSignal, Current, "signal", Now(1))
        BY <1>0, <1>3, <3>1, <4>1, InputArrives DEF Current
      <4>3. AudioDelay = StreamLength /\ AudioSignal = signal
        BY <1>0 DEF AudioDelay, AudioSignal
      <4>4. Now(1) = rendered * options.block
        BY <1>1, <1>2, NowFacts DEF Now
      <4> HIDE DEF value, signal
      <4> QED BY <4>2, <4>3, <4>4
    <3>2. \A s \in snapshots : Right(s)
      BY <1>0 DEF OfflineIsSignal
    <3> HIDE DEF Right, value
    <3>3. \A s \in snapshots' : Right(s)
      BY <2>1, <3>1, <3>2 DEF value
    <3> QED BY <1>0, <3>3 DEF OfflineIsSignal, StreamLength, Right
  <2> QED BY <2>2, <2>3, <2>4 DEF RenderInv
<1> QED BY <1>4, <1>5

\* At the end of a block every node had its turn.
LEMMA BlockIsSignal ==
    ASSUME AskedInv, PlanInv, BuffersInv, PhasesInv, OfflineInv, AudioRunning, at > Len(plan.nodes)
    PROVE  /\ \A b \in DOMAIN plan.buffers : \A i \in 1 .. options.block :
                buffers[b][i] = AudioSignal[<<plan.buffers[b], Now(i)>>]
           /\ \A n \in Nodes(graph) : graph.kind[n] \in AudioBlockKinds => HadTurn(n)
<1>1. IsPlan(graph, order, plan)
  BY RunningFacts
<1>2. at = Len(plan.nodes) + 1 /\ Len(plan.nodes) \in Nat
  BY <1>1 DEF PlanInv, IsPlan
<1>3. ASSUME NEW n \in Nodes(graph), graph.kind[n] \in AudioBlockKinds PROVE HadTurn(n)
  BY <1>1, <1>2, <1>3 DEF HadTurn, IsPlan
<1>4. ASSUME NEW b \in DOMAIN plan.buffers PROVE HadTurn(plan.buffers[b])
  <2>1. plan.buffers[b] \in Nodes(graph) /\ graph.kind[plan.buffers[b]] \in AudioBlockKinds
    BY <1>1 DEF IsPlan
  <2> QED BY <1>3, <2>1
<1>5. ASSUME NEW b \in DOMAIN plan.buffers, NEW i \in 1 .. options.block
      PROVE  buffers[b][i] = AudioSignal[<<plan.buffers[b], Now(i)>>]
  <2>1. buffers[b][i] = HeldSample(plan.buffers[b], i)
    BY DEF BuffersInv
  <2> QED BY <1>4, <2>1 DEF HeldSample, Now
<1> QED BY <1>3, <1>5

\* The oscillators have run for the block.
LEMMA PhasesAfterBlock ==
    ASSUME AskedInv, PlanInv, BuffersInv, PhasesInv, OfflineInv, AudioRunning, at > Len(plan.nodes),
           UNCHANGED <<graph, options, order, plan, phases>>, at' = 1, rendered' = rendered + 1
    PROVE  PhasesInv' /\ \A n : ~ HadTurn(n)'
<1>1. \A n : ~ HadTurn(n)'
  BY DEF HadTurn
<1>2. ASSUME NEW n \in Nodes(graph), graph.kind[n] = "osc" PROVE BlocksRun(n)' = BlocksRun(n)
  <2>1. HadTurn(n)
    BY <1>2, BlockIsSignal DEF AudioBlockKinds
  <2> QED BY <1>1, <2>1 DEF BlocksRun
<1>3. Nodes(graph)' = Nodes(graph)
  OBVIOUS
<1> QED BY <1>1, <1>2, <1>3 DEF PhasesInv

LEMMA OfflineBlockKeeps ==
    ASSUME RenderInv, OfflineBlock
    PROVE  RenderInv'
<1> DEFINE B == options.block
           signal == Signal(graph, order, StreamLength)
<1>0. /\ AskedInv /\ PlanInv /\ BuffersInv /\ PhasesInv /\ OfflineInv /\ OfflineIsSignal
      /\ engine = "offline" /\ AudioRunning
      /\ UNCHANGED <<graph, options, order, plan, phases, snapshots, callback>>
      /\ at > Len(plan.nodes) /\ at' = 1 /\ rendered' = rendered + 1
      /\ reports' = Append(reports, buffers) /\ buffers' = SilentBuffers(plan)
      /\ engine' = IF rendered' = options.blocks THEN "done" ELSE engine
  BY DEF RenderInv, OfflineBlock, AudioRunning
<1>1. /\ IsGraph(graph) /\ order \in PlannedOrders(graph) /\ IsPlan(graph, order, plan)
      /\ options.block \in Nat \ {0}
  BY <1>0, RunningFacts
<1>2. rendered \in Nat /\ options.blocks \in Nat /\ rendered < options.blocks
  BY <1>0 DEF PlanInv, OfflineInv
<1>3. /\ reports' \in Seq(ToSet(reports')) /\ Len(reports') = rendered + 1
      /\ \A b \in 1 .. rendered : reports'[b] = reports[b]
      /\ reports'[rendered + 1] = buffers
      /\ DOMAIN reports = 1 .. rendered /\ DOMAIN reports' = 1 .. rendered + 1
  <2> DEFINE U == ToSet(reports) \union {buffers}
  <2>1. reports \in Seq(ToSet(reports)) /\ Len(reports) = rendered
    BY <1>0 DEF OfflineInv
  <2>2. reports \in Seq(U) /\ buffers \in U
    BY <2>1
  <2>3. Append(reports, buffers) \in Seq(U) /\ ToSet(Append(reports, buffers)) = U
    <3> HIDE DEF U
    <3>1. ToSet(Append(reports, buffers)) = ToSet(reports) \union {buffers} /\ Append(reports, buffers) \in Seq(U)
      BY <2>2, ToSetOfAppend
    <3> QED BY <3>1 DEF U
  <2> HIDE DEF U
  <2>4. reports' \in Seq(ToSet(reports'))
    BY <1>0, <2>3
  <2> QED BY <1>0, <1>2, <2>1, <2>2, <2>4
<1>4. /\ \A b \in DOMAIN plan.buffers : \A i \in 1 .. B : buffers[b][i] = signal[<<plan.buffers[b], Now(i)>>]
  <2>1. AudioSignal = signal
    BY <1>0 DEF AudioSignal, AudioDelay
  <2> HIDE DEF signal
  <2> QED BY <1>0, <2>1, BlockIsSignal
<1>5. PhasesInv' /\ \A n : ~ HadTurn(n)'
  BY <1>0, PhasesAfterBlock
<1>6. AskedInv' /\ BeginInv' /\ RealtimeInv' /\ RealtimeIsSignal'
  BY <1>0 DEF AskedInv, BeginInv, RealtimeInv, RealtimeIsSignal
<1>7. PlanInv'
  <2>1. at' \in 1 .. Len(plan.nodes) + 1 /\ rendered' \in Nat
    BY <1>0, <1>1, <1>2 DEF IsPlan
  <2> QED BY <1>0, <2>1, PlanStays DEF PlanInv
<1>8. BuffersInv'
  <2>1. ASSUME AudioRunning' PROVE engine' = "offline"
    BY <1>0, <2>1 DEF AudioRunning
  <2>2. ASSUME AudioRunning' PROVE \A n, i : HeldSample(n, i)' = 0
    BY <1>5, <2>1, <2>2 DEF HeldSample
  <2>3. DOMAIN buffers' = DOMAIN plan.buffers /\ \A b \in DOMAIN plan.buffers : \A i \in 1 .. B : buffers'[b][i] = 0
    BY <1>0 DEF SilentBuffers, Silence
  <2> QED BY <1>0, <2>2, <2>3 DEF BuffersInv
<1>9. OfflineInv'
  <2>1. ASSUME engine' = "offline" PROVE rendered' < options.blocks
    BY <1>0, <1>2, <2>1
  <2> QED BY <1>0, <1>2, <1>3, <2>1 DEF OfflineInv
<1>10. OfflineIsSignal'
  <2> DEFINE Right(r, b) == \A k \in DOMAIN plan.buffers : \A i \in 1 .. B :
                              r[k][i] = signal[<<plan.buffers[k], (b - 1) * B + (i - 1)>>]
  <2>1. \A b \in 1 .. rendered : Right(reports[b], b)
    BY <1>0, <1>3 DEF OfflineIsSignal
  <2>2. Right(buffers, rendered + 1)
    <3>1. (rendered + 1) - 1 = rendered
      BY <1>2
    <3> HIDE DEF signal
    <3> QED BY <1>4, <3>1 DEF Now
  <2> HIDE DEF Right
  <2>3. ASSUME NEW b \in DOMAIN reports' PROVE Right(reports'[b], b)
    <3>1. b \in 1 .. rendered \/ b = rendered + 1
      BY <1>2, <1>3
    <3> QED BY <1>3, <2>1, <2>2, <3>1
  <2> QED BY <1>0, <2>3 DEF OfflineIsSignal, StreamLength, Right
<1> QED BY <1>5, <1>6, <1>7, <1>8, <1>9, <1>10 DEF RenderInv

\* A callback begins with the block that is due.
LEMMA BeginCallbackKeeps ==
    ASSUME RenderInv, NEW frames \in Callbacks, BeginCallback(frames)
    PROVE  RenderInv'
<1>0. /\ AskedInv /\ BeginInv /\ PlanInv /\ BuffersInv /\ PhasesInv /\ RealtimeInv /\ OfflineIsSignal
      /\ engine = "realtime" /\ AudioRunning
      /\ UNCHANGED <<graph, options, order, engine, plan, at, buffers, phases, rendered, reports, snapshots>>
      /\ callback' = [total |-> frames, offset |-> 0, output |-> <<>>, start |-> rendered]
  BY DEF RenderInv, BeginCallback, AudioRunning
<1>1. AskedInv' /\ BeginInv' /\ PlanInv' /\ OfflineInv' /\ OfflineIsSignal'
  BY <1>0, PlanStays DEF AskedInv, BeginInv, PlanInv, OfflineInv, OfflineIsSignal, StreamLength, AudioRunning
<1>2. BuffersInv'
  <2>1. \A n, i : HeldSample(n, i)' = HeldSample(n, i)
    BY <1>0 DEF HeldSample, HadTurn, AudioSignal, AudioDelay, StreamLength
  <2> QED BY <1>0, <2>1 DEF BuffersInv
<1>3. PhasesInv'
  BY <1>0 DEF PhasesInv, BlocksRun, HadTurn
<1>4. rendered \in Nat /\ options.block \in Nat /\ frames \in Nat
  BY <1>0, OptionsAssumption, NumbersAssumption DEF PlanInv, AskedInv, IsOptions
<1>5. RealtimeInv'
  <2>1. (rendered - rendered) * options.block = 0
    BY <1>4
  <2> QED BY <1>0, <1>4, <2>1 DEF RealtimeInv
<1>6. RealtimeIsSignal'
  <2>1. DOMAIN callback'.output = {}
    BY <1>0
  <2> QED BY <2>1 DEF RealtimeIsSignal
<1> QED BY <1>1, <1>2, <1>3, <1>5, <1>6 DEF RenderInv

\* A turn in realtime.
LEMMA RealtimeNodeKeeps ==
    ASSUME RenderInv, RealtimeNode
    PROVE  RenderInv'
<1>0. /\ AskedInv /\ PlanInv /\ BuffersInv /\ PhasesInv /\ OfflineInv /\ RealtimeInv
      /\ engine = "realtime" /\ AudioRunning
      /\ UNCHANGED <<graph, options, order, engine, plan, rendered, reports, snapshots, callback>>
      /\ at <= Len(plan.nodes) /\ at' = at + 1 /\ RenderNode(Current)
  BY DEF RenderInv, RealtimeNode, AudioRunning, Current
<1>1. graph.kind[Current] \in {"sig", "osc", "mul", "output"}
  <2>1. IsPlan(graph, order, plan)
    BY <1>0, RunningFacts
  <2>2. at \in 1 .. Len(plan.nodes) /\ DOMAIN plan.nodes = 1 .. Len(plan.nodes)
    BY <1>0, <2>1 DEF PlanInv, IsPlan
  <2>3. Current \in ToSet(plan.nodes)
    BY <2>2 DEF ToSet, Current
  <2> QED BY <1>0, <2>3 DEF RealtimeInv
<1>2. PlanInv' /\ BuffersInv' /\ PhasesInv'
  BY <1>0, <1>1, NodeRendered
<1>3. AskedInv' /\ BeginInv' /\ OfflineInv' /\ RealtimeInv'
  BY <1>0 DEF AskedInv, BeginInv, OfflineInv, RealtimeInv, CallbackDone
<1>4. OfflineIsSignal' /\ RealtimeIsSignal'
  BY <1>0 DEF RenderInv, OfflineIsSignal, StreamLength, RealtimeIsSignal, OutputNode
<1> QED BY <1>2, <1>3, <1>4 DEF RenderInv

\* Frames are copied from a complete block: what the output gets is what is sent.
LEMMA FrameIsSignal ==
    ASSUME AskedInv, PlanInv, BuffersInv, PhasesInv, OfflineInv, RealtimeInv, engine = "realtime",
           at > Len(plan.nodes), NEW i \in 1 .. options.block
    PROVE  LET Heard(port) == Arrives(graph, order, options.block, Signal(graph, order, options.block),
                                      OutputNode, port, Now(i))
           IN  /\ OutputFrame(i)[1] = Heard("left")
               /\ options.channels > 1 => OutputFrame(i)[2] = Heard("right")
<1> DEFINE Heard(port) == Arrives(graph, order, options.block, Signal(graph, order, options.block),
                                  OutputNode, port, Now(i))
<1>0. AudioRunning /\ AudioDelay = options.block /\ AudioSignal = Signal(graph, order, options.block)
  BY DEF AudioRunning, AudioDelay, AudioSignal
<1>1. IsPlan(graph, order, plan) /\ options.channels \in Nat
  BY <1>0, RunningFacts
<1>2. OutputNode \in ToSet(plan.nodes) /\ graph.kind[OutputNode] = "output"
  BY DEF RealtimeInv, OutputNode
<1>3. OutputNode \in Nodes(graph)
  <2>1. plan.nodes \in Seq(Nodes(graph))
    BY <1>1 DEF IsPlan
  <2> QED BY <1>2, <2>1 DEF ToSet
<1>4. \A port : Sample(signal_input_buffer(plan, graph, OutputNode, port), i)
                  = Arrives(graph, order, AudioDelay, AudioSignal, OutputNode, port, Now(i))
  BY <1>0, <1>2, <1>3, InputArrives
<1>5. \A port : Sample(signal_input_buffer(plan, graph, OutputNode, port), i) = Heard(port)
  BY <1>0, <1>4
<1> HIDE DEF Heard
<1>6. options.channels > 0
  BY DEF RealtimeInv
<1>7. OutputFrame(i)[1] = Heard("left")
  <2>1. 1 \in 1 .. options.channels
    BY <1>1, <1>6
  <2>2. OutputFrame(i)[1] = Sample(signal_input_buffer(plan, graph, OutputNode, "left"), i)
    BY <2>1 DEF OutputFrame
  <2> QED BY <1>5, <2>2
<1>8. ASSUME options.channels > 1 PROVE OutputFrame(i)[2] = Heard("right")
  <2>1. 2 \in 1 .. options.channels /\ 2 # 1
    BY <1>1, <1>8
  <2>2. OutputFrame(i)[2] = Sample(signal_input_buffer(plan, graph, OutputNode, "right"), i)
    BY <2>1 DEF OutputFrame
  <2> QED BY <1>5, <2>2
<1> QED BY <1>7, <1>8 DEF Heard

\* One sequence after another.
LEMMA ConcatFacts ==
    ASSUME NEW U, NEW s \in Seq(U), NEW t \in Seq(U)
    PROVE  /\ s \o t \in Seq(ToSet(s \o t)) /\ Len(s \o t) = Len(s) + Len(t)
           /\ \A k \in 1 .. Len(s) : (s \o t)[k] = s[k]
           /\ \A i \in 1 .. Len(t) : (s \o t)[Len(s) + i] = t[i]
           /\ DOMAIN (s \o t) = 1 .. Len(s) + Len(t)
<1> DEFINE all == s \o t
<1>1. all \in Seq(U) /\ Len(all) = Len(s) + Len(t)
  OBVIOUS
<1>2. /\ \A k \in 1 .. Len(s) : all[k] = s[k]
      /\ \A i \in 1 .. Len(t) : all[Len(s) + i] = t[i]
  OBVIOUS
<1> HIDE DEF all
<1>3. DOMAIN all = 1 .. Len(all)
  BY <1>1
<1>4. all \in [1 .. Len(all) -> ToSet(all)]
  BY <1>1, <1>3 DEF ToSet
<1>5. all \in Seq(ToSet(all))
  BY <1>1, <1>4
<1> QED BY <1>1, <1>2, <1>3, <1>5 DEF all

LEMMA CopyKeeps ==
    ASSUME RenderInv, copy_output_frames
    PROVE  RenderInv'
<1> DEFINE B == options.block
           left == callback.total - callback.offset
           frames == IF left < B THEN left ELSE B
           new == [i \in 1 .. frames |-> OutputFrame(i)]
           sofar == callback.output
<1>0. /\ AskedInv /\ PlanInv /\ BuffersInv /\ PhasesInv /\ OfflineInv /\ RealtimeInv
      /\ OfflineIsSignal /\ RealtimeIsSignal
      /\ engine = "realtime" /\ AudioRunning /\ ~ CallbackDone
      /\ UNCHANGED <<graph, options, order, engine, plan, buffers, phases, reports, snapshots>>
      /\ at > Len(plan.nodes) /\ at' = 1 /\ rendered' = rendered + 1
  BY DEF RenderInv, copy_output_frames, AudioRunning
<1>1. /\ callback' = [callback EXCEPT !.offset = @ + frames, !.output = @ \o new]
  BY DEF copy_output_frames
<1>2. /\ IsPlan(graph, order, plan) /\ B \in Nat \ {0} /\ rendered \in Nat
  BY <1>0, RunningFacts DEF PlanInv
<1>3. /\ callback.total \in Nat /\ callback.offset \in 0 .. callback.total
      /\ callback.start \in 0 .. rendered
      /\ sofar \in Seq(ToSet(sofar)) /\ Len(sofar) = callback.offset
      /\ callback.offset = (rendered - callback.start) * B /\ callback.offset # callback.total
  BY <1>0 DEF RealtimeInv, CallbackDone
<1>4. left \in Nat /\ frames \in Nat /\ frames <= B /\ frames <= left
      /\ (frames = left \/ frames = B)
  BY <1>2, <1>3
<1>c. /\ callback' = [total |-> callback.total, offset |-> callback.offset + frames,
                       start |-> callback.start, output |-> sofar \o new]
      /\ callback'.total = callback.total /\ callback'.start = callback.start
      /\ callback'.offset = callback.offset + frames /\ callback'.output = sofar \o new
  <2>1. callback \in [total : Nat, offset : Nat, start : Nat, output : Seq(ToSet(callback.output))]
    BY <1>0 DEF RealtimeInv
  <2> HIDE DEF frames, new
  <2> QED BY <1>1, <2>1
<1> HIDE DEF frames, left
<1>5. /\ callback'.output \in Seq(ToSet(callback'.output)) /\ Len(callback'.output) = callback.offset + frames
      /\ \A k \in 1 .. callback.offset : callback'.output[k] = sofar[k]
      /\ \A i \in 1 .. frames : callback'.output[callback.offset + i] = OutputFrame(i)
      /\ DOMAIN callback'.output = 1 .. callback.offset + frames /\ DOMAIN sofar = 1 .. callback.offset
  <2> DEFINE U == ToSet(sofar) \union {OutputFrame(i) : i \in 1 .. frames}
  <2>1. new \in Seq(U) /\ Len(new) = frames /\ \A i \in 1 .. frames : new[i] = OutputFrame(i)
    <3>1. new \in [1 .. frames -> U]
      OBVIOUS
    <3> HIDE DEF U
    <3> QED BY <1>4, <3>1
  <2>2. sofar \in Seq(U)
    <3> HIDE DEF sofar
    <3> QED BY <1>3
  <2> HIDE DEF U, new, sofar
  <2>3. /\ sofar \o new \in Seq(ToSet(sofar \o new)) /\ Len(sofar \o new) = Len(sofar) + Len(new)
        /\ \A k \in 1 .. Len(sofar) : (sofar \o new)[k] = sofar[k]
        /\ \A i \in 1 .. Len(new) : (sofar \o new)[Len(sofar) + i] = new[i]
        /\ DOMAIN (sofar \o new) = 1 .. Len(sofar) + Len(new)
    BY <2>1, <2>2, ConcatFacts
  <2>4. Len(sofar) = callback.offset /\ DOMAIN sofar = 1 .. callback.offset
    BY <1>3, <2>2 DEF sofar
  <2> DEFINE all == sofar \o new
  <2>5. callback'.output = all
    BY <1>c
  <2> HIDE DEF all
  <2>6. /\ all \in Seq(ToSet(all)) /\ Len(all) = callback.offset + frames
        /\ \A k \in 1 .. callback.offset : all[k] = sofar[k]
        /\ \A i \in 1 .. frames : all[callback.offset + i] = OutputFrame(i)
        /\ DOMAIN all = 1 .. callback.offset + frames
    BY <2>1, <2>3, <2>4 DEF all
  <2> QED BY <2>4, <2>5, <2>6
<1>6. AskedInv' /\ BeginInv' /\ OfflineInv' /\ OfflineIsSignal'
  BY <1>0 DEF AskedInv, BeginInv, OfflineInv, OfflineIsSignal, StreamLength
<1>7. PhasesInv' /\ \A n : ~ HadTurn(n)'
  BY <1>0, PhasesAfterBlock
<1>8. PlanInv'
  <2>1. at' \in 1 .. Len(plan.nodes) + 1 /\ rendered' \in Nat
    BY <1>0, <1>2 DEF IsPlan
  <2> QED BY <1>0, <2>1, PlanStays DEF PlanInv
<1>9. BuffersInv'
  <2>1. \A b \in DOMAIN plan.buffers : \A i \in 1 .. B : buffers[b][i] = AudioSignal[<<plan.buffers[b], Now(i)>>]
    BY <1>0, BlockIsSignal
  <2>2. AudioSignal' = AudioSignal
    BY <1>0 DEF AudioSignal, AudioDelay, StreamLength
  <2>3. rendered' # 0 /\ rendered' - 1 = rendered /\ engine' # "offline"
    BY <1>0, <1>2
  <2>4. \A n, i : HeldSample(n, i)' = AudioSignal[<<n, Now(i)>>]
    BY <1>0, <1>7, <2>2, <2>3 DEF HeldSample, Now
  <2>5. DOMAIN buffers = DOMAIN plan.buffers
    BY <1>0 DEF BuffersInv
  <2> QED BY <1>0, <2>1, <2>4, <2>5 DEF BuffersInv
<1>10. RealtimeInv'
  <2>1. CallbackDone' \/ callback'.offset = (rendered' - callback'.start) * B
    <3>1. CASE frames = left
      BY <1>c, <1>3, <3>1 DEF left, CallbackDone
    <3>2. CASE frames = B
      <4>1. (rendered + 1 - callback.start) * B = (rendered - callback.start) * B + B
        BY <1>2, <1>3
      <4>2. callback'.offset = (rendered - callback.start) * B + B
        BY <1>c, <1>3, <3>2
      <4>3. rendered' - callback'.start = rendered + 1 - callback.start
        <5>1. rendered' = rendered + 1
          BY <1>0
        <5>2. callback'.start = callback.start
          BY <1>c
        <5>3. rendered \in Int /\ callback.start \in Int
          BY <1>2, <1>3
        <5> QED BY <5>1, <5>2, <5>3
      <4> QED BY <4>1, <4>2, <4>3
    <3> QED BY <1>4, <3>1, <3>2
  <2>2. callback'.offset \in 0 .. callback.total
    BY <1>c, <1>3, <1>4 DEF left
  <2>3. callback'.start \in 0 .. rendered'
    BY <1>0, <1>c, <1>2, <1>3
  <2>4. callback' \in [total : Nat, offset : Nat, start : Nat, output : Seq(ToSet(callback'.output))]
    BY <1>c, <1>3, <1>4, <1>5
  <2>5. Len(callback'.output) = callback'.offset
    BY <1>c, <1>5
  <2>6. /\ reports' = <<>> /\ snapshots' = {} /\ options'.channels > 0
        /\ \A n \in ToSet(plan'.nodes) : graph'.kind[n] \in {"sig", "osc", "mul", "output"}
        /\ \E n \in ToSet(plan'.nodes) : graph'.kind[n] = "output"
    BY <1>0 DEF RealtimeInv
  <2>7. callback'.offset <= callback'.total /\ callback'.start <= rendered'
    <3>1. callback'.total = callback.total
      BY <1>c
    <3> QED BY <1>3, <1>2, <2>2, <2>3, <3>1, <1>0
  <2>8. B = options'.block
    BY <1>0
  <2> QED BY <2>1, <2>4, <2>5, <2>6, <2>7, <2>8 DEF RealtimeInv
<1>11. RealtimeIsSignal'
  <2> DEFINE Heard(port, t) == Arrives(graph, order, B, Signal(graph, order, B), OutputNode, port, t)
             Right(frame, t) == frame[1] = Heard("left", t) /\ (options.channels > 1 => frame[2] = Heard("right", t))
  <2>1. \A k \in 1 .. callback.offset : Right(sofar[k], callback.start * B + (k - 1))
    BY <1>0, <1>5 DEF RealtimeIsSignal
  <2>2. ASSUME NEW i \in 1 .. frames PROVE Right(OutputFrame(i), callback.start * B + ((callback.offset + i) - 1))
    <3>1. i \in 1 .. B
      BY <1>2, <1>4
    <3>2. Right(OutputFrame(i), Now(i))
      BY <1>0, <3>1, FrameIsSignal
    <3>3. Now(i) = callback.start * B + ((callback.offset + i) - 1)
      <4>1. (rendered - callback.start) * B = rendered * B - callback.start * B
        BY <1>2, <1>3
      <4>2. rendered * B \in Int /\ callback.start * B \in Int /\ callback.offset \in Int /\ i \in Int
        BY <1>2, <1>3, <1>4
      <4>3. callback.offset = rendered * B - callback.start * B
        BY <1>3, <4>1
      <4> QED BY <4>2, <4>3 DEF Now
    <3> HIDE DEF Right
    <3> QED BY <3>2, <3>3
  <2> HIDE DEF Right, sofar
  <2>3. ASSUME NEW k \in DOMAIN callback'.output
        PROVE  Right(callback'.output[k], callback.start * B + (k - 1))
    <3>1. k \in 1 .. callback.offset + frames
      BY <1>5
    <3>2. CASE k \in 1 .. callback.offset
      BY <1>5, <2>1, <3>2
    <3>3. CASE k \notin 1 .. callback.offset
      <4> DEFINE i == k - callback.offset
      <4>1. i \in 1 .. frames /\ callback.offset + i = k
        BY <1>3, <1>4, <3>1, <3>3
      <4> HIDE DEF i
      <4> QED BY <1>5, <2>2, <4>1
    <3> QED BY <3>2, <3>3
  <2>4. /\ graph' = graph /\ options' = options /\ order' = order /\ plan' = plan
        /\ callback'.start = callback.start /\ OutputNode' = OutputNode
    <3>1. graph' = graph /\ options' = options /\ order' = order /\ plan' = plan
      BY <1>0
    <3>2. callback'.start = callback.start
      BY <1>c
    <3> QED BY <3>1, <3>2 DEF OutputNode
  <2> QED BY <2>3, <2>4 DEF RealtimeIsSignal, Right
<1> QED BY <1>6, <1>7, <1>8, <1>9, <1>10, <1>11 DEF RenderInv

LEMMA RenderInvStep == RenderInv /\ [AudioNext]_audioVars => RenderInv'
<1> SUFFICES ASSUME RenderInv, [AudioNext]_audioVars PROVE RenderInv'
  OBVIOUS
<1>1. CASE UNCHANGED audioVars
  <2>1. \A n, i : HeldSample(n, i)' = HeldSample(n, i)
    BY <1>1 DEF audioVars, HeldSample, HadTurn, AudioSignal, AudioDelay, StreamLength
  <2>2. AskedInv' /\ BeginInv' /\ PlanInv' /\ OfflineInv' /\ RealtimeInv'
    BY <1>1, PlanStays DEF audioVars, RenderInv, AskedInv, BeginInv, PlanInv, OfflineInv, RealtimeInv, CallbackDone, AudioRunning
  <2>3. BuffersInv'
    BY <1>1, <2>1 DEF audioVars, RenderInv, BuffersInv, AudioRunning
  <2>4. PhasesInv'
    BY <1>1 DEF audioVars, RenderInv, PhasesInv, AudioRunning, BlocksRun, HadTurn
  <2>5. OfflineIsSignal' /\ RealtimeIsSignal'
    BY <1>1 DEF audioVars, RenderInv, OfflineIsSignal, RealtimeIsSignal, StreamLength, OutputNode
  <2> QED BY <2>2, <2>3, <2>4, <2>5 DEF RenderInv
<1>2. CASE run_offline_audio_dsp
  BY <1>2, BeginOffline
<1>3. CASE OfflineNode
  BY <1>3, OfflineNodeKeeps
<1>4. CASE OfflineBlock
  BY <1>4, OfflineBlockKeeps
<1>5. CASE new_executor
  BY <1>5, BeginRealtime
<1>6. CASE RealtimeNode
  BY <1>6, RealtimeNodeKeeps
<1>7. CASE copy_output_frames
  BY <1>7, CopyKeeps
<1>8. CASE \E frames \in Callbacks : BeginCallback(frames)
  BY <1>8, BeginCallbackKeeps
<1> QED BY <1>1, <1>2, <1>3, <1>4, <1>5, <1>6, <1>7, <1>8 DEF AudioNext

\* What is rendered is the graph's signal at that time, for every graph, planned order,
\* block size and sequence of device callbacks: no buffer is read before it is written
\* or after it is overwritten (run_offline_audio_dsp_with_plan, process_block,
\* process_interleaved_output).
THEOREM RenderedIsSignal == AudioSpec => []RenderingIsSignal
<1>1. RenderInv => RenderingIsSignal
  BY DEF RenderInv, RenderingIsSignal
<1> QED BY <1>1, RenderInvInit, RenderInvStep, PTL DEF AudioSpec
=============================================================================
