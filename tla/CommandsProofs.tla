----------------------------- MODULE CommandsProofs -----------------------------
(***************************************************************************)
(* Theorems about Commands, for any clients, requests, documents and       *)
(* feeds, and any number of frames.                                        *)
(***************************************************************************)
EXTENDS Commands, TLAPS

-----------------------------------------------------------------------------
(* Sequences of events.                                                    *)

\* A sequence of whatever it holds.
IsSeq(s) == s \in Seq(Range(s))

LEMMA NoEvents ==
    ASSUME NEW s, s = <<>>
    PROVE  IsSeq(s) /\ Range(s) = {} /\ Len(s) = 0
<1>1. Len(s) = 0
  OBVIOUS
<1>2. \A S : s \in Seq(S)
  OBVIOUS
<1>3. Range(s) = {}
  BY DEF Range
<1>4. s \in Seq(Range(s))
  BY <1>2
<1> QED BY <1>1, <1>3, <1>4 DEF IsSeq

LEMMA OneSeq ==
    ASSUME NEW e
    PROVE  IsSeq(<<e>>) /\ Range(<<e>>) = {e} /\ Len(<<e>>) = 1 /\ <<e>>[1] = e
BY DEF IsSeq, Range

LEMMA AppendSeq ==
    ASSUME NEW s, IsSeq(s), NEW e
    PROVE  /\ IsSeq(Append(s, e)) /\ Range(Append(s, e)) = Range(s) \cup {e}
           /\ Len(s) \in Nat /\ Len(Append(s, e)) = Len(s) + 1
           /\ Append(s, e)[Len(s) + 1] = e
           /\ \A i \in 1..Len(s) : Append(s, e)[i] = s[i] /\ s[i] \in Range(s)
<1> DEFINE S == Range(s) \cup {e}
           t == Append(s, e)
<1>1. s \in Seq(S) /\ e \in S
  BY DEF IsSeq
<1> HIDE DEF S
<1>2. /\ t \in Seq(S) /\ Len(s) \in Nat /\ Len(t) = Len(s) + 1 /\ t[Len(s) + 1] = e
      /\ \A i \in 1..Len(s) : t[i] = s[i]
      /\ DOMAIN s = 1..Len(s) /\ DOMAIN t = 1..Len(t)
  BY <1>1
<1> HIDE DEF t
<1>3. Range(t) = S
  <2>1. \A x : x \in Range(t) <=> \E i \in 1..Len(t) : t[i] = x
    BY <1>2 DEF Range
  <2>2. \A x : x \in Range(s) <=> \E i \in 1..Len(s) : s[i] = x
    BY <1>2 DEF Range
  <2>3. \A i \in 1..Len(t) : i \in 1..Len(s) \/ i = Len(s) + 1
    BY <1>2
  <2>4. (\A i \in 1..Len(s) : i \in 1..Len(t)) /\ Len(s) + 1 \in 1..Len(t)
    BY <1>2
  <2> QED BY <1>2, <2>1, <2>2, <2>3, <2>4 DEF S
<1>4. \A i \in 1..Len(s) : s[i] \in Range(s)
  BY <1>2 DEF Range
<1> QED BY <1>2, <1>3, <1>4 DEF S, IsSeq, t

LEMMA TailSeq ==
    ASSUME NEW s, IsSeq(s), s # <<>>
    PROVE  /\ IsSeq(Tail(s)) /\ Range(s) = {Head(s)} \cup Range(Tail(s))
           /\ Len(s) \in Nat \ {0} /\ Len(Tail(s)) = Len(s) - 1 /\ Head(s) = s[1]
           /\ \A i \in 1..Len(Tail(s)) : Tail(s)[i] = s[i + 1] /\ i + 1 \in 1..Len(s)
<1> DEFINE S == Range(s)
           t == Tail(s)
<1>1. s \in Seq(S)
  BY DEF IsSeq
<1> HIDE DEF S
<1>2. /\ t \in Seq(S) /\ Len(s) \in Nat \ {0} /\ Len(t) = Len(s) - 1 /\ Head(s) = s[1]
      /\ \A i \in 1..Len(t) : t[i] = s[i + 1] /\ i + 1 \in 1..Len(s)
      /\ DOMAIN s = 1..Len(s) /\ DOMAIN t = 1..Len(t)
  BY <1>1
<1> HIDE DEF t
<1>3. Range(s) = {Head(s)} \cup Range(t)
  <2>1. \A x : x \in Range(t) <=> \E i \in 1..Len(t) : t[i] = x
    BY <1>2 DEF Range
  <2>2. \A x : x \in Range(s) <=> \E i \in 1..Len(s) : s[i] = x
    BY <1>2 DEF Range
  <2>3. \A i \in 1..Len(s) : i = 1 \/ (i - 1 \in 1..Len(t) /\ (i - 1) + 1 = i)
    BY <1>2
  <2>4. 1 \in 1..Len(s)
    BY <1>2
  <2>5. ASSUME NEW x \in Range(s) PROVE x \in {Head(s)} \cup Range(t)
    <3>1. PICK i \in 1..Len(s) : s[i] = x
      BY <2>2
    <3>2. CASE i # 1
      <4>1. t[i - 1] = s[i] /\ i - 1 \in 1..Len(t)
        BY <1>2, <2>3, <3>2
      <4> QED BY <2>1, <3>1, <4>1
    <3> QED BY <1>2, <3>1, <3>2
  <2>6. Head(s) \in Range(s) /\ Range(t) \subseteq Range(s)
    BY <1>2, <2>1, <2>2, <2>4
  <2> QED BY <2>5, <2>6
<1>4. IsSeq(t)
  <2>1. \A i \in 1..Len(t) : t[i] \in Range(t)
    BY <1>2 DEF Range
  <2> QED BY <1>2, <2>1 DEF IsSeq
<1> QED BY <1>2, <1>3, <1>4 DEF t

-----------------------------------------------------------------------------
(* The inductive invariants.                                               *)

SessionFields == {"document", "past", "revision", "view", "values", "control_revision", "catalog"}
JobFields == {"request", "step", "sequence", "events", "catalog", "known",
              "session_revision", "target_revision", "view_revision"}

\* A handler has events only once its command was applied.
JobOK(j) ==
  /\ DOMAIN j = JobFields /\ IsSeq(j.events)
  /\ j.step \in {"idle", "apply", "input", "tell", "publish"}
  /\ j.step \in {"idle", "apply", "input"} => j.events = <<>> /\ j.catalog = <<>>
  /\ j.step # "idle" => j.request \in Requests

ShapeInv ==
  /\ DOMAIN session = SessionFields /\ DOMAIN session.catalog = {"key", "snapshot"}
  /\ session.control_revision \in Nat /\ epoch \in Nat
  /\ DOMAIN job = Clients /\ \A c \in Clients : JobOK(job[c])
  /\ IsSeq(published) /\ DOMAIN held = Clients

\* The control.emitted events that are published or will be.
Emitted(events, jobs) ==
  {e \in Range(events) \cup UNION {Range(jobs[c].events) : c \in Clients} : e.type = "control.emitted"}

\* Control revisions grow until the values are reset.
EmittedInv ==
  \A e \in Emitted(published, job) :
    /\ e.epoch \in Nat /\ e.epoch <= epoch
    /\ e.epoch = epoch => e.content.revision \in Nat /\ e.content.revision <= session.control_revision

\* The events since the last reset that name an object.
Told(id, emitted, now) == {e \in emitted : e.epoch = now /\ id \in DOMAIN e.content.values}
Newest(e, told) == \A d \in told : d.content.revision <= e.content.revision

ValueTold(s, id, told) ==
  /\ told = {} => s.values[id] = from_graph(s.document)[id]
  /\ told # {} => \E e \in told : Newest(e, told)
  /\ \A e \in told : Newest(e, told) => e.content.values[id] = s.values[id]

ToldInv ==
  ~silent => \A id \in DOMAIN session.values : ValueTold(session, id, Told(id, Emitted(published, job), epoch))

ControlInv == ShapeInv /\ EmittedInv /\ ToldInv

\* A catalog change waits in its handler until its event, the handler's last,
\* is published.
ChangeWaits(j) ==
  /\ j.catalog = <<>> \/ j.catalog = <<j.catalog[1]>>
  /\ j.step = "tell" => \A i \in 1..Len(j.events) : j.events[i].type # "nodeCatalog.changed"
  /\ j.step = "publish" =>
       /\ \A i \in 1..Len(j.events) :
            j.events[i].type = "nodeCatalog.changed" =>
              i = Len(j.events) /\ j.catalog = <<j.events[i].content>>
       /\ j.catalog # <<>> => j.events # <<>> /\ j.events[Len(j.events)].type = "nodeCatalog.changed"

\* Where a client counts on what it has, what is to be published is current.
CatalogInv ==
  /\ \A c \in Clients : ChangeWaits(job[c])
  /\ Clients \ missed # {} =>
       \A d \in Clients : job[d].catalog \in {<<>>, <<session.catalog.snapshot>>}
  /\ ~ChangeUnderWay => \A c \in Clients \ missed : held[c] \in {None, session.catalog.snapshot}

HoldInv == ShapeInv /\ CatalogInv

-----------------------------------------------------------------------------
(* What the operations do to the session.                                  *)

IsSession(s) == DOMAIN s = SessionFields /\ DOMAIN s.catalog = {"key", "snapshot"} /\ s.control_revision \in Nat

LEMMA Refreshed ==
    ASSUME NEW cache, DOMAIN cache = {"key", "snapshot"}, NEW document
    PROVE  DOMAIN refresh_node_catalog_cache(cache, document) = {"key", "snapshot"}
BY DEF refresh_node_catalog_cache

LEMMA SessionUpdate ==
    ASSUME NEW s, IsSession(s), NEW document, NEW t,
           \/ t = apply_project_document_update(s, document)
           \/ t = restore_project_document_state(s, document)
    PROVE  IsSession(t) /\ t.document = document /\ t.values = from_graph(document)
<1> DEFINE cache == refresh_node_catalog_cache(s.catalog, document)
           values == from_graph(document)
<1>1. DOMAIN cache = {"key", "snapshot"}
  BY Refreshed DEF IsSession
<1>2. CASE t = apply_project_document_update(s, document)
  <2> DEFINE past == Append(s.past, s.document)
  <2>1. t = [s EXCEPT !.document = document, !.past = past, !.revision = s.revision + 1, !.values = values,
                      !.control_revision = 0, !.catalog = cache]
    BY <1>2 DEF apply_project_document_update
  <2> HIDE DEF past, cache, values
  <2>2. IsSession(t) /\ t.document = document /\ t.values = values
    BY <1>1, <2>1 DEF IsSession, SessionFields
  <2> QED BY <2>2 DEF values
<1>3. CASE t = restore_project_document_state(s, document)
  <2> DEFINE past == Front(s.past)
  <2>1. t = [s EXCEPT !.document = document, !.past = past, !.revision = s.revision + 1, !.values = values,
                      !.control_revision = 0, !.catalog = cache]
    BY <1>3 DEF restore_project_document_state
  <2> HIDE DEF past, cache, values
  <2>2. IsSession(t) /\ t.document = document /\ t.values = values
    BY <1>1, <2>1 DEF IsSession, SessionFields
  <2> QED BY <2>2 DEF values
<1> QED BY <1>2, <1>3

LEMMA SessionViewPatch ==
    ASSUME NEW s, IsSession(s), NEW t, t = apply_view_patch(s)
    PROVE  /\ IsSession(t) /\ t.document = s.document /\ t.values = from_graph(s.document)
           /\ t.catalog = s.catalog
BY DEF IsSession, SessionFields, apply_view_patch

LEMMA SessionControl ==
    ASSUME NEW s, IsSession(s), NEW id, NEW param, NEW t, t = apply_control_event(s, id, param)
    PROVE  /\ IsSession(t) /\ t.document = s.document /\ t.catalog = s.catalog
           /\ DOMAIN t.values = DOMAIN s.values \/ t.values = s.values
           /\ t.control_revision = IF t.values # s.values THEN s.control_revision + 1 ELSE s.control_revision
<1>1. apply_event(s, id, param)[2] = s.values \/ DOMAIN apply_event(s, id, param)[2] = DOMAIN s.values
  BY DEF apply_event
<1>2. /\ DOMAIN t = SessionFields /\ t.document = s.document /\ t.catalog = s.catalog
      /\ t.values = apply_event(s, id, param)[2]
      /\ t.control_revision = IF apply_event(s, id, param)[2] # s.values THEN s.control_revision + 1
                              ELSE s.control_revision
  BY DEF IsSession, SessionFields, apply_control_event
<1> QED BY <1>1, <1>2 DEF IsSession

-----------------------------------------------------------------------------
(* What the steps do to the handlers.                                      *)

\* Every handler but c's is as it was.
Others(c) == DOMAIN job' = Clients /\ \A d \in Clients \ {c} : job'[d] = job[d]

LEMMA JobAnswer ==
    ASSUME ShapeInv, NEW c \in Clients, Answer(c)
    PROVE  Others(c) /\ job'[c] = Idle
BY DEF ShapeInv, Others, Answer

LEMMA IdleOK == JobOK(Idle) /\ Idle.events = <<>> /\ Idle.catalog = <<>> /\ Idle.step = "idle"
BY NoEvents DEF JobOK, JobFields, Idle

LEMMA JobReceive ==
    ASSUME ShapeInv, NEW c \in Clients, NEW r \in Requests, ReceiveFrame(c, r)
    PROVE  /\ Others(c) /\ job'[c].step = "apply" /\ job'[c].request = r
           /\ job'[c].events = <<>> /\ job'[c].catalog = <<>> /\ DOMAIN job'[c] = JobFields
BY DEF ShapeInv, Others, ReceiveFrame, JobFields

LEMMA JobOutcome ==
    ASSUME ShapeInv, NEW c \in Clients, NEW events, NEW catalog, Outcome(c, events, catalog)
    PROVE  /\ Others(c) /\ job'[c].step = "tell" /\ job'[c].request = job[c].request
           /\ job'[c].events = events /\ job'[c].catalog = catalog /\ DOMAIN job'[c] = JobFields
BY DEF ShapeInv, JobOK, Others, Outcome, JobFields

LEMMA JobInput ==
    ASSUME ShapeInv, NEW c \in Clients, job' = [job EXCEPT ![c].step = "input"]
    PROVE  /\ Others(c) /\ job'[c].step = "input" /\ job'[c].request = job[c].request
           /\ job'[c].events = job[c].events /\ job'[c].catalog = job[c].catalog /\ DOMAIN job'[c] = JobFields
BY DEF ShapeInv, JobOK, Others, JobFields

LEMMA JobPresence ==
    ASSUME ShapeInv, NEW c \in Clients, UpdatePresence(c)
    PROVE  /\ Others(c) /\ job'[c].step = "publish" /\ job'[c].request = job[c].request
           /\ \E e : job'[c].events = <<e>> /\ e.type = "presence.updated"
           /\ job'[c].catalog = job[c].catalog /\ DOMAIN job'[c] = JobFields
<1> DEFINE e == [type |-> "presence.updated", sequence |-> job[c].sequence, content |-> None, epoch |-> epoch]
<1>1. job' = [job EXCEPT ![c].step = "publish", ![c].events = <<e>>]
  BY DEF UpdatePresence
<1>2. e.type = "presence.updated"
  OBVIOUS
<1> HIDE DEF e
<1> QED BY <1>1, <1>2 DEF ShapeInv, JobOK, Others, JobFields

LEMMA JobAcknowledge ==
    ASSUME ShapeInv, NEW c \in Clients, Acknowledge(c)
    PROVE  /\ Others(c) /\ job'[c].step = "publish" /\ job'[c].request = job[c].request
           /\ job'[c].catalog = job[c].catalog /\ DOMAIN job'[c] = JobFields
           /\ job[c].catalog = <<>> => job'[c].events = job[c].events
           /\ job[c].catalog # <<>> => \E e : /\ job'[c].events = Append(job[c].events, e)
                                              /\ e.type = "nodeCatalog.changed"
                                              /\ e.content = job[c].catalog[1]
<1> DEFINE e == node_catalog_changed_event(c)
           events == IF job[c].catalog # <<>> THEN Append(job[c].events, e) ELSE job[c].events
<1>1. job' = [job EXCEPT ![c].step = "publish", ![c].events = events]
  BY DEF Acknowledge
<1>2. e.type = "nodeCatalog.changed" /\ e.content = job[c].catalog[1]
  BY DEF node_catalog_changed_event
<1>3. /\ job[c].catalog = <<>> => events = job[c].events
      /\ job[c].catalog # <<>> => events = Append(job[c].events, e)
  OBVIOUS
<1> HIDE DEF e, events
<1>4. /\ Others(c) /\ job'[c].step = "publish" /\ job'[c].request = job[c].request
      /\ job'[c].catalog = job[c].catalog /\ DOMAIN job'[c] = JobFields /\ job'[c].events = events
  BY <1>1 DEF ShapeInv, JobOK, Others, JobFields
<1> QED BY <1>2, <1>3, <1>4

LEMMA JobPublish ==
    ASSUME ShapeInv, NEW c \in Clients, Publish(c), job[c].events # <<>>
    PROVE  /\ Others(c) /\ job'[c].step = job[c].step /\ job'[c].request = job[c].request
           /\ job'[c].events = Tail(job[c].events) /\ DOMAIN job'[c] = JobFields
           /\ published' = Append(published, Head(job[c].events))
           /\ job'[c].catalog = IF Head(job[c].events).type = "nodeCatalog.changed" THEN <<>> ELSE job[c].catalog
           /\ held' = IF Head(job[c].events).type = "nodeCatalog.changed"
                      THEN [d \in Clients |-> Head(job[c].events).content] ELSE held
<1> DEFINE catalog == IF Head(job[c].events).type = "nodeCatalog.changed" THEN <<>> ELSE job[c].catalog
<1>1. /\ job' = [job EXCEPT ![c].events = Tail(job[c].events), ![c].catalog = catalog]
      /\ published' = Append(published, Head(job[c].events))
      /\ held' = IF Head(job[c].events).type = "nodeCatalog.changed"
                 THEN [d \in Clients |-> Head(job[c].events).content] ELSE held
  BY DEF Publish
<1> HIDE DEF catalog
<1>2. /\ Others(c) /\ job'[c].step = job[c].step /\ job'[c].request = job[c].request
      /\ job'[c].events = Tail(job[c].events) /\ DOMAIN job'[c] = JobFields
      /\ job'[c].catalog = catalog
  BY <1>1 DEF ShapeInv, JobOK, Others, JobFields
<1> QED BY <1>1, <1>2 DEF catalog

LEMMA ShapeInit == Init => ShapeInv
<1> SUFFICES ASSUME Init PROVE ShapeInv
  OBVIOUS
<1>1. DOMAIN session = SessionFields /\ DOMAIN session.catalog = {"key", "snapshot"}
  BY DEF Init, SessionFields
<1>2. session.control_revision \in Nat /\ epoch \in Nat
  BY DEF Init
<1>3. DOMAIN job = Clients /\ \A c \in Clients : job[c] = Idle
  BY DEF Init
<1>4. IsSeq(published) /\ DOMAIN held = Clients
  BY NoEvents DEF Init
<1> QED BY <1>1, <1>2, <1>3, <1>4, IdleOK DEF ShapeInv

LEMMA ShapeJobs ==
    ASSUME ShapeInv, NEW c \in Clients, Others(c), JobOK(job'[c])
    PROVE  DOMAIN job' = Clients /\ \A d \in Clients : JobOK(job'[d])
BY DEF ShapeInv, Others

\* The handler of a step is at work on a request.
LEMMA JobBusy ==
    ASSUME ShapeInv, NEW c \in Clients, NEW step \in {"apply", "input", "tell", "publish"}, NEW kinds, At(c, step, kinds)
    PROVE  /\ job[c].request \in Requests /\ job[c].step = step
           /\ step \in {"apply", "input"} => job[c].events = <<>> /\ job[c].catalog = <<>>
BY DEF ShapeInv, JobOK, At

\* What becomes of a command that is applied: an answer, or a result to tell.
LEMMA JobApplied ==
    ASSUME ShapeInv, NEW c \in Clients,
           \/ ApplyEdit(c) \/ ApplyViewPatch(c) \/ ResolveObject(c) \/ CheckInput(c) \/ ApplyInput(c)
           \/ UpdatePresence(c) \/ RequestCatalog(c) \/ Hello(c) \/ RejectFrame(c)
    PROVE  job[c].step \in {"apply", "input"} /\ job[c].request \in Requests
           /\ job[c].events = <<>> /\ job[c].catalog = <<>>
<1>1. (\E kinds : At(c, "apply", kinds)) \/ (\E kinds : At(c, "input", kinds))
  BY DEF ApplyEdit, ApplyViewPatch, ResolveObject, CheckInput, ApplyInput, UpdatePresence, RequestCatalog, Hello,
         RejectFrame
<1> QED BY <1>1, JobBusy

LEMMA EditJob ==
    ASSUME ShapeInv, NEW c \in Clients, ApplyEdit(c) \/ ApplyViewPatch(c)
    PROVE  \/ Answer(c) /\ session' = session /\ UNCHANGED histories
           \/ \E e, catalog : Outcome(c, <<e>>, catalog) /\ e.type = "graph.applied"
<1>1. CASE ApplyEdit(c)
  <2> DEFINE r == job[c].request
             document == IF r.complete /\ SessionRevisionFits(c) /\ TargetFits(c)
                         THEN Edited(session.document, r) ELSE <<>>
             after == apply_project_document_update(session, document[1])
             catalog == CatalogChange(session, after)
             e == Event("graph.applied", c, after.revision)
  <2>1. \/ graph_command_rejected(c)
        \/ Outcome(c, <<e>>, catalog)
    BY <1>1 DEF ApplyEdit
  <2>2. e.type = "graph.applied"
    BY DEF Event
  <2> HIDE DEF e, catalog, after, document, r
  <2> QED BY <2>1, <2>2 DEF graph_command_rejected
<1>2. CASE ApplyViewPatch(c)
  <2> DEFINE e == Event("graph.applied", c, session.revision + 1)
  <2>1. graph_command_rejected(c) \/ Outcome(c, <<e>>, <<>>)
    BY <1>2 DEF ApplyViewPatch
  <2>2. e.type = "graph.applied"
    BY DEF Event
  <2> HIDE DEF e
  <2> QED BY <2>1, <2>2 DEF graph_command_rejected
<1> QED BY <1>1, <1>2

LEMMA ShapeJobStep ==
    ASSUME ShapeInv, [Next]_vars
    PROVE  DOMAIN job' = Clients /\ \A d \in Clients : JobOK(job'[d])
<1> DEFINE Goal == DOMAIN job' = Clients /\ \A d \in Clients : JobOK(job'[d])
<1>1. ASSUME job' = job PROVE Goal
  BY <1>1 DEF ShapeInv
<1>2. ASSUME NEW c \in Clients, Answer(c) PROVE Goal
  BY <1>2, JobAnswer, IdleOK, ShapeJobs
<1>3. ASSUME NEW c \in Clients, NEW r \in Requests, ReceiveFrame(c, r) PROVE Goal
  <2>1. JobOK(job'[c])
    BY <1>3, JobReceive, NoEvents DEF JobOK
  <2> QED BY <2>1, <1>3, JobReceive, ShapeJobs
<1>4. ASSUME NEW c \in Clients, NEW e, NEW catalog, Outcome(c, <<e>>, catalog), job[c].request \in Requests PROVE Goal
  <2>1. JobOK(job'[c])
    BY <1>4, JobOutcome, OneSeq DEF JobOK
  <2> QED BY <2>1, <1>4, JobOutcome, ShapeJobs
<1>5. ASSUME NEW c \in Clients, Outcome(c, <<>>, <<>>), job[c].request \in Requests PROVE Goal
  <2>1. JobOK(job'[c])
    BY <1>5, JobOutcome, NoEvents DEF JobOK
  <2> QED BY <2>1, <1>5, JobOutcome, ShapeJobs
<1>6. ASSUME NEW c \in Clients, ApplyEdit(c) \/ ApplyViewPatch(c) PROVE Goal
  BY <1>2, <1>4, <1>6, EditJob, JobApplied
<1>7. ASSUME NEW c \in Clients, CheckInput(c) PROVE Goal
  <2>1. CASE job' = [job EXCEPT ![c].step = "input"]
    <3>1. JobOK(job'[c])
      BY <1>7, <2>1, JobInput, JobApplied, NoEvents DEF JobOK
    <3> QED BY <3>1, <2>1, JobInput, ShapeJobs
  <2> QED BY <1>2, <1>7, <2>1 DEF CheckInput
<1>8. ASSUME NEW c \in Clients, ApplyInput(c) PROVE Goal
  <2> DEFINE r == job[c].request
             outcome == apply_control_command(session, r)
             changed == changed_control_values(session.values, outcome[2].values)
             e == Event("control.emitted", c, [revision |-> outcome[2].control_revision, values |-> changed])
  <2>1. Answer(c) \/ Outcome(c, <<e>>, <<>>) \/ Outcome(c, <<>>, <<>>)
    BY <1>8 DEF ApplyInput, control_emitted
  <2> HIDE DEF e
  <2> QED BY <1>2, <1>4, <1>5, <1>8, <2>1, JobApplied
<1>9. ASSUME NEW c \in Clients, UpdatePresence(c) PROVE Goal
  <2>1. JobOK(job'[c])
    <3>1. PICK e : job'[c].events = <<e>>
      BY <1>9, JobPresence
    <3>2. IsSeq(job'[c].events)
      BY <3>1, OneSeq
    <3>3. DOMAIN job'[c] = JobFields /\ job'[c].step = "publish" /\ job'[c].request \in Requests
      BY <1>9, JobPresence, JobApplied
    <3> QED BY <3>2, <3>3 DEF JobOK
  <2> QED BY <2>1, <1>9, JobPresence, ShapeJobs
<1>10. ASSUME NEW c \in Clients, Acknowledge(c) PROVE Goal
  <2>1. job[c].request \in Requests
    BY <1>10, JobBusy DEF Acknowledge
  <2>2. IsSeq(job'[c].events)
    <3>1. IsSeq(job[c].events)
      BY DEF ShapeInv, JobOK
    <3>2. job'[c].events = job[c].events \/ \E e : job'[c].events = Append(job[c].events, e)
      BY <1>10, JobAcknowledge
    <3>3. ASSUME NEW e, job'[c].events = Append(job[c].events, e) PROVE IsSeq(job'[c].events)
      <4>1. IsSeq(Append(job[c].events, e))
        BY <3>1, AppendSeq
      <4> QED BY <3>3, <4>1
    <3> QED BY <3>1, <3>2, <3>3
  <2>3. JobOK(job'[c])
    <3>1. DOMAIN job'[c] = JobFields /\ job'[c].step = "publish" /\ job'[c].request = job[c].request
      BY <1>10, JobAcknowledge
    <3> QED BY <2>1, <2>2, <3>1 DEF JobOK
  <2> QED BY <2>3, <1>10, JobAcknowledge, ShapeJobs
<1>11. ASSUME NEW c \in Clients, Publish(c) PROVE Goal
  <2>1. job[c].request \in Requests /\ job[c].step = "publish"
    BY <1>11, JobBusy DEF Publish
  <2>2. CASE job[c].events = <<>>
    BY <1>2, <1>11, <2>2 DEF Publish
  <2>3. CASE job[c].events # <<>>
    <3>1. IsSeq(job'[c].events)
      BY <1>11, <2>3, JobPublish, TailSeq DEF ShapeInv, JobOK
    <3>2. JobOK(job'[c])
      BY <1>11, <2>1, <2>3, <3>1, JobPublish DEF JobOK
    <3> QED BY <3>2, <1>11, <2>3, JobPublish, ShapeJobs
  <2> QED BY <2>2, <2>3
<1>12. ASSUME NEW c \in Clients, ResolveObject(c) \/ RequestCatalog(c) \/ Hello(c) \/ RejectFrame(c) PROVE Goal
  BY <1>2, <1>12 DEF ResolveObject, RequestCatalog, Hello, RejectFrame, runtime_error
<1>13. ASSUME Undo \/ (\E id, param : HttpControl(id, param)) \/ UNCHANGED vars PROVE Goal
  BY <1>1, <1>13 DEF Undo, HttpControl, vars
<1> QED BY <1>3, <1>6, <1>7, <1>8, <1>9, <1>10, <1>11, <1>12, <1>13 DEF Next

-----------------------------------------------------------------------------
(* What the steps do to the control values and to what is told of them.    *)

\* Control values and their count are left alone.
ControlKept ==
  /\ session'.values = session.values /\ session'.document = session.document
  /\ session'.control_revision = session.control_revision
  /\ epoch' = epoch /\ silent' = silent

\* The values are the document's again.
ControlReset == epoch' = epoch + 1 /\ session'.values = from_graph(session'.document)

\* The values may have changed and nothing tells of it.
ControlSilent ==
  /\ session'.document = session.document /\ epoch' = epoch
  /\ session'.control_revision \in {session.control_revision, session.control_revision + 1}
  /\ ~silent' => ~silent /\ session'.values = session.values

\* The values changed; an event tells which, or nothing changed.
ControlInput(c) ==
  /\ session'.document = session.document /\ epoch' = epoch /\ silent' = silent
  /\ DOMAIN session'.values = DOMAIN session.values
  /\ session'.control_revision = IF session'.values # session.values THEN session.control_revision + 1
                                 ELSE session.control_revision
  /\ \/ \E e : /\ Outcome(c, <<e>>, <<>>)
               /\ e.type = "control.emitted" /\ e.epoch = epoch
               /\ e.content.revision = session'.control_revision
               /\ e.content.values = changed_control_values(session.values, session'.values)
     \/ Outcome(c, <<>>, <<>>) /\ DOMAIN changed_control_values(session.values, session'.values) = {}

LEMMA EditSession ==
    ASSUME ShapeInv, NEW c \in Clients, ApplyEdit(c) \/ ApplyViewPatch(c)
    PROVE  IsSession(session') /\ (ControlKept \/ ControlReset)
<1>0. IsSession(session)
  BY DEF ShapeInv, IsSession
<1>1. CASE ApplyEdit(c)
  <2> DEFINE r == job[c].request
             document == IF r.complete /\ SessionRevisionFits(c) /\ TargetFits(c)
                         THEN Edited(session.document, r) ELSE <<>>
             after == apply_project_document_update(session, document[1])
  <2>1. \/ session' = session /\ UNCHANGED histories
        \/ session' = after /\ epoch' = epoch + 1
    BY <1>1 DEF ApplyEdit, graph_command_rejected
  <2>2. IsSession(after) /\ after.document = document[1] /\ after.values = from_graph(document[1])
    BY <1>0, SessionUpdate
  <2> HIDE DEF r, document, after
  <2> QED BY <1>0, <2>1, <2>2 DEF ControlKept, ControlReset, histories
<1>2. CASE ApplyViewPatch(c)
  <2>1. \/ session' = session /\ UNCHANGED histories
        \/ session' = apply_view_patch(session) /\ epoch' = epoch + 1
    BY <1>2 DEF ApplyViewPatch, graph_command_rejected
  <2> QED BY <1>0, <2>1, SessionViewPatch DEF ControlKept, ControlReset, histories
<1> QED BY <1>1, <1>2

LEMMA InputSession ==
    ASSUME ShapeInv, NEW c \in Clients, ApplyInput(c)
    PROVE  /\ IsSession(session') /\ session'.catalog = session.catalog
           /\ (Answer(c) /\ ControlKept) \/ ControlInput(c)
<1>0. IsSession(session)
  BY DEF ShapeInv, IsSession
<1> DEFINE r == job[c].request
           outcome == apply_control_command(session, r)
           after == apply_control_event(session, r.id, r.param)
           changed == changed_control_values(session.values, session'.values)
           content == [revision |-> session'.control_revision, values |-> changed]
           e == Event("control.emitted", c, content)
           events == IF job[c].request.hot \/ DOMAIN changed # {} THEN <<e>> ELSE <<>>
<1>1. session' = outcome[2] /\ epoch' = epoch /\ silent' = silent
  BY DEF ApplyInput
<1>2. IF outcome[1] THEN Outcome(c, events, <<>>) ELSE Answer(c)
  <2>1. IF outcome[1] THEN Outcome(c, control_emitted(c, session, outcome[2], r.id), <<>>) ELSE Answer(c)
    BY DEF ApplyInput
  <2>2. control_emitted(c, session, session', r.id) = events
    BY DEF control_emitted
  <2> QED BY <1>1, <2>1, <2>2
<1>3. e.type = "control.emitted" /\ e.epoch = epoch /\ e.content = content
  BY <1>1 DEF Event
<1>4. content.revision = session'.control_revision /\ content.values = changed
  OBVIOUS
<1>5. CASE apply_event(session, r.id, r.param)[1]
  <2>1. outcome[1] = TRUE /\ session' = after
    BY <1>1, <1>5 DEF apply_control_command
  <2>2. /\ IsSession(after) /\ after.document = session.document /\ after.catalog = session.catalog
        /\ DOMAIN after.values = DOMAIN session.values
        /\ after.control_revision = IF after.values # session.values THEN session.control_revision + 1
                                    ELSE session.control_revision
    BY <1>0, SessionControl
  <2>3. Outcome(c, <<e>>, <<>>) \/ (Outcome(c, <<>>, <<>>) /\ DOMAIN changed = {})
    BY <1>2, <2>1
  <2> HIDE DEF e, content, changed, after, outcome, events
  <2>4. \/ \E x : /\ Outcome(c, <<x>>, <<>>)
                  /\ x.type = "control.emitted" /\ x.epoch = epoch
                  /\ x.content.revision = session'.control_revision
                  /\ x.content.values = changed
        \/ Outcome(c, <<>>, <<>>) /\ DOMAIN changed = {}
    BY <1>3, <1>4, <2>3
  <2> QED BY <1>1, <2>1, <2>2, <2>4 DEF ControlInput, changed
<1>6. CASE ~apply_event(session, r.id, r.param)[1]
  <2>1. outcome[1] = FALSE /\ session' = session
    BY <1>1, <1>6 DEF apply_control_command
  <2> HIDE DEF e, content, changed, after, outcome, events
  <2> QED BY <1>0, <1>1, <1>2, <2>1 DEF ControlKept
<1> QED BY <1>5, <1>6

LEMMA OutsideSession ==
    ASSUME ShapeInv, Undo \/ \E id, param : HttpControl(id, param)
    PROVE  IsSession(session') /\ (ControlReset \/ ControlSilent) /\ job' = job /\ published' = published
<1>0. IsSession(session)
  BY DEF ShapeInv, IsSession
<1>1. CASE Undo
  <2> DEFINE restored == [Last(session.past) EXCEPT ![Root].revision = session.document[Root].revision + 1]
             after == restore_project_document_state(session, restored)
  <2>1. session' = after /\ epoch' = epoch + 1 /\ job' = job /\ published' = published
    BY <1>1 DEF Undo
  <2> HIDE DEF restored
  <2>2. IsSession(after) /\ after.document = restored /\ after.values = from_graph(restored)
    BY <1>0, SessionUpdate
  <2> HIDE DEF after
  <2> QED BY <2>1, <2>2 DEF ControlReset
<1>2. ASSUME NEW id, NEW param, HttpControl(id, param)
      PROVE  IsSession(session') /\ ControlSilent /\ job' = job /\ published' = published
  <2>1. /\ session' = apply_control_event(session, id, param) /\ epoch' = epoch
        /\ silent' = (silent \/ session'.values # session.values)
        /\ job' = job /\ published' = published
    BY <1>2 DEF HttpControl
  <2> DEFINE after == apply_control_event(session, id, param)
  <2>2. /\ IsSession(after) /\ after.document = session.document
        /\ after.control_revision = IF after.values # session.values THEN session.control_revision + 1
                                    ELSE session.control_revision
    BY <1>0, SessionControl
  <2> HIDE DEF after
  <2>3. ControlSilent
    BY <2>1, <2>2 DEF ControlSilent, after
  <2> QED BY <2>1, <2>2, <2>3 DEF after
<1> QED BY <1>1, <1>2

-----------------------------------------------------------------------------
(* What the steps do to the events.                                        *)

LEMMA EmittedSame ==
    ASSUME job' = job, published' = published
    PROVE  Emitted(published', job') = Emitted(published, job)
OBVIOUS

LEMMA EmittedMore ==
    ASSUME NEW c \in Clients, Others(c), published' = published, NEW S,
           Range(job'[c].events) = Range(job[c].events) \cup S
    PROVE  Emitted(published', job') = Emitted(published, job) \cup {e \in S : e.type = "control.emitted"}
<1> DEFINE Now == UNION {Range(job[d].events) : d \in Clients}
           Then == UNION {Range(job'[d].events) : d \in Clients}
<1>1. \A e : e \in Now <=> \E d \in Clients : e \in Range(job[d].events)
  OBVIOUS
<1>2. \A e : e \in Then <=> \E d \in Clients : e \in Range(job'[d].events)
  OBVIOUS
<1>3. \A d \in Clients \ {c} : job'[d].events = job[d].events
  BY DEF Others
<1>4. \A e : e \in Then <=> e \in Now \/ e \in S
  <2> HIDE DEF Now, Then
  <2> QED BY <1>1, <1>2, <1>3
<1> HIDE DEF Now, Then
<1>5. /\ Emitted(published, job) = {e \in Range(published) \cup Now : e.type = "control.emitted"}
      /\ Emitted(published', job') = {e \in Range(published) \cup Then : e.type = "control.emitted"}
  BY DEF Emitted, Now, Then
<1> QED BY <1>4, <1>5

LEMMA EmittedPublish ==
    ASSUME ShapeInv, NEW c \in Clients, Publish(c), job[c].events # <<>>
    PROVE  Emitted(published', job') = Emitted(published, job)
<1> DEFINE head == Head(job[c].events)
           Now == UNION {Range(job[d].events) : d \in Clients}
           Then == UNION {Range(job'[d].events) : d \in Clients}
<1>1. Others(c) /\ job'[c].events = Tail(job[c].events) /\ published' = Append(published, head)
  BY JobPublish
<1>2. IsSeq(job[c].events) /\ IsSeq(published)
  BY DEF ShapeInv, JobOK
<1>3. Range(published') = Range(published) \cup {head} /\ Range(job[c].events) = {head} \cup Range(job'[c].events)
  BY <1>1, <1>2, AppendSeq, TailSeq
<1>4. \A e : e \in Now <=> \E d \in Clients : e \in Range(job[d].events)
  OBVIOUS
<1>5. \A e : e \in Then <=> \E d \in Clients : e \in Range(job'[d].events)
  OBVIOUS
<1>6. \A d \in Clients \ {c} : job'[d].events = job[d].events
  BY <1>1 DEF Others
<1> HIDE DEF head
<1>7. Range(published') \cup Then = Range(published) \cup Now
  <2> HIDE DEF Now, Then
  <2>1. \A e : e \in Now <=> e = head \/ e \in Then
    BY <1>3, <1>4, <1>5, <1>6
  <2> QED BY <1>3, <2>1
<1> QED BY <1>7 DEF Emitted

\* Only an input adds to them.
LEMMA EmittedStep ==
    ASSUME ShapeInv, [Next]_vars, \A c \in Clients : ~ApplyInput(c)
    PROVE  Emitted(published', job') = Emitted(published, job)
<1> DEFINE Goal == Emitted(published', job') = Emitted(published, job)
<1>1. ASSUME NEW c \in Clients, Others(c), published' = published, job'[c].events = job[c].events PROVE Goal
  <2>1. Range(job'[c].events) = Range(job[c].events) \cup {}
    BY <1>1
  <2>2. Emitted(published', job') = Emitted(published, job) \cup {x \in {} : x.type = "control.emitted"}
    BY <1>1, <2>1, EmittedMore
  <2>3. {x \in {} : x.type = "control.emitted"} = {}
    OBVIOUS
  <2> QED BY <2>2, <2>3
<1>2. ASSUME NEW c \in Clients, Others(c), published' = published, NEW e, e.type # "control.emitted",
             Range(job'[c].events) = Range(job[c].events) \cup {e}
      PROVE  Goal
  <2>1. Emitted(published', job') = Emitted(published, job) \cup {x \in {e} : x.type = "control.emitted"}
    BY <1>2, EmittedMore
  <2>2. {x \in {e} : x.type = "control.emitted"} = {}
    BY <1>2
  <2> QED BY <2>1, <2>2
<1>3. ASSUME NEW c \in Clients, Answer(c), published' = published, job[c].events = <<>> PROVE Goal
  BY <1>1, <1>3, JobAnswer, IdleOK
<1>4. ASSUME NEW c \in Clients, NEW r \in Requests, ReceiveFrame(c, r) PROVE Goal
  <2>1. job[c].events = <<>> /\ published' = published
    BY <1>4 DEF ReceiveFrame, ShapeInv, JobOK
  <2> QED BY <1>1, <1>4, <2>1, JobReceive
<1>5. ASSUME NEW c \in Clients, ApplyEdit(c) \/ ApplyViewPatch(c) PROVE Goal
  <2>1. job[c].events = <<>> /\ published' = published
    BY <1>5, JobApplied DEF ApplyEdit, ApplyViewPatch
  <2>2. ASSUME NEW e, NEW catalog, Outcome(c, <<e>>, catalog), e.type = "graph.applied" PROVE Goal
    <3>1. Range(job'[c].events) = Range(job[c].events) \cup {e} /\ Others(c)
      BY <2>1, <2>2, JobOutcome, OneSeq, NoEvents
    <3> QED BY <1>2, <2>1, <2>2, <3>1
  <2> QED BY <1>3, <1>5, <2>1, <2>2, EditJob
<1>6. ASSUME NEW c \in Clients, CheckInput(c) PROVE Goal
  <2>1. job[c].events = <<>> /\ published' = published
    BY <1>6, JobApplied DEF CheckInput
  <2> QED BY <1>1, <1>3, <1>6, <2>1, JobInput DEF CheckInput
<1>7. ASSUME NEW c \in Clients, UpdatePresence(c) PROVE Goal
  <2>1. job[c].events = <<>> /\ published' = published
    BY <1>7, JobApplied DEF UpdatePresence
  <2>2. PICK e : job'[c].events = <<e>> /\ e.type = "presence.updated"
    BY <1>7, JobPresence
  <2>3. Range(job'[c].events) = Range(job[c].events) \cup {e} /\ Others(c)
    BY <1>7, <2>1, <2>2, JobPresence, OneSeq, NoEvents
  <2> QED BY <1>2, <2>1, <2>2, <2>3
<1>8. ASSUME NEW c \in Clients, Acknowledge(c) PROVE Goal
  <2>1. published' = published /\ Others(c)
    BY <1>8, JobAcknowledge DEF Acknowledge
  <2>2. CASE job[c].catalog = <<>>
    BY <1>1, <1>8, <2>1, <2>2, JobAcknowledge
  <2>3. CASE job[c].catalog # <<>>
    <3>1. PICK e : job'[c].events = Append(job[c].events, e) /\ e.type = "nodeCatalog.changed"
      BY <1>8, <2>3, JobAcknowledge
    <3>2. IsSeq(job[c].events)
      BY DEF ShapeInv, JobOK
    <3>3. Range(Append(job[c].events, e)) = Range(job[c].events) \cup {e}
      BY <3>2, AppendSeq
    <3> QED BY <1>2, <2>1, <3>1, <3>3
  <2> QED BY <2>2, <2>3
<1>9. ASSUME NEW c \in Clients, Publish(c) PROVE Goal
  <2>1. CASE job[c].events = <<>>
    BY <1>3, <1>9, <2>1 DEF Publish
  <2> QED BY <1>9, <2>1, EmittedPublish
<1>10. ASSUME NEW c \in Clients, ResolveObject(c) \/ RequestCatalog(c) \/ Hello(c) \/ RejectFrame(c) PROVE Goal
  <2>1. job[c].events = <<>> /\ published' = published /\ Answer(c)
    BY <1>10, JobApplied DEF ResolveObject, RequestCatalog, Hello, RejectFrame, runtime_error
  <2> QED BY <1>3, <2>1
<1>11. ASSUME Undo \/ (\E id, param : HttpControl(id, param)) \/ UNCHANGED vars PROVE Goal
  BY <1>11, EmittedSame, OutsideSession DEF vars
<1> QED BY <1>4, <1>5, <1>6, <1>7, <1>8, <1>9, <1>10, <1>11 DEF Next

\* What the other steps do to the control values.
LEMMA ControlStep ==
    ASSUME ShapeInv, [Next]_vars, \A c \in Clients : ~ApplyInput(c)
    PROVE  IsSession(session') /\ (ControlKept \/ ControlReset \/ ControlSilent)
<1> DEFINE Goal == IsSession(session') /\ (ControlKept \/ ControlReset \/ ControlSilent)
<1>1. ASSUME session' = session, epoch' = epoch, silent' = silent PROVE Goal
  BY <1>1 DEF ControlKept, ShapeInv, IsSession
<1>2. ASSUME NEW c \in Clients,
             \/ \E r \in Requests : ReceiveFrame(c, r)
             \/ ResolveObject(c) \/ CheckInput(c) \/ UpdatePresence(c) \/ RequestCatalog(c) \/ Hello(c)
             \/ RejectFrame(c) \/ Acknowledge(c) \/ Publish(c)
      PROVE  Goal
  BY <1>1, <1>2 DEF ReceiveFrame, ResolveObject, CheckInput, UpdatePresence, RequestCatalog, Hello, RejectFrame,
                    runtime_error, Acknowledge, Publish, histories
<1>3. ASSUME UNCHANGED vars PROVE Goal
  BY <1>1, <1>3 DEF vars
<1> QED BY <1>2, <1>3, EditSession, OutsideSession DEF Next

LEMMA InputEmitted ==
    ASSUME ShapeInv, NEW c \in Clients, ApplyInput(c), NEW e, Outcome(c, <<e>>, <<>>), e.type = "control.emitted"
    PROVE  Emitted(published', job') = Emitted(published, job) \cup {e}
<1>1. job[c].events = <<>> /\ published' = published
  BY JobApplied DEF ApplyInput
<1>2. Range(job'[c].events) = Range(job[c].events) \cup {e} /\ Others(c)
  BY <1>1, JobOutcome, OneSeq, NoEvents
<1> QED BY <1>1, <1>2, EmittedMore

LEMMA InputQuiet ==
    ASSUME ShapeInv, NEW c \in Clients, ApplyInput(c), Answer(c) \/ Outcome(c, <<>>, <<>>)
    PROVE  Emitted(published', job') = Emitted(published, job)
<1>1. job[c].events = <<>> /\ published' = published
  BY JobApplied DEF ApplyInput
<1>2. job'[c].events = <<>> /\ Others(c)
  BY JobAnswer, JobOutcome, IdleOK
<1>3. Range(job'[c].events) = Range(job[c].events) \cup {}
  BY <1>1, <1>2
<1>4. Emitted(published', job') = Emitted(published, job) \cup {x \in {} : x.type = "control.emitted"}
  BY <1>1, <1>2, <1>3, EmittedMore
<1>5. {x \in {} : x.type = "control.emitted"} = {}
  OBVIOUS
<1> QED BY <1>4, <1>5

-----------------------------------------------------------------------------
(* Control values.                                                         *)

LEMMA ControlInvInit == Init => ControlInv
<1> SUFFICES ASSUME Init PROVE ControlInv
  OBVIOUS
<1>1. Emitted(published, job) = {}
  <2>1. Range(published) = {} /\ \A c \in Clients : Range(job[c].events) = {}
    BY NoEvents, IdleOK DEF Init
  <2> QED BY <2>1 DEF Emitted
<1>2. session.values = from_graph(session.document)
  BY DEF Init
<1>3. EmittedInv /\ ToldInv
  BY <1>1, <1>2 DEF EmittedInv, ToldInv, ValueTold, Told
<1> QED BY <1>3, ShapeInit DEF ControlInv

LEMMA ShapeStep == ShapeInv /\ [Next]_vars => ShapeInv'
<1> SUFFICES ASSUME ShapeInv, [Next]_vars PROVE ShapeInv'
  OBVIOUS
<1>1. IsSession(session') /\ epoch' \in Nat
  <2>1. epoch \in Nat /\ epoch + 1 \in Nat
    BY DEF ShapeInv
  <2> QED BY <2>1, ControlStep, InputSession DEF ControlKept, ControlReset, ControlSilent, ControlInput
<1>2. DOMAIN job' = Clients /\ \A d \in Clients : JobOK(job'[d])
  BY ShapeJobStep
<1>3. IsSeq(published') /\ DOMAIN held' = Clients
  <2>0. IsSeq(published) /\ DOMAIN held = Clients
    BY DEF ShapeInv
  <2>1. ASSUME UNCHANGED <<published, held>> PROVE IsSeq(published') /\ DOMAIN held' = Clients
    BY <2>0, <2>1
  <2>2. ASSUME published' = published, NEW c, NEW catalog, Hold(c, catalog)
        PROVE  IsSeq(published') /\ DOMAIN held' = Clients
    BY <2>0, <2>2 DEF Hold
  <2>3. ASSUME NEW c \in Clients, Publish(c) PROVE IsSeq(published') /\ DOMAIN held' = Clients
    <3>1. CASE job[c].events = <<>>
      BY <2>1, <2>3, <3>1 DEF Publish
    <3>2. CASE job[c].events # <<>>
      <4>1. IsSeq(Append(published, Head(job[c].events)))
        BY <2>0, AppendSeq
      <4> QED BY <2>0, <2>3, <3>2, <4>1, JobPublish
    <3> QED BY <3>1, <3>2
  <2>4. ASSUME NEW c \in Clients, RequestCatalog(c) \/ Hello(c) PROVE IsSeq(published') /\ DOMAIN held' = Clients
    <3>1. published' = published /\ (held' = held \/ \E catalog : Hold(c, catalog))
      BY <2>4 DEF RequestCatalog, Hello
    <3> QED BY <2>1, <2>2, <3>1
  <2>5. ASSUME NEW c \in Clients,
               \/ \E r \in Requests : ReceiveFrame(c, r)
               \/ ApplyEdit(c) \/ ApplyViewPatch(c) \/ ResolveObject(c) \/ CheckInput(c) \/ ApplyInput(c)
               \/ UpdatePresence(c) \/ RejectFrame(c) \/ Acknowledge(c)
        PROVE  IsSeq(published') /\ DOMAIN held' = Clients
    BY <2>1, <2>5 DEF ReceiveFrame, ApplyEdit, ApplyViewPatch, ResolveObject, CheckInput, ApplyInput, UpdatePresence,
         RejectFrame, Acknowledge, graph_command_rejected, runtime_error, histories
  <2>6. ASSUME Undo \/ (\E id, param : HttpControl(id, param)) \/ UNCHANGED vars
        PROVE  IsSeq(published') /\ DOMAIN held' = Clients
    BY <2>1, <2>6 DEF Undo, HttpControl, vars
  <2> QED BY <2>3, <2>4, <2>5, <2>6 DEF Next
<1> QED BY <1>1, <1>2, <1>3 DEF ShapeInv, IsSession

LEMMA ToldKept ==
    ASSUME ControlInv, Emitted(published', job') = Emitted(published, job),
           ControlKept \/ ControlReset \/ ControlSilent, session'.control_revision \in Nat
    PROVE  EmittedInv' /\ ToldInv'
<1> DEFINE emitted == Emitted(published, job)
<1>1. epoch \in Nat /\ session.control_revision \in Nat
  BY DEF ControlInv, ShapeInv
<1>2. \A e \in emitted :
        /\ e.epoch \in Nat /\ e.epoch <= epoch
        /\ e.epoch = epoch => e.content.revision \in Nat /\ e.content.revision <= session.control_revision
  BY DEF ControlInv, EmittedInv
<1>3. ~silent => \A id \in DOMAIN session.values : ValueTold(session, id, Told(id, emitted, epoch))
  BY DEF ControlInv, ToldInv
<1> HIDE DEF emitted
<1>4. Emitted(published', job') = emitted
  BY DEF emitted
<1>5. CASE ControlKept \/ ControlSilent
  <2>1. epoch' = epoch /\ session'.document = session.document
    BY <1>5 DEF ControlKept, ControlSilent
  <2>2. session'.control_revision \in {session.control_revision, session.control_revision + 1}
    BY <1>5 DEF ControlKept, ControlSilent
  <2>3. ~silent' => ~silent /\ session'.values = session.values
    BY <1>5 DEF ControlKept, ControlSilent
  <2>4. session.control_revision <= session'.control_revision
    BY <1>1, <2>2
  <2>5. \A e \in emitted : e.epoch = epoch => e.content.revision <= session'.control_revision
    BY <1>1, <1>2, <2>4
  <2>6. EmittedInv'
    BY <1>2, <1>4, <2>1, <2>5 DEF EmittedInv
  <2>7. ToldInv'
    BY <1>3, <1>4, <2>1, <2>3 DEF ToldInv, ValueTold
  <2> QED BY <2>6, <2>7
<1>6. CASE ControlReset
  <2>1. epoch' = epoch + 1 /\ session'.values = from_graph(session'.document)
    BY <1>6 DEF ControlReset
  <2>2. \A e \in emitted : e.epoch \in Nat /\ e.epoch <= epoch' /\ e.epoch # epoch'
    BY <1>1, <1>2, <2>1
  <2>3. EmittedInv'
    BY <1>4, <2>2 DEF EmittedInv
  <2>4. \A id : Told(id, emitted, epoch') = {}
    BY <2>2 DEF Told
  <2>5. ToldInv'
    BY <1>4, <2>1, <2>4 DEF ToldInv, ValueTold
  <2> QED BY <2>3, <2>5
<1> QED BY <1>5, <1>6

LEMMA ToldInput ==
    ASSUME ControlInv, NEW c \in Clients, ApplyInput(c), ControlInput(c), session'.control_revision \in Nat
    PROVE  EmittedInv' /\ ToldInv'
<1> DEFINE emitted == Emitted(published, job)
           changed == changed_control_values(session.values, session'.values)
<1>1. ShapeInv /\ epoch \in Nat /\ session.control_revision \in Nat
  BY DEF ControlInv, ShapeInv
<1>2. \A e \in emitted :
        /\ e.epoch \in Nat /\ e.epoch <= epoch
        /\ e.epoch = epoch => e.content.revision \in Nat /\ e.content.revision <= session.control_revision
  BY DEF ControlInv, EmittedInv
<1>3. ~silent => \A id \in DOMAIN session.values : ValueTold(session, id, Told(id, emitted, epoch))
  BY DEF ControlInv, ToldInv
<1>4. /\ session'.document = session.document /\ epoch' = epoch /\ silent' = silent
      /\ DOMAIN session'.values = DOMAIN session.values
      /\ session'.control_revision = IF session'.values # session.values THEN session.control_revision + 1
                                     ELSE session.control_revision
  BY DEF ControlInput
<1>5. /\ DOMAIN changed = {id \in DOMAIN session'.values : session.values[id] # session'.values[id]}
      /\ \A id \in DOMAIN changed : changed[id] = session'.values[id]
  BY <1>4 DEF changed_control_values
<1>6. \/ \E e : /\ Outcome(c, <<e>>, <<>>)
                /\ e.type = "control.emitted" /\ e.epoch = epoch
                /\ e.content.revision = session'.control_revision
                /\ e.content.values = changed
      \/ Outcome(c, <<>>, <<>>) /\ DOMAIN changed = {}
  BY DEF ControlInput
<1> HIDE DEF emitted, changed
<1>7. session.control_revision <= session'.control_revision
  BY <1>1, <1>4
<1>8. \A e \in emitted : e.epoch = epoch => e.content.revision \in Nat /\ e.content.revision <= session'.control_revision
  BY <1>1, <1>2, <1>7
<1>9. CASE Outcome(c, <<>>, <<>>) /\ DOMAIN changed = {}
  <2>1. Emitted(published', job') = emitted
    BY <1>1, <1>9, InputQuiet DEF emitted
  <2>2. \A id \in DOMAIN session'.values : session'.values[id] = session.values[id]
    BY <1>5, <1>9
  <2>3. EmittedInv'
    BY <1>2, <1>4, <1>8, <2>1 DEF EmittedInv
  <2>4. ToldInv'
    BY <1>3, <1>4, <2>1, <2>2 DEF ToldInv, ValueTold
  <2> QED BY <2>3, <2>4
<1>10. ASSUME NEW e, Outcome(c, <<e>>, <<>>), e.type = "control.emitted", e.epoch = epoch,
              e.content.revision = session'.control_revision, e.content.values = changed
       PROVE  EmittedInv' /\ ToldInv'
  <2>1. Emitted(published', job') = emitted \cup {e}
    BY <1>1, <1>10, InputEmitted DEF emitted
  <2>2. EmittedInv'
    BY <1>1, <1>2, <1>4, <1>8, <1>10, <2>1 DEF EmittedInv
  <2>3. SUFFICES ASSUME ~silent, NEW id \in DOMAIN session'.values
                 PROVE  ValueTold(session', id, Told(id, emitted \cup {e}, epoch))
    BY <1>4, <2>1, <2>2 DEF ToldInv
  <2> DEFINE told == Told(id, emitted, epoch)
             more == Told(id, emitted \cup {e}, epoch)
  <2>4. ValueTold(session, id, told)
    BY <1>3, <1>4, <2>3
  <2>5. \A d \in told : d.content.revision \in Nat /\ d.content.revision <= session.control_revision
    BY <1>2 DEF Told
  <2>6. CASE id \in DOMAIN changed
    <3>1. session'.control_revision = session.control_revision + 1 /\ changed[id] = session'.values[id]
      BY <1>4, <1>5, <2>6
    <3>2. more = told \cup {e}
      BY <1>10, <2>6 DEF Told
    <3> HIDE DEF told, more
    <3>3. Newest(e, more)
      BY <1>1, <1>10, <2>5, <3>1, <3>2 DEF Newest
    <3>4. \A d \in more : Newest(d, more) => d = e
      BY <1>1, <1>10, <2>5, <3>1, <3>2 DEF Newest
    <3>5. /\ more # {} /\ (\E d \in more : Newest(d, more))
          /\ \A d \in more : Newest(d, more) => d.content.values[id] = session'.values[id]
      BY <1>10, <3>1, <3>2, <3>3, <3>4
    <3>6. ValueTold(session', id, more)
      BY <3>5 DEF ValueTold
    <3> QED BY <3>6 DEF more
  <2>7. CASE id \notin DOMAIN changed
    <3>1. more = told /\ session'.values[id] = session.values[id]
      BY <1>5, <1>10, <2>3, <2>7 DEF Told
    <3> HIDE DEF told, more
    <3>2. ValueTold(session', id, more)
      BY <1>4, <2>4, <3>1 DEF ValueTold
    <3> QED BY <3>2 DEF more
  <2> QED BY <2>6, <2>7
<1> QED BY <1>6, <1>9, <1>10

LEMMA ControlInvStep == ControlInv /\ [Next]_vars => ControlInv'
<1> SUFFICES ASSUME ControlInv, [Next]_vars PROVE ControlInv'
  OBVIOUS
<1>1. ShapeInv /\ ShapeInv'
  BY ShapeStep DEF ControlInv
<1>2. session'.control_revision \in Nat
  BY <1>1 DEF ShapeInv
<1>3. CASE \A c \in Clients : ~ApplyInput(c)
  BY <1>1, <1>2, <1>3, ControlStep, EmittedStep, ToldKept DEF ControlInv
<1>4. ASSUME NEW c \in Clients, ApplyInput(c) PROVE EmittedInv' /\ ToldInv'
  <2>1. CASE Answer(c) /\ ControlKept
    BY <1>1, <1>2, <1>4, <2>1, InputQuiet, ToldKept
  <2>2. CASE ControlInput(c)
    BY <1>2, <1>4, <2>2, ToldInput
  <2> QED BY <1>1, <1>4, <2>1, <2>2, InputSession
<1> QED BY <1>1, <1>3, <1>4 DEF ControlInv

\* The inductive invariant about control values.
THEOREM ControlInvariant == Spec => []ControlInv
BY ControlInvInit, ControlInvStep, PTL DEF Spec

\* For any clients, documents, feeds and interleavings: the control.emitted
\* events with the greatest control revision tell the values the session has,
\* as the revision is taken under the lock under which the values change
\* (apply_control_command, control_emitted_event).
THEOREM LatestToldIsTrue == Spec => []LatestToldIsCurrent
<1>1. ControlInv => LatestToldIsCurrent
  <2> SUFFICES ASSUME ControlInv, Quiet, ~silent, NEW id \in DOMAIN session.values
               PROVE  LET told == {e \in Range(published) : e.type = "control.emitted" /\ e.epoch = epoch
                                          /\ id \in DOMAIN e.content.values}
                          latest == CHOOSE e \in told : \A d \in told : d.content.revision <= e.content.revision
                      IN session.values[id] = IF told = {} THEN from_graph(session.document)[id]
                                              ELSE latest.content.values[id]
    BY DEF LatestToldIsCurrent
  <2> DEFINE told == {e \in Range(published) : e.type = "control.emitted" /\ e.epoch = epoch
                                                /\ id \in DOMAIN e.content.values}
             latest == CHOOSE e \in told : \A d \in told : d.content.revision <= e.content.revision
  <2>1. \A c \in Clients : Range(job[c].events) = {}
    BY NoEvents DEF ControlInv, ShapeInv, JobOK, Quiet
  <2>2. Emitted(published, job) = {e \in Range(published) : e.type = "control.emitted"}
    BY <2>1 DEF Emitted
  <2>3. told = Told(id, Emitted(published, job), epoch)
    BY <2>2 DEF Told
  <2> HIDE DEF told
  <2>4. ValueTold(session, id, told)
    BY <2>3 DEF ControlInv, ToldInv
  <2>5. told # {} => latest \in told /\ Newest(latest, told)
    BY <2>4 DEF ValueTold, Newest
  <2> HIDE DEF latest
  <2>6. session.values[id] = IF told = {} THEN from_graph(session.document)[id] ELSE latest.content.values[id]
    BY <2>4, <2>5 DEF ValueTold
  <2> QED BY <2>6 DEF told, latest
<1> QED BY <1>1, ControlInvariant, PTL

-----------------------------------------------------------------------------
(* The node catalog.                                                       *)

\* A step that leaves the catalogs alone.
LEMMA CatalogSame ==
    ASSUME ShapeInv, CatalogInv, NEW c \in Clients, Others(c),
           job'[c].catalog = job[c].catalog, ChangeWaits(job'[c]),
           session'.catalog.snapshot = session.catalog.snapshot, UNCHANGED <<held, missed>>
    PROVE  CatalogInv'
<1>1. \A d \in Clients : job'[d].catalog = job[d].catalog
  BY DEF Others
<1>2. \A d \in Clients : ChangeWaits(job'[d])
  BY DEF Others, CatalogInv
<1>3. ChangeUnderWay' <=> ChangeUnderWay
  BY <1>1 DEF ChangeUnderWay
<1> QED BY <1>1, <1>2, <1>3 DEF CatalogInv

LEMMA IdleWaits == ChangeWaits(Idle)
BY DEF ChangeWaits, Idle

LEMMA NewWaits ==
    ASSUME NEW j, j.events = <<>>, j.catalog = <<>>
    PROVE  ChangeWaits(j)
BY DEF ChangeWaits

LEMMA OneWaits ==
    ASSUME NEW j, NEW e, j.events = <<e>>, e.type # "nodeCatalog.changed",
           \/ j.step = "tell" /\ (j.catalog = <<>> \/ \E x : j.catalog = <<x>>)
           \/ j.step = "publish" /\ j.catalog = <<>>
    PROVE  ChangeWaits(j)
<1>1. \A i \in 1..Len(j.events) : j.events[i] = e
  <2>1. Len(<<e>>) = 1 /\ <<e>>[1] = e
    OBVIOUS
  <2>2. \A i \in 1..1 : i = 1
    OBVIOUS
  <2> QED BY <2>1, <2>2
<1>2. \A x : x = <<x[1]>> \/ x # <<x[1]>>
  OBVIOUS
<1>3. j.catalog = <<>> \/ j.catalog = <<j.catalog[1]>>
  OBVIOUS
<1> QED BY <1>1, <1>3 DEF ChangeWaits

LEMMA AcknowledgedWaits ==
    ASSUME ShapeInv, NEW c \in Clients, ChangeWaits(job[c]), Acknowledge(c)
    PROVE  ChangeWaits(job'[c])
<1>1. job[c].step = "tell"
  BY JobBusy DEF Acknowledge
<1>2. job'[c].step = "publish" /\ job'[c].catalog = job[c].catalog
  BY JobAcknowledge
<1>3. \A i \in 1..Len(job[c].events) : job[c].events[i].type # "nodeCatalog.changed"
  BY <1>1 DEF ChangeWaits
<1>4. CASE job[c].catalog = <<>>
  <2>1. job'[c].events = job[c].events
    BY <1>4, JobAcknowledge
  <2> QED BY <1>2, <1>3, <1>4, <2>1 DEF ChangeWaits
<1>5. CASE job[c].catalog # <<>>
  <2>1. PICK e : job'[c].events = Append(job[c].events, e) /\ e.type = "nodeCatalog.changed"
                 /\ e.content = job[c].catalog[1]
    BY <1>5, JobAcknowledge
  <2>2. job[c].catalog = <<e.content>>
    BY <1>5, <2>1 DEF ChangeWaits
  <2> DEFINE s == job[c].events
             t == job'[c].events
  <2>3. IsSeq(s)
    BY DEF ShapeInv, JobOK
  <2>4. /\ IsSeq(t) /\ Len(s) \in Nat /\ Len(t) = Len(s) + 1 /\ t[Len(s) + 1] = e
        /\ \A i \in 1..Len(s) : t[i] = s[i]
    BY <2>1, <2>3, AppendSeq
  <2>5. t # <<>>
    BY <2>4, NoEvents
  <2> HIDE DEF s, t
  <2>6. \A i \in 1..Len(t) : i \in 1..Len(s) \/ i = Len(t)
    BY <2>4
  <2>7. \A i \in 1..Len(t) : t[i].type = "nodeCatalog.changed" => i = Len(t) /\ t[i] = e
    BY <1>3, <2>4, <2>6 DEF s
  <2>8. t[Len(t)] = e
    BY <2>4
  <2> QED BY <1>2, <2>1, <2>2, <2>5, <2>7, <2>8 DEF ChangeWaits, t
<1> QED BY <1>4, <1>5

LEMMA PublishedWaits ==
    ASSUME ShapeInv, NEW c \in Clients, ChangeWaits(job[c]), Publish(c), job[c].events # <<>>
    PROVE  /\ ChangeWaits(job'[c])
           /\ Head(job[c].events).type = "nodeCatalog.changed" =>
                job[c].catalog = <<Head(job[c].events).content>>
<1> DEFINE s == job[c].events
           t == job'[c].events
           head == Head(s)
<1>1. job[c].step = "publish"
  BY JobBusy DEF Publish
<1>2. /\ job'[c].step = "publish" /\ t = Tail(s)
      /\ job'[c].catalog = IF head.type = "nodeCatalog.changed" THEN <<>> ELSE job[c].catalog
  BY <1>1, JobPublish
<1>3. IsSeq(s)
  BY DEF ShapeInv, JobOK
<1>4. /\ IsSeq(t) /\ Len(s) \in Nat \ {0} /\ Len(t) = Len(s) - 1 /\ head = s[1]
      /\ \A i \in 1..Len(t) : t[i] = s[i + 1] /\ i + 1 \in 1..Len(s)
  BY <1>2, <1>3, TailSeq
<1>5. /\ job[c].catalog = <<>> \/ job[c].catalog = <<job[c].catalog[1]>>
      /\ \A i \in 1..Len(s) : s[i].type = "nodeCatalog.changed" => i = Len(s) /\ job[c].catalog = <<s[i].content>>
      /\ job[c].catalog # <<>> => s[Len(s)].type = "nodeCatalog.changed"
  BY <1>1 DEF ChangeWaits
<1> HIDE DEF s, t, head
<1>6. 1 \in 1..Len(s)
  BY <1>4
<1>7. head.type = "nodeCatalog.changed" => Len(s) = 1 /\ job[c].catalog = <<head.content>>
  BY <1>4, <1>5, <1>6
<1>8. CASE head.type = "nodeCatalog.changed"
  <2>1. Len(t) = 0
    <3>1. Len(s) = 1
      BY <1>7, <1>8
    <3>2. Len(t) = Len(s) - 1
      BY <1>4
    <3> QED BY <3>1, <3>2
  <2>2. \A i \in 1..Len(t) : FALSE
    BY <2>1
  <2>3. ChangeWaits(job'[c])
    BY <1>2, <1>8, <2>2 DEF ChangeWaits, t
  <2> QED BY <1>7, <2>3 DEF head, s
<1>9. CASE head.type # "nodeCatalog.changed"
  <2>1. job'[c].catalog = job[c].catalog
    BY <1>2, <1>9
  <2>2. \A i \in 1..Len(t) : t[i].type = "nodeCatalog.changed" => i = Len(t) /\ job[c].catalog = <<t[i].content>>
    BY <1>4, <1>5
  <2>3. job[c].catalog # <<>> => t # <<>> /\ t[Len(t)].type = "nodeCatalog.changed"
    <3> SUFFICES ASSUME job[c].catalog # <<>> PROVE t # <<>> /\ t[Len(t)].type = "nodeCatalog.changed"
      OBVIOUS
    <3>1. s[Len(s)].type = "nodeCatalog.changed"
      BY <1>5
    <3>2. Len(s) # 1
      BY <1>4, <1>9, <3>1
    <3>3. Len(t) \in 1..Len(t) /\ Len(t) # 0
      BY <1>4, <3>2
    <3>4. t[Len(t)] = s[Len(s)]
      BY <1>4, <3>3
    <3> QED BY <3>1, <3>3, <3>4, NoEvents
  <2>4. ChangeWaits(job'[c])
    BY <1>1, <1>2, <1>5, <2>1, <2>2, <2>3 DEF ChangeWaits, t
  <2> QED BY <1>9, <2>4 DEF head, s
<1> QED BY <1>8, <1>9

LEMMA CatalogInvInit == Init => CatalogInv
<1> SUFFICES ASSUME Init PROVE CatalogInv
  OBVIOUS
<1>1. \A c \in Clients : job[c] = Idle /\ held[c] = None
  BY DEF Init
<1> QED BY <1>1, IdleWaits, IdleOK DEF CatalogInv

\* Answers, and what the frames do that have nothing to do with catalogs.
LEMMA CatalogAnswer ==
    ASSUME ShapeInv, CatalogInv, NEW c \in Clients, Answer(c), job[c].catalog = <<>>,
           session'.catalog.snapshot = session.catalog.snapshot, UNCHANGED <<held, missed>>
    PROVE  CatalogInv'
BY JobAnswer, IdleOK, IdleWaits, CatalogSame

LEMMA CatalogOutcome ==
    ASSUME ShapeInv, CatalogInv, NEW c \in Clients, job[c].catalog = <<>>,
           \/ Outcome(c, <<>>, <<>>)
           \/ \E e : Outcome(c, <<e>>, <<>>) /\ e.type # "nodeCatalog.changed",
           session'.catalog.snapshot = session.catalog.snapshot, UNCHANGED <<held, missed>>
    PROVE  CatalogInv'
<1>1. Others(c) /\ job'[c].catalog = <<>> /\ ChangeWaits(job'[c])
  <2>1. ASSUME Outcome(c, <<>>, <<>>) PROVE Others(c) /\ job'[c].catalog = <<>> /\ ChangeWaits(job'[c])
    BY <2>1, JobOutcome, NewWaits
  <2>2. ASSUME NEW e, Outcome(c, <<e>>, <<>>), e.type # "nodeCatalog.changed"
        PROVE  Others(c) /\ job'[c].catalog = <<>> /\ ChangeWaits(job'[c])
    BY <2>2, JobOutcome, OneWaits
  <2> QED BY <2>1, <2>2
<1> QED BY <1>1, CatalogSame

LEMMA CatalogEdit ==
    ASSUME ShapeInv, CatalogInv, NEW c \in Clients, ApplyEdit(c)
    PROVE  CatalogInv'
<1> DEFINE r == job[c].request
           document == IF r.complete /\ SessionRevisionFits(c) /\ TargetFits(c)
                       THEN Edited(session.document, r) ELSE <<>>
           after == apply_project_document_update(session, document[1])
           catalog == CatalogChange(session, after)
           e == Event("graph.applied", c, after.revision)
           snapshot == after.catalog.snapshot
<1>1. job[c].catalog = <<>>
  BY JobApplied
<1>2. \/ graph_command_rejected(c)
      \/ /\ session' = after /\ Outcome(c, <<e>>, catalog) /\ held' = held
         /\ missed' = CASE catalog = <<>> -> missed
                        [] catalog # <<>> /\ ChangeUnderWay -> Clients
                        [] OTHER -> {}
  BY DEF ApplyEdit
<1>3. \/ catalog = <<>> /\ snapshot = session.catalog.snapshot
      \/ catalog = <<snapshot>>
  BY DEF CatalogChange
<1>4. e.type = "graph.applied"
  BY DEF Event
<1> HIDE DEF r, document, after, catalog, e
<1>5. CASE graph_command_rejected(c)
  BY <1>1, <1>5, CatalogAnswer DEF graph_command_rejected, histories
<1>6. ASSUME session' = after, Outcome(c, <<e>>, catalog), held' = held, catalog = <<>>, missed' = missed,
             snapshot = session.catalog.snapshot
      PROVE  CatalogInv'
  BY <1>1, <1>4, <1>6, CatalogOutcome
<1>7. ASSUME session' = after, Outcome(c, <<e>>, catalog), held' = held, catalog = <<snapshot>>,
             missed' = IF ChangeUnderWay THEN Clients ELSE {}
      PROVE  CatalogInv'
  <2>1. /\ Others(c) /\ job'[c].step = "tell" /\ job'[c].events = <<e>> /\ job'[c].catalog = <<snapshot>>
    BY <1>7, JobOutcome
  <2>2. ChangeWaits(job'[c])
    BY <1>4, <2>1, OneWaits
  <2>3. \A d \in Clients : ChangeWaits(job'[d])
    BY <2>1, <2>2 DEF Others, CatalogInv
  <2>4. ChangeUnderWay'
    BY <2>1 DEF ChangeUnderWay
  <2>5. ~ChangeUnderWay => \A d \in Clients : job'[d].catalog \in {<<>>, <<snapshot>>}
    BY <2>1 DEF ChangeUnderWay, Others
  <2>6. session'.catalog.snapshot = snapshot
    BY <1>7
  <2> HIDE DEF snapshot
  <2>7. Clients \ missed' # {} => \A d \in Clients : job'[d].catalog \in {<<>>, <<snapshot>>}
    BY <1>7, <2>5
  <2> QED BY <2>3, <2>4, <2>6, <2>7 DEF CatalogInv
<1>8. catalog = <<>> => catalog # <<snapshot>>
  OBVIOUS
<1> QED BY <1>2, <1>3, <1>5, <1>6, <1>7, <1>8

LEMMA CatalogHold ==
    ASSUME ShapeInv, CatalogInv, NEW c \in Clients, Answer(c), job[c].catalog = <<>>,
           NEW catalog \in {node_catalog_response(c), session.catalog.snapshot}, Hold(c, catalog),
           session'.catalog.snapshot = session.catalog.snapshot
    PROVE  CatalogInv'
<1> DEFINE snapshot == session.catalog.snapshot
<1>1. Others(c) /\ job'[c] = Idle /\ ChangeWaits(job'[c]) /\ job'[c].catalog = <<>>
  BY JobAnswer, IdleOK, IdleWaits
<1>2. \A d \in Clients : job'[d].catalog = job[d].catalog /\ ChangeWaits(job'[d])
  BY <1>1 DEF Others, CatalogInv
<1>3. ChangeUnderWay' <=> ChangeUnderWay
  BY <1>2 DEF ChangeUnderWay
<1>4. /\ held' = [held EXCEPT ![c] = catalog]
      /\ missed' = IF ChangeUnderWay \/ job[c].known # held[c] THEN missed ELSE missed \ {c}
  BY DEF Hold
<1>5. held'[c] = catalog /\ \A d \in Clients \ {c} : held'[d] = held[d]
  BY <1>4 DEF ShapeInv
<1>6. catalog = snapshot \/ (catalog = held[c] /\ job[c].known = snapshot)
  BY DEF node_catalog_response, catalog_revision_matches
<1>7. Clients \ missed' # {} => \A d \in Clients : job'[d].catalog \in {<<>>, <<snapshot>>}
  <2>1. CASE ChangeUnderWay \/ job[c].known # held[c]
    BY <1>2, <1>4, <2>1 DEF CatalogInv
  <2>2. CASE ~ChangeUnderWay
    BY <1>2, <2>2 DEF ChangeUnderWay
  <2> QED BY <2>1, <2>2
<1>8. ASSUME ~ChangeUnderWay, NEW d \in Clients, d \notin missed' PROVE held'[d] \in {None, snapshot}
  <2>1. d \notin missed => held[d] \in {None, snapshot}
    BY <1>8 DEF CatalogInv
  <2>2. CASE d # c
    BY <1>4, <1>5, <1>8, <2>1, <2>2
  <2>3. CASE d = c
    BY <1>4, <1>5, <1>6, <1>8, <2>1, <2>3
  <2> QED BY <2>2, <2>3
<1> QED BY <1>2, <1>3, <1>7, <1>8 DEF CatalogInv

LEMMA CatalogPublish ==
    ASSUME ShapeInv, CatalogInv, NEW c \in Clients, Publish(c)
    PROVE  CatalogInv'
<1> DEFINE head == Head(job[c].events)
<1>1. session' = session /\ missed' = missed
  BY DEF Publish
<1>2. ChangeWaits(job[c]) /\ job[c].step = "publish"
  BY JobBusy DEF CatalogInv, Publish
<1>3. CASE job[c].events = <<>>
  <2>1. job[c].catalog = <<>>
    BY <1>2, <1>3 DEF ChangeWaits
  <2> QED BY <1>1, <1>3, <2>1, CatalogAnswer DEF Publish
<1>4. CASE job[c].events # <<>>
  <2>1. /\ Others(c) /\ ChangeWaits(job'[c])
        /\ job'[c].catalog = IF head.type = "nodeCatalog.changed" THEN <<>> ELSE job[c].catalog
        /\ held' = IF head.type = "nodeCatalog.changed" THEN [d \in Clients |-> head.content] ELSE held
        /\ head.type = "nodeCatalog.changed" => job[c].catalog = <<head.content>>
    BY <1>2, <1>4, JobPublish, PublishedWaits
  <2> HIDE DEF head
  <2>2. CASE head.type # "nodeCatalog.changed"
    BY <1>1, <2>1, <2>2, CatalogSame
  <2>3. CASE head.type = "nodeCatalog.changed"
    <3>1. \A d \in Clients : ChangeWaits(job'[d]) /\ job'[d].catalog \in {<<>>, job[d].catalog}
      BY <2>1, <2>3 DEF Others, CatalogInv
    <3>2. Clients \ missed # {} => \A d \in Clients : job'[d].catalog \in {<<>>, <<session.catalog.snapshot>>}
      BY <3>1 DEF CatalogInv
    <3>3. Clients \ missed # {} => head.content = session.catalog.snapshot
      <4>1. Clients \ missed # {} => <<head.content>> \in {<<>>, <<session.catalog.snapshot>>}
        BY <2>1, <2>3 DEF CatalogInv
      <4> QED BY <4>1
    <3>4. \A d \in Clients : held'[d] = head.content
      BY <2>1, <2>3
    <3>5. \A d \in Clients \ missed : held'[d] \in {None, session.catalog.snapshot}
      BY <3>3, <3>4
    <3> QED BY <1>1, <3>1, <3>2, <3>5 DEF CatalogInv
  <2> QED BY <2>2, <2>3
<1> QED BY <1>3, <1>4

LEMMA CatalogUndo ==
    ASSUME ShapeInv, CatalogInv, Undo
    PROVE  CatalogInv'
<1>1. job' = job /\ held' = held
      /\ (\/ session'.catalog.snapshot = session.catalog.snapshot /\ missed' = missed
          \/ missed' = Clients)
  BY DEF Undo
<1>2. ChangeUnderWay' <=> ChangeUnderWay
  BY <1>1 DEF ChangeUnderWay
<1> QED BY <1>1, <1>2 DEF CatalogInv

LEMMA CatalogInvStep == HoldInv /\ [Next]_vars => HoldInv'
<1> SUFFICES ASSUME ShapeInv, CatalogInv, [Next]_vars PROVE CatalogInv'
  BY ShapeStep DEF HoldInv
<1>1. ASSUME NEW c \in Clients, NEW r \in Requests, ReceiveFrame(c, r) PROVE CatalogInv'
  <2>1. job[c].catalog = <<>> /\ session' = session /\ UNCHANGED <<held, missed>>
    BY <1>1 DEF ReceiveFrame, histories, ShapeInv, JobOK
  <2>2. Others(c) /\ job'[c].events = <<>> /\ job'[c].catalog = <<>> /\ job'[c].step = "apply"
    BY <1>1, JobReceive
  <2>3. ChangeWaits(job'[c])
    BY <2>2, NewWaits
  <2> QED BY <2>1, <2>2, <2>3, CatalogSame
<1>2. ASSUME NEW c \in Clients, ApplyViewPatch(c) PROVE CatalogInv'
  <2> DEFINE e == Event("graph.applied", c, session.revision + 1)
  <2>1. \/ graph_command_rejected(c)
        \/ session' = apply_view_patch(session) /\ Outcome(c, <<e>>, <<>>) /\ UNCHANGED <<held, missed>>
    BY <1>2 DEF ApplyViewPatch
  <2>2. e.type = "graph.applied"
    BY DEF Event
  <2> HIDE DEF e
  <2>3. job[c].catalog = <<>> /\ IsSession(session)
    BY <1>2, JobApplied DEF ShapeInv, IsSession
  <2>4. CASE graph_command_rejected(c)
    BY <2>3, <2>4, CatalogAnswer DEF graph_command_rejected, histories
  <2>5. CASE session' = apply_view_patch(session) /\ Outcome(c, <<e>>, <<>>) /\ UNCHANGED <<held, missed>>
    <3>1. session'.catalog = session.catalog
      BY <2>3, <2>5, SessionViewPatch
    <3> QED BY <2>2, <2>3, <2>5, <3>1, CatalogOutcome
  <2> QED BY <2>1, <2>4, <2>5
<1>3. ASSUME NEW c \in Clients, CheckInput(c) PROVE CatalogInv'
  <2>1. job[c].catalog = <<>> /\ job[c].events = <<>> /\ session' = session /\ UNCHANGED <<held, missed>>
    BY <1>3, JobApplied DEF CheckInput, histories
  <2>2. CASE Answer(c)
    BY <2>1, <2>2, CatalogAnswer
  <2>3. CASE job' = [job EXCEPT ![c].step = "input"]
    <3>1. Others(c) /\ job'[c].events = <<>> /\ job'[c].catalog = <<>> /\ job'[c].step = "input"
      BY <2>1, <2>3, JobInput
    <3> QED BY <2>1, <3>1, NewWaits, CatalogSame
  <2> QED BY <1>3, <2>2, <2>3 DEF CheckInput
<1>4. ASSUME NEW c \in Clients, ApplyInput(c) PROVE CatalogInv'
  <2>1. job[c].catalog = <<>> /\ session'.catalog = session.catalog /\ UNCHANGED <<held, missed>>
    BY <1>4, JobApplied, InputSession DEF ApplyInput
  <2>2. Answer(c) \/ Outcome(c, <<>>, <<>>) \/ \E e : Outcome(c, <<e>>, <<>>) /\ e.type = "control.emitted"
    BY <1>4, InputSession DEF ControlInput
  <2> QED BY <2>1, <2>2, CatalogAnswer, CatalogOutcome
<1>5. ASSUME NEW c \in Clients, UpdatePresence(c) PROVE CatalogInv'
  <2>1. job[c].catalog = <<>> /\ session' = session /\ UNCHANGED <<held, missed>>
    BY <1>5, JobApplied DEF UpdatePresence, histories
  <2>2. PICK e : job'[c].events = <<e>> /\ e.type = "presence.updated"
    BY <1>5, JobPresence
  <2>3. Others(c) /\ job'[c].step = "publish" /\ job'[c].catalog = <<>>
    BY <1>5, <2>1, JobPresence
  <2>4. ChangeWaits(job'[c])
    BY <2>2, <2>3, OneWaits
  <2> QED BY <2>1, <2>3, <2>4, CatalogSame
<1>6. ASSUME NEW c \in Clients, RequestCatalog(c) \/ Hello(c) PROVE CatalogInv'
  <2>1. job[c].catalog = <<>> /\ job[c].request \in Requests /\ session' = session /\ Answer(c)
    BY <1>6, JobApplied DEF RequestCatalog, Hello
  <2>2. CASE RequestCatalog(c)
    BY <2>1, <2>2, CatalogHold DEF RequestCatalog
  <2>3. CASE Hello(c)
    <3> DEFINE mode == job[c].request.text
    <3>1. job[c].request.kind = "session.hello"
      BY <2>3 DEF Hello, At
    <3>2. mode \in {"none", "ifChanged", "always"}
      BY <2>1, <3>1, RequestsAssumption
    <3>3. IF mode = "none" THEN UNCHANGED <<held, missed>> ELSE Hold(c, hello_node_catalog_payload(c, mode))
      BY <2>3 DEF Hello
    <3>4. mode # "none" => hello_node_catalog_payload(c, mode) \in {node_catalog_response(c), session.catalog.snapshot}
      BY <3>2 DEF hello_node_catalog_payload
    <3> HIDE DEF mode
    <3> QED BY <2>1, <3>3, <3>4, CatalogAnswer, CatalogHold
  <2> QED BY <1>6, <2>2, <2>3
<1>7. ASSUME NEW c \in Clients, ResolveObject(c) \/ RejectFrame(c) PROVE CatalogInv'
  <2>1. job[c].catalog = <<>> /\ session' = session /\ UNCHANGED <<held, missed>> /\ Answer(c)
    BY <1>7, JobApplied DEF ResolveObject, RejectFrame, runtime_error, histories
  <2> QED BY <2>1, CatalogAnswer
<1>8. ASSUME NEW c \in Clients, Acknowledge(c) PROVE CatalogInv'
  <2>1. session' = session /\ UNCHANGED <<held, missed>>
    BY <1>8 DEF Acknowledge, histories
  <2>2. ChangeWaits(job[c])
    BY DEF CatalogInv
  <2>3. ChangeWaits(job'[c]) /\ Others(c) /\ job'[c].catalog = job[c].catalog
    BY <1>8, <2>2, AcknowledgedWaits, JobAcknowledge
  <2> QED BY <2>1, <2>3, CatalogSame
<1>9. ASSUME NEW id, NEW param, HttpControl(id, param) PROVE CatalogInv'
  <2>1. session'.catalog = session.catalog
    BY <1>9, SessionControl DEF HttpControl, ShapeInv, IsSession
  <2> QED BY <1>9, <2>1 DEF HttpControl, CatalogInv, ChangeUnderWay
<1>10. CASE UNCHANGED vars
  BY <1>10 DEF vars, CatalogInv, ChangeUnderWay
<1> QED BY <1>1, <1>2, <1>3, <1>4, <1>5, <1>6, <1>7, <1>8, <1>9, <1>10,
           CatalogEdit, CatalogPublish, CatalogUndo DEF Next

\* The inductive invariant about the clients' catalogs.
THEOREM CatalogInvariant == Spec => []HoldInv
<1>1. Init => HoldInv
  BY ShapeInit, CatalogInvInit DEF HoldInv
<1> QED BY <1>1, CatalogInvStep, PTL DEF Spec

\* For any clients, requests and interleavings: the catalog that a client has
\* is the session's, but for the clients that the property lets be
\* (with_catalog_change, node_catalog_response).
THEOREM CatalogsAreTold == Spec => []CatalogIsTold
<1>1. HoldInv => CatalogIsTold
  <2> SUFFICES ASSUME HoldInv, Quiet
               PROVE  \A c \in Clients \ missed : held[c] \in {None, session.catalog.snapshot}
    BY DEF CatalogIsTold
  <2>1. ~ChangeUnderWay
    BY DEF HoldInv, ShapeInv, JobOK, Quiet, ChangeUnderWay
  <2> QED BY <2>1 DEF HoldInv, CatalogInv
<1> QED BY <1>1, CatalogInvariant, PTL
=============================================================================
