---------------------------- MODULE Collaboration ----------------------------
(***************************************************************************)
(* Collaboration operations, presence and selection of one session         *)
(* (collaboration.rs, the handlers of server.rs and the envelopes and      *)
(* validators of runtime_transport.rs).                                    *)
(*                                                                         *)
(* Every handler holds the operation guard, a mutex, from beginning to     *)
(* end; edits over the WebSocket do not take it.  An operation reads the   *)
(* revision of its target, takes its sequence, and only then gets the      *)
(* session's write lock, so three steps are told apart.  A handler that    *)
(* panics leaves the guard poisoned and every later handler panics too.    *)
(* The event log's bounded store and its streams are in EventStreams; here *)
(* the log lists events in the order of publication.                       *)
(***************************************************************************)
EXTENDS Integers, Sequences, FiniteSets, FiniteSetsExt, SequencesExt

CONSTANTS
  Operations,    \* envelopes clients may submit, any number of times
  Batches,       \* sequences of envelopes clients may submit as one batch
  Participants,
  RetentionLimit,   \* replay_limit: results kept
  PresenceLimit,    \* participants kept: 2 * replay_limit in the code
  MaxSequence,   \* bound: event sequences
  MaxTime,       \* bound: clock readings, in the clock's resolution
  None

VARIABLES
  revision,   \* revision of the session's root graph
  sequence,   \* next event sequence
  guard,      \* the operation being worked on, or None when the guard is free
  batch,      \* operations left of the batch being worked on
  results,    \* idempotency_results: key -> result
  presence,   \* participant -> [updated, expires]
  selection,  \* participant -> update number
  poisoned,   \* None, or what the assertion that made a handler panic looked at
  now,        \* created_at_now
  unsound,    \* history: answers to batches that failed their assertion
  log,        \* history: the events published, in order
  applied,    \* history: sequence of [key, ack, rebase] of applied operations
  refused,    \* history: keys answered with a nack, still remembered
  fresh,      \* history: key -> results of other keys remembered since
  dropped,    \* history: keys dropped, and not remembered since, for good reason
  latest      \* history: participant -> last presence published, newest time given

vars == <<revision, sequence, guard, batch, unsound, results, presence, selection, poisoned,
          now, log, applied, refused, fresh, dropped, latest>>

operations == <<guard, batch, unsound, results, applied, refused, fresh, dropped>>
people == <<presence, selection, latest>>

(***************************************************************************)
(* What clients send (runtime_transport.rs).  Strings that are only        *)
(* compared are numbers; participants are positive and the runtime's own   *)
(* entry in a vector is number 0.                                          *)
(***************************************************************************)
Runtime == 0

\* A causal record: the revision and sequence its maker knew, and a vector
\* that gives the last sequence he had seen of each participant.
Causals(seen) == [base_revision : Nat, base_sequence : Nat, vector : [seen -> Nat]]

\* Whom a vector may speak of.
Seen == SUBSET (Participants \cup {Runtime})

IsCausalMetadata(c) == \E seen \in Seen : c \in Causals(seen)

\* An authenticated subject's id, or None.
AuthSubjects == Nat \cup {None}

\* The members of a change set are told apart by their change ids.
IsChange(c) ==
  /\ c.op \in {"node.add", "node.move", "node.delete", "edge.connect", "edge.disconnect"}
  /\ c.change_id \in Nat

\* An undo or redo names the participant whose edits it is about.
IsUndoScope(op) == op.kind \in {"undo", "redo"} => op.scope \in Participants

\* A change set and a paste name the revision of their target.
IsPayload(op) ==
  /\ op.kind \in {"changeSet", "paste", "undo", "redo"}
  /\ op.kind = "changeSet" => \A i \in 1..Len(op.changes) : IsChange(op.changes[i])
  /\ op.kind \in {"changeSet", "paste"} => op.base \in Nat
  /\ IsUndoScope(op)

IsOperationEnvelope(op) ==
  /\ op.key \in Nat /\ op.participant \in Participants /\ op.session_ok \in BOOLEAN
  /\ op.client \in {None, ""}     \* the correlation id: absent, or empty
  /\ op.id_ok \in BOOLEAN         \* the operation id is not empty
  /\ op.subject \in AuthSubjects
  /\ IsCausalMetadata(op.causal) /\ IsPayload(op)

IsOperationBatch(ops) ==
  /\ ops \in Seq(ToSet(ops))
  /\ \A i \in 1..Len(ops) : IsOperationEnvelope(ops[i])

\* The limits are positive and clients send what the server can decode.
ASSUME CollaborationAssumption ==
  /\ RetentionLimit \in Nat \ {0} /\ PresenceLimit \in Nat \ {0}
  /\ MaxSequence \in Nat /\ MaxTime \in Nat
  /\ Participants \subseteq Nat \ {Runtime}
  /\ \A op \in Operations : IsOperationEnvelope(op)
  /\ \A ops \in Batches : IsOperationBatch(ops)

\* What an answer may hold besides the operation's key, status and causal record.
Acks(seen) ==
  [sequence : Nat, revision : Nat,
   server_clock : [revision : Nat, sequence : Nat, vector : [seen -> Nat]]]
Nacks == [reason : {"duplicate-idempotency-key", "invalid-operation"}, retryable : BOOLEAN]
Rebases(seen) == [from : Causals(seen), to : Causals({Runtime})]

\* None is none of the things it stands in for.
ASSUME NoneAssumption ==
  /\ None \notin Nacks
  /\ \A seen \in Seen : /\ None \notin Causals(seen) /\ None \notin Acks(seen) /\ None \notin Rebases(seen)
                       /\ None \notin [causal : Causals(seen) \cup {None}, client : {None, ""}]

(***************************************************************************)
(* Validators (runtime_transport.rs).                                      *)
(***************************************************************************)
validate_causality(causal) ==
  \A p \in DOMAIN causal.vector : causal.vector[p] <= causal.base_sequence

\* Nobody goes by the id he authenticates with.
validate_auth_separation(participant, subject) == subject # participant

validate_expiry(updated, expires) == updated < expires

NoDuplicates(ids) == IsInjective(ids)

change_ids(changes) == [i \in 1..Len(changes) |-> changes[i].change_id]

\* A fragment with a payload identity node is left to the session to refuse.
paste_request_contains_payload_identity(op) == op.fragment = "identity"

\* The schema of a payload: no change twice, undo only in one's own name.
validate_payload(op) ==
  CASE op.kind = "changeSet" -> NoDuplicates(change_ids(op.changes))
    [] op.kind = "paste" -> paste_request_contains_payload_identity(op) \/ op.fragment = "sound"
    [] op.kind \in {"undo", "redo"} -> op.scope = op.participant

validate_operation_semantics(op) ==
  /\ validate_causality(op.causal)
  /\ validate_auth_separation(op.participant, op.subject)
  /\ validate_payload(op)
  /\ op.participant \in DOMAIN op.causal.vector

\* The schema and its version are the decoder's (session_ok stands for the
\* comparison with the session that follows).
validate_operation_envelope(op) == validate_operation_semantics(op)

\* All operations are for the batch's session, which is this one.
validate_operation_batch(ops) ==
  /\ NoDuplicates([i \in 1..Len(ops) |-> ops[i].key])
  /\ \A i \in 1..Len(ops) : ops[i].session_ok /\ validate_operation_semantics(ops[i])

\* What publish_collaboration_operation_result asserts of every result.
validate_operation_result(r) ==
  /\ validate_causality(r.causal)
  /\ r.status \in {"accepted", "rebased"} => r.ack # None
  /\ r.status = "accepted" => r.nack = None /\ r.rebase = None
  /\ r.status \in {"duplicate", "rejected"} => r.nack # None
  /\ r.status = "duplicate" => r.nack.reason = "duplicate-idempotency-key"
  /\ r.status = "rebased" => r.rebase # None
  /\ r.rebase # None => validate_causality(r.rebase.from) /\ validate_causality(r.rebase.to)

\* What is asserted of the answer to a batch, given the keys of its results;
\* the results themselves are asserted as they are published.
validate_operation_batch_result(keys) == keys # <<>> /\ NoDuplicates(keys)

validate_presence_envelope(p) ==
  /\ validate_auth_separation(p.participant, p.subject)
  /\ validate_expiry(p.updated, p.expires)

validate_selection_envelope(p) == validate_expiry(p.updated, p.expires)

payload_kind(payload) ==
  CASE "status" \in DOMAIN payload -> "operationResult"
    [] "subject" \in DOMAIN payload -> "presence"
    [] OTHER -> "selection"

\* What publish asserts of every event.
validate_event_envelope(e) ==
  validate_causality(e.causal) /\ e.kind = payload_kind(e.payload)

(***************************************************************************)
(* Results.                                                                *)
(***************************************************************************)
\* An operation as it goes through its handler.
Working(op, step, target, rebase) ==
  [op |-> op, step |-> step, target |-> target, rebase |-> rebase, sequence |-> None]

Answer(op, status, ack, nack, rebase) ==
  [key |-> op.key, status |-> status, causal |-> op.causal, ack |-> ack, nack |-> nack,
   rebase |-> rebase, created_at |-> now]

Nack(reason, retryable) == [reason |-> reason, retryable |-> retryable]

\* Faulty variant: a duplicate is reported as an invalid operation.
duplicate_as_invalid(op) ==
  Answer(op, "duplicate", None, Nack("invalid-operation", FALSE), None)

duplicate_collaboration_operation_result(op) ==
  Answer(op, "duplicate", None, Nack("duplicate-idempotency-key", FALSE), None)

invalid_collaboration_operation_result(op) ==
  Answer(op, "rejected", None, Nack("invalid-operation", FALSE), None)

\* collaboration_ack: the server clock is at this operation's sequence.
\* It repeats the client's vector, which may be ahead of the server.
server_clock(op, s, rev) ==
  [revision |-> rev, sequence |-> s,
   vector |-> [p \in DOMAIN op.causal.vector \cup {Runtime, op.participant} |->
                 IF p \in {Runtime, op.participant} THEN s ELSE op.causal.vector[p]]]

collaboration_ack(op, s, rev) ==
  [sequence |-> s, revision |-> rev, server_clock |-> server_clock(op, s, rev)]

current_sequence == sequence - 1

\* collaboration_rebase: from what the client knew to what the server knows.
collaboration_rebase(op, target) ==
  [from |-> op.causal,
   to |-> [base_revision |-> target, base_sequence |-> current_sequence,
           vector |-> [p \in {Runtime} |-> current_sequence]]]

\* A batch that is refused is answered with one result of its own; nothing of
\* it is remembered or published.
invalid_collaboration_batch_result == <<"invalid-batch">>

\* Faulty variant: one result more than the limit asks for is dropped.
prune_one_too_many(table) ==
  {k \in DOMAIN table : Cardinality({j \in DOMAIN table : table[j].created_at < table[k].created_at})
                        <= Cardinality(DOMAIN table) - RetentionLimit}

\* Keys to drop: oldest first, then by key, until the limit is kept.
prune_idempotency_results(table) ==
  LET rank(k) == Cardinality({j \in DOMAIN table :
                   \/ table[j].created_at < table[k].created_at
                   \/ table[j].created_at = table[k].created_at /\ j < k})
      excess == Cardinality(DOMAIN table) - RetentionLimit
  IN {k \in DOMAIN table : rank(k) < excess}

\* Faulty variant: only what was applied is remembered.
remember_applied(r) ==
  IF r.ack = None
  THEN /\ UNCHANGED <<results, fresh, dropped>>
       /\ refused' = refused \cup {r.key}
  ELSE LET full == [k \in DOMAIN results \cup {r.key} |-> IF k = r.key THEN r ELSE results[k]] IN
       /\ results' = full
       /\ fresh' = [k \in DOMAIN full |-> 0]
       /\ UNCHANGED <<dropped, refused>>

\* remember_result, and what the histories note of it.
remember_result(r) ==
  LET full == [k \in DOMAIN results \cup {r.key} |-> IF k = r.key THEN r ELSE results[k]]
      gone == prune_idempotency_results(full)
      others == [k \in DOMAIN full |-> IF k = r.key THEN 0
                                       ELSE IF k \in DOMAIN fresh THEN fresh[k] + 1 ELSE 0]
  IN /\ results' = [k \in DOMAIN full \ gone |-> full[k]]
     /\ fresh' = [k \in DOMAIN full \ gone |-> others[k]]
     /\ dropped' = (dropped \ {r.key}) \cup
          {k \in gone : \/ others[k] >= RetentionLimit
                        \/ \E j \in DOMAIN full \ {k} : full[j].created_at = full[k].created_at}
     /\ refused' = (IF r.nack = None \/ r.status = "duplicate" THEN refused
                    ELSE refused \cup {r.key}) \ gone

\* What a failed assertion looked at: a result's causal record, or the client
\* that a session event's history names (the session's lock is poisoned too).
Panic(causal, client) == [causal |-> causal, client |-> client]

(***************************************************************************)
(* Events.                                                                 *)
(***************************************************************************)
\* An edit in a session event's history: no recorded edit carries an operation
\* and its view patch names nodes of the project, so the client is what counts.
validate_mutation_request(client) == client # ""

\* Who made a change may be unknown, not empty; the entry and the edit in it
\* both name him.
validate_history_entry(client) == client # "" /\ validate_mutation_request(client)

\* publish_session_event asserts its event, whose history is all there is; an
\* entry that fails has made an earlier handler panic, so only the last counts.
validate_session_event(client) == validate_history_entry(client)

collaboration_event_causal(s) ==
  [base_revision |-> s, base_sequence |-> s, vector |-> [p \in {Runtime} |-> s]]

event(s, kind, payload) ==
  [sequence |-> s, kind |-> kind, payload |-> payload, causal |-> collaboration_event_causal(s)]

\* Assert, store and send; the log keeps what identifies the event.
publish(e) ==
  /\ poisoned' = IF validate_event_envelope(e) THEN poisoned ELSE Panic(e.causal, None)
  /\ log' = IF validate_event_envelope(e)
            THEN Append(log, [sequence |-> e.sequence, kind |-> e.kind]) ELSE log

publish_operation_result(s, r) == publish(event(s, "operationResult", r))

\* publish_collaboration_operation_result: assert, remember, publish.  A nack
\* has no sequence and takes the next one, also when the handler has reserved
\* one before.
Publish(r) ==
  IF ~validate_operation_result(r)
  THEN /\ poisoned' = Panic(r.causal, None)
       /\ UNCHANGED <<results, fresh, dropped, refused, log, sequence>>
  ELSE /\ remember_result(r)
       /\ publish_operation_result(IF r.ack = None THEN sequence ELSE r.ack.sequence, r)
       /\ sequence' = IF r.ack = None THEN sequence + 1 ELSE sequence

(***************************************************************************)
(* Handlers.                                                               *)
(***************************************************************************)
Init ==
  /\ revision = 1 /\ sequence = 1 /\ guard = None /\ batch = <<>> /\ unsound = {}
  /\ results = <<>> /\ presence = <<>> /\ selection = <<>>
  /\ poisoned = None /\ now = 0
  /\ log = <<>> /\ applied = <<>> /\ refused = {} /\ fresh = <<>> /\ dropped = {} /\ latest = <<>>

\* The revision of the target, or of the root graph when there is none.
current_session_target_revision == revision

has_idempotency_key(key) == key \in DOMAIN results

GuardFree == guard = None /\ poisoned = None /\ sequence < MaxSequence

\* apply_collaboration_operation up to the reading of the target's revision.
\* An operation on the root graph: an undo has no target of its own and uses
\* the root graph's revision.
Begin(op) ==
  LET target == current_session_target_revision
      stale == op.causal.base_revision # target
               \/ (op.kind \in {"changeSet", "paste"} /\ op.base # target)
      sound == validate_operation_envelope(op) /\ op.session_ok
      nothing == <<results, fresh, dropped, refused, log, sequence, poisoned>>
  IN CASE ~sound ->
            Publish(invalid_collaboration_operation_result(op)) /\ UNCHANGED guard
       [] sound /\ has_idempotency_key(op.key) ->
            Publish(duplicate_collaboration_operation_result(op)) /\ UNCHANGED guard
       [] OTHER ->
            /\ guard' = Working(op, "reserve", target,
                                IF stale THEN collaboration_rebase(op, target) ELSE None)
            /\ UNCHANGED nothing

Submit(op) ==
  /\ GuardFree
  /\ Begin(op)
  /\ UNCHANGED <<revision, batch, unsound, applied, now>> /\ UNCHANGED people

\* apply_collaboration_operation_batch: the batch is validated as a whole; its
\* operations take the guard one by one, so others may come in between.  The
\* answer has one result for each operation and is asserted with no lock held.
SubmitBatch(ops) ==
  LET sound == validate_operation_batch(ops)
      answer == IF sound THEN [i \in 1..Len(ops) |-> ops[i].key]
                ELSE invalid_collaboration_batch_result
  IN /\ poisoned = None
     /\ batch = <<>>
     /\ batch' = IF sound THEN ops ELSE <<>>
     /\ unsound' = IF validate_operation_batch_result(answer) THEN unsound
                   ELSE unsound \cup {answer}
     /\ UNCHANGED <<revision, sequence, guard, results, poisoned, now, log, applied, refused,
                    fresh, dropped>> /\ UNCHANGED people

NextOfBatch ==
  /\ GuardFree
  /\ batch # <<>>
  /\ Begin(Head(batch))
  /\ batch' = Tail(batch)
  /\ UNCHANGED <<revision, unsound, applied, now>> /\ UNCHANGED people

\* The handler takes its sequence before it waits for the session.
ReserveSequence ==
  /\ guard # None /\ guard.step = "reserve"
  /\ guard' = [guard EXCEPT !.step = "write", !.sequence = sequence]
  /\ sequence' = sequence + 1
  /\ UNCHANGED <<revision, batch, unsound, results, poisoned, now, log, applied, refused, fresh, dropped>>
  /\ UNCHANGED people

\* Faulty variant: the payload is applied whatever the revision is by now.
fits_any_revision == TRUE

\* The session compares the transformed base revision with the present one;
\* an undo or redo carries none.
fits_revision == guard.op.kind \in {"undo", "redo"} \/ guard.target = revision

\* What the session checks of a paste before it looks at the document.
validate_runtime_operation_envelope(op) ==
  op.id_ok /\ (paste_request_contains_payload_identity(op) \/ op.fragment = "sound")

\* A fragment with a payload identity node is refused by the document.
SessionTakes(op) ==
  op.kind = "paste" => /\ validate_runtime_operation_envelope(op)
                       /\ ~paste_request_contains_payload_identity(op)

\* For the history: what was applied and what the client was told.
Applied(op, r) ==
  [key |-> op.key, kind |-> op.kind, ack |-> r.ack, rebase |-> r.rebase,
   base |-> op.causal.base_revision,
   was_refused |-> op.key \in refused, excused |-> op.key \in dropped]

\* The write lock is held: the session takes the operation, unless the
\* document does not allow it; the session event is published, then the result.
Apply(allowed) ==
  /\ guard # None /\ guard.step = "write"
  /\ LET op == guard.op
         ok == fits_revision /\ SessionTakes(op) /\ allowed
         r == IF ok
              THEN Answer(op, IF guard.rebase = None THEN "accepted" ELSE "rebased",
                          collaboration_ack(op, guard.sequence, revision + 1), None, guard.rebase)
              ELSE Answer(op, "rejected", None, Nack("invalid-operation", ~fits_revision), guard.rebase)
     IN /\ IF ok /\ op.kind \in {"changeSet", "paste"} /\ ~validate_session_event(op.client)
           THEN /\ poisoned' = Panic(None, op.client)
                /\ UNCHANGED <<results, fresh, dropped, refused, log, sequence>>
           ELSE Publish(r)
        /\ revision' = IF ok THEN revision + 1 ELSE revision
        /\ applied' = IF ok THEN Append(applied, Applied(op, r)) ELSE applied
  /\ guard' = None
  /\ UNCHANGED <<batch, unsound, now>> /\ UNCHANGED people

SessionUsable == poisoned # None => poisoned.client = None

\* A graph command over the WebSocket: takes the session's write lock only.
RealtimeEdit ==
  /\ SessionUsable
  /\ revision < MaxSequence
  /\ revision' = revision + 1
  /\ UNCHANGED <<sequence, poisoned, now, log>> /\ UNCHANGED operations /\ UNCHANGED people

\* Edits over HTTP hold the guard and the session's lock together.
HttpChange(client, next) ==
  /\ GuardFree
  /\ revision' = next
  /\ poisoned' = IF validate_session_event(client) THEN None ELSE Panic(None, client)
  /\ UNCHANGED <<sequence, now, log>> /\ UNCHANGED operations /\ UNCHANGED people

\* mutate_session_for and apply_session_operation_for, an edit or a paste.
HttpEdit(client) == revision < MaxSequence /\ HttpChange(client, revision + 1)

\* undo_session_for and redo_session_for: undo names no client of its own.
HttpUndo == revision < MaxSequence /\ HttpChange(None, revision + 1)

\* load_session_for: the revision is the document's, whatever it was before.
HttpLoad == HttpChange(None, 1)

(***************************************************************************)
(* Presence and selection.                                                 *)
(***************************************************************************)
\* Expired entries go; above the limit the least recently updated go, by the
\* time stamps their clients gave.
prune_presence(table) ==
  LET alive == {p \in DOMAIN table : table[p].expires > now}
      rank(p) == Cardinality({q \in alive :
                   \/ table[q].updated < table[p].updated
                   \/ table[q].updated = table[p].updated /\ q < p})
      kept == {p \in alive : rank(p) >= Cardinality(alive) - PresenceLimit}
  IN [p \in kept |-> table[p]]

Enter(table, p, entry) ==
  [q \in DOMAIN table \cup {p} |-> IF q = p THEN entry ELSE table[q]]

\* For the history: the last update and the most recent time stamp ever given.
Noted(p, updated, expires) ==
  [entry |-> [updated |-> updated, expires |-> expires],
   newest |-> IF p \in DOMAIN latest THEN Max({updated, latest[p].newest}) ELSE updated]

\* Faulty variant: the entry is put in before the expired ones are removed,
\* and nothing is removed afterwards.
publish_presence_unpruned(table, p, entry) == Enter(table, p, entry)

publish_presence(table, p, entry) == prune_presence(Enter(prune_presence(table), p, entry))

\* The rest of publish_presence: the event takes the next sequence.
PresencePublished(p) ==
  /\ presence' = publish_presence(presence, p.participant,
                                  [updated |-> p.updated, expires |-> p.expires])
  /\ latest' = Enter(latest, p.participant, Noted(p.participant, p.updated, p.expires))
  /\ publish(event(sequence, "presence", p))
  /\ sequence' = sequence + 1
  /\ UNCHANGED <<revision, selection, now>> /\ UNCHANGED operations

\* Faulty variant: presence does not wait for the operation guard.
UpdatePresenceUnguarded(p) ==
  /\ poisoned = None /\ sequence < MaxSequence
  /\ validate_presence_envelope(p)
  /\ PresencePublished(p)

\* update_session_collaboration_presence_for; refused, it changes nothing.
UpdatePresence(p) ==
  /\ GuardFree
  /\ validate_presence_envelope(p)
  /\ PresencePublished(p)

\* Selections are kept, never pruned, and take their place in the log.
publish_selection(p) ==
  /\ selection' = Enter(selection, p.participant, sequence)
  /\ publish(event(sequence, "selection", p))
  /\ sequence' = sequence + 1

\* update_session_collaboration_selection_for.
UpdateSelection(p) ==
  /\ GuardFree
  /\ validate_selection_envelope(p)
  /\ publish_selection(p)
  /\ UNCHANGED <<revision, presence, latest, now>> /\ UNCHANGED operations

\* A stream opens: capture_replay prunes presence.
CaptureReplay ==
  /\ presence # prune_presence(presence)
  /\ presence' = prune_presence(presence)
  /\ UNCHANGED <<revision, sequence, selection, latest, poisoned, now, log>> /\ UNCHANGED operations

Tick ==
  /\ now < MaxTime
  /\ now' = now + 1
  /\ UNCHANGED <<revision, sequence, poisoned, log>> /\ UNCHANGED operations /\ UNCHANGED people

\* A client may authenticate under its participant id, which is refused, and
\* may give any times.
PresenceEnvelopes ==
  [participant : Participants, subject : Participants \cup {None},
   updated : 0..MaxTime, expires : 0..MaxTime + 1]

SelectionEnvelopes == [participant : Participants, updated : {0}, expires : {0, 1}]

Next ==
  \/ \E op \in Operations : Submit(op)
  \/ \E ops \in Batches : SubmitBatch(ops)
  \/ NextOfBatch
  \/ ReserveSequence
  \/ \E allowed \in BOOLEAN : Apply(allowed)
  \/ RealtimeEdit
  \/ \E client \in {None, ""} : HttpEdit(client)
  \/ HttpUndo
  \/ HttpLoad
  \/ \E p \in PresenceEnvelopes : UpdatePresence(p)
  \/ \E p \in SelectionEnvelopes : UpdateSelection(p)
  \/ CaptureReplay
  \/ Tick

Spec == Init /\ [][Next]_vars

(***************************************************************************)
(* Properties.                                                             *)
(***************************************************************************)
(* The handlers' own assertions "runtime collaboration operation result should
   validate" and "runtime session event should validate" never fail: no request
   makes a handler panic with the operation guard or the session locked. *)
ResultsValidate == poisoned = None

(* The assertions fail for three kinds of request only: an envelope refused for
   its causal record, which the refusal repeats, an edit in the name of a client
   whose id is the empty string, and a batch of no operations, whose answer has
   no result (apply_collaboration_operation_batch asserts that it has). *)
KnownPanics ==
  /\ poisoned # None => \/ poisoned.client = ""
                        \/ poisoned.causal # None /\ ~validate_causality(poisoned.causal)
  /\ unsound \subseteq {<<>>}

(* Events are published in the order of their sequences, also when an operation
   that has its sequence waits for the session: the replay's high water mark
   relies on it (reserve_sequence, operation_guard). *)
PublishedInOrder == \A i \in 1..Len(log) - 1 : log[i].sequence < log[i + 1].sequence

(* While its result is remembered a key is used once.  An operation is applied
   again only after its key was dropped, and a key is dropped only when the
   limit's number of other results came after it, or when results carry the same
   time stamp, which has the resolution of the clock (has_idempotency_key,
   prune_idempotency_results_locked).  A nack is final as well: the operation is
   not applied under its key, even when the nack said that it may be retried
   (remember_result stores every result). *)
KeyUsedOnce ==
  /\ \A i, j \in 1..Len(applied) : i < j /\ applied[i].key = applied[j].key => applied[j].excused
  /\ \A i \in 1..Len(applied) : ~applied[i].was_refused

(* An operation on the graph reports the revision it was really applied to:
   the one its client knew, or the one of its rebase, although the session may
   have changed between the reading of the revision and the write lock. *)
RebaseIsExact ==
  \A i \in 1..Len(applied) :
    applied[i].kind \in {"changeSet", "paste"} =>
      applied[i].ack.revision = 1 + IF applied[i].rebase = None THEN applied[i].base
                                    ELSE applied[i].rebase.to.base_revision

(* Whose presence has not expired and is among the most recent is present with
   his last update, and there are never more than the limit. *)
PresenceKept ==
  /\ Cardinality(DOMAIN presence) <= PresenceLimit
  /\ \A p \in DOMAIN latest :
       LET mine == latest[p].entry
           newer == {q \in DOMAIN latest \ {p} : latest[q].newest >= mine.updated}
       IN (mine.expires > now /\ Cardinality(newer) < PresenceLimit)
          => p \in DOMAIN presence /\ presence[p] = mine
=============================================================================
