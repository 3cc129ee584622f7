------------------------- MODULE CollaborationProofs -------------------------
(***************************************************************************)
(* Theorems about Collaboration, for any operations, batches, participants *)
(* and limits.                                                             *)
(***************************************************************************)
EXTENDS Collaboration, FiniteSetTheorems, WellFoundedInduction, TLAPS

----------------------------------------------------------------------------
(* Types.                                                                  *)

SomeRebases == UNION {Rebases(seen) : seen \in Seen}

Envelopes == Operations \cup UNION {ToSet(ops) : ops \in Batches}

Workings ==
  [op : Envelopes, step : {"reserve", "write"}, target : Nat,
   rebase : SomeRebases \cup {None}, sequence : Nat \cup {None}]

LogEntries == [sequence : Nat, kind : {"operationResult", "presence", "selection"}]

Applications ==
  [key : Nat, kind : {"changeSet", "paste", "undo", "redo"},
   ack : UNION {Acks(seen) : seen \in Seen}, rebase : SomeRebases \cup {None},
   base : Nat, was_refused : BOOLEAN, excused : BOOLEAN]

CollaborationTypeOK ==
  /\ revision \in Nat /\ sequence \in Nat /\ now \in Nat
  /\ guard \in Workings \cup {None}
  /\ batch \in Seq(Envelopes)
  /\ log \in Seq(LogEntries)
  /\ applied \in Seq(Applications)

\* Everything a client sends is an envelope of the schema.
LEMMA EnvelopesAreSound ==
  /\ Operations \subseteq Envelopes
  /\ \A ops \in Batches : ops \in Seq(Envelopes)
  /\ \A op \in Envelopes : IsOperationEnvelope(op)
<1>1. \A ops \in Batches : ops \in Seq(ToSet(ops)) /\ \A i \in 1..Len(ops) : IsOperationEnvelope(ops[i])
  BY CollaborationAssumption DEF IsOperationBatch
<1>2. ASSUME NEW ops \in Batches PROVE ops \in Seq(Envelopes) /\ \A op \in ToSet(ops) : IsOperationEnvelope(op)
  <2>1. ops \in Seq(ToSet(ops)) /\ DOMAIN ops = 1..Len(ops)
    BY <1>1
  <2>2. ToSet(ops) \subseteq Envelopes
    BY DEF Envelopes
  <2>3. ops \in Seq(Envelopes)
    BY <2>1, <2>2
  <2>4. \A op \in ToSet(ops) : IsOperationEnvelope(op)
    BY <1>1, <2>1 DEF ToSet
  <2> QED BY <2>3, <2>4
<1>3. \A op \in Operations : IsOperationEnvelope(op)
  BY CollaborationAssumption
<1> QED BY <1>2, <1>3 DEF Envelopes

LEMMA EnvelopeType ==
  ASSUME NEW op \in Envelopes
  PROVE  /\ op.key \in Nat /\ op.participant \in Participants /\ IsCausalMetadata(op.causal)
         /\ op.kind \in {"changeSet", "paste", "undo", "redo"}
         /\ op.causal.base_revision \in Nat
         /\ op.causal # None
<1>1. op.key \in Nat /\ op.participant \in Participants /\ IsCausalMetadata(op.causal)
      /\ op.kind \in {"changeSet", "paste", "undo", "redo"}
  BY EnvelopesAreSound DEF IsOperationEnvelope, IsPayload
<1>2. PICK seen \in Seen : op.causal \in Causals(seen)
  BY <1>1 DEF IsCausalMetadata
<1>3. op.causal # None
  BY <1>2, NoneAssumption
<1> DEFINE c == op.causal
<1>4. c \in Causals(seen)
  BY <1>2
<1> HIDE DEF c
<1>5. c.base_revision \in Nat
  BY <1>4 DEF Causals
<1> QED BY <1>1, <1>3, <1>5 DEF c

\* What the runtime adds to an answer is of its type, and not None.
LEMMA RebaseType ==
  ASSUME NEW op \in Envelopes, NEW target \in Nat, sequence \in Nat \ {0}
  PROVE  /\ collaboration_rebase(op, target) \in SomeRebases
         /\ collaboration_rebase(op, target) # None
         /\ collaboration_rebase(op, target).to.base_revision = target
         /\ collaboration_rebase(op, target).from = op.causal
         /\ validate_causality(collaboration_rebase(op, target).to)
<1> DEFINE to == [base_revision |-> target, base_sequence |-> sequence - 1, vector |-> [p \in {Runtime} |-> sequence - 1]]
<1>1. collaboration_rebase(op, target) = [from |-> op.causal, to |-> to]
  BY DEF collaboration_rebase, current_sequence
<1>2. PICK seen \in Seen : op.causal \in Causals(seen)
  BY EnvelopeType DEF IsCausalMetadata
<1>3. sequence - 1 \in Nat
  OBVIOUS
<1>4. to \in Causals({Runtime}) /\ to.base_revision = target
  BY <1>3 DEF Causals
<1>5. validate_causality(to)
  BY <1>3 DEF validate_causality
<1> HIDE DEF to
<1>6. [from |-> op.causal, to |-> to] \in Rebases(seen)
  BY <1>2, <1>4 DEF Rebases
<1>7. [from |-> op.causal, to |-> to] # None
  BY <1>6, NoneAssumption
<1> QED BY <1>1, <1>4, <1>5, <1>6, <1>7 DEF SomeRebases

LEMMA NackType ==
  ASSUME NEW reason \in {"duplicate-idempotency-key", "invalid-operation"}, NEW retryable \in BOOLEAN
  PROVE  Nack(reason, retryable) # None /\ Nack(reason, retryable).reason = reason
<1>1. Nack(reason, retryable) \in Nacks /\ Nack(reason, retryable).reason = reason
  BY DEF Nack, Nacks
<1> QED BY <1>1, NoneAssumption

LEMMA AckType ==
  ASSUME NEW op \in Envelopes, NEW s \in Nat, NEW rev \in Nat
  PROVE  /\ collaboration_ack(op, s, rev) \in UNION {Acks(seen) : seen \in Seen}
         /\ collaboration_ack(op, s, rev) # None
         /\ collaboration_ack(op, s, rev).sequence = s /\ collaboration_ack(op, s, rev).revision = rev
<1>1. PICK seen \in Seen : op.causal \in Causals(seen)
  BY EnvelopeType DEF IsCausalMetadata
<1> DEFINE c == op.causal
           all == seen \cup {Runtime, op.participant}
           clock == server_clock(op, s, rev)
<1>2. c \in Causals(seen)
  BY <1>1
<1>3. all \in Seen
  BY EnvelopeType, <1>1 DEF Seen
<1> HIDE DEF c
<1>4. DOMAIN c.vector = seen /\ \A p \in seen : c.vector[p] \in Nat
  BY <1>2 DEF Causals
<1>5. clock = [revision |-> rev, sequence |-> s,
               vector |-> [p \in all |-> IF p \in {Runtime, op.participant} THEN s ELSE c.vector[p]]]
  BY <1>4 DEF server_clock, c
<1>6. [p \in all |-> IF p \in {Runtime, op.participant} THEN s ELSE c.vector[p]] \in [all -> Nat]
  BY <1>4
<1> HIDE DEF all, clock
<1>7. clock \in [revision : Nat, sequence : Nat, vector : [all -> Nat]]
  BY <1>5, <1>6
<1>8. collaboration_ack(op, s, rev) = [sequence |-> s, revision |-> rev, server_clock |-> clock]
  BY DEF collaboration_ack, clock
<1>9. [sequence |-> s, revision |-> rev, server_clock |-> clock] \in Acks(all)
  BY <1>7 DEF Acks
<1>10. [sequence |-> s, revision |-> rev, server_clock |-> clock] # None
  BY <1>3, <1>9, NoneAssumption
<1> QED BY <1>3, <1>8, <1>9, <1>10

----------------------------------------------------------------------------
(* What is published.                                                      *)

Ascending(entries) == \A i \in 1..Len(entries) - 1 : entries[i].sequence < entries[i + 1].sequence
Below(entries, s) == \A i \in 1..Len(entries) : entries[i].sequence < s

Entry(s, kind) == [sequence |-> s, kind |-> kind]

\* An entry above all others keeps the log in order.
LEMMA AppendAscends ==
  ASSUME NEW entries \in Seq(LogEntries), Ascending(entries), NEW s \in Nat, Below(entries, s),
         NEW kind \in {"operationResult", "presence", "selection"}
  PROVE  LET more == Append(entries, Entry(s, kind))
         IN  more \in Seq(LogEntries) /\ Ascending(more) /\ Below(more, s + 1)
<1> DEFINE more == Append(entries, Entry(s, kind))
<1>1. Entry(s, kind) \in LogEntries /\ Entry(s, kind).sequence = s
  BY DEF Entry, LogEntries
<1>2. more \in Seq(LogEntries) /\ Len(more) = Len(entries) + 1 /\ Len(entries) \in Nat
  BY <1>1
<1>3. more[Len(entries) + 1].sequence = s
  BY <1>1
<1>4. \A i \in 1..Len(entries) : more[i] = entries[i]
  BY <1>1
<1>5. \A i \in 1..Len(entries) : entries[i].sequence \in Nat
  <2>1. \A i \in 1..Len(entries) : entries[i] \in LogEntries
    OBVIOUS
  <2>2. \A e \in LogEntries : e.sequence \in Nat
    BY DEF LogEntries
  <2> QED BY <2>1, <2>2
<1> HIDE DEF more
<1>6. Below(more, s + 1)
  BY <1>2, <1>3, <1>4, <1>5 DEF Below
<1>7. ASSUME NEW i \in 1..Len(more) - 1 PROVE more[i].sequence < more[i + 1].sequence
  <2>1. CASE i = Len(entries)
    BY <1>2, <1>3, <1>4, <1>7, <2>1 DEF Below
  <2>2. CASE i # Len(entries)
    <3>1. i \in 1..Len(entries) - 1 /\ i \in 1..Len(entries) /\ i + 1 \in 1..Len(entries)
      BY <1>2, <1>7, <2>2
    <3>2. more[i] = entries[i] /\ more[i + 1] = entries[i + 1]
      BY <1>4, <3>1
    <3> QED BY <3>1, <3>2 DEF Ascending
  <2> QED BY <2>1, <2>2
<1> QED BY <1>2, <1>6, <1>7 DEF more, Ascending

\* An event of the kind of its payload passes its assertion.
LEMMA PublishAppends ==
  ASSUME NEW s \in Nat, NEW kind, NEW payload, kind = payload_kind(payload), publish(event(s, kind, payload))
  PROVE  poisoned' = poisoned /\ log' = Append(log, Entry(s, kind))
<1> DEFINE e == event(s, kind, payload)
<1>1. e.sequence = s /\ e.kind = kind /\ e.payload = payload /\ e.causal = collaboration_event_causal(s)
  BY DEF event
<1>2. validate_causality(collaboration_event_causal(s))
  BY DEF collaboration_event_causal, validate_causality
<1> HIDE DEF e
<1>3. validate_event_envelope(e)
  BY <1>1, <1>2 DEF validate_event_envelope
<1> QED BY <1>1, <1>3 DEF publish, e, Entry

\* The sequence of an answer: the one reserved, or the next.
AnswerSequence(ack) == IF ack = None THEN sequence ELSE ack.sequence

\* An answer is refused by the assertion, or remembered and published.
LEMMA PublishEffect ==
  ASSUME NEW op \in Envelopes, NEW status, NEW ack, NEW nack, NEW rebase,
         AnswerSequence(ack) \in Nat, Publish(Answer(op, status, ack, nack, rebase))
  PROVE  LET r == Answer(op, status, ack, nack, rebase)
         IN  \/ /\ ~ validate_operation_result(r)
                /\ poisoned' = Panic(op.causal, None)
                /\ UNCHANGED <<results, fresh, dropped, refused, log, sequence>>
             \/ /\ validate_operation_result(r)
                /\ remember_result(r)
                /\ poisoned' = poisoned
                /\ log' = Append(log, Entry(AnswerSequence(ack), "operationResult"))
                /\ sequence' = IF ack = None THEN sequence + 1 ELSE sequence
<1> DEFINE r == Answer(op, status, ack, nack, rebase)
<1>1. r.ack = ack /\ r.causal = op.causal /\ "operationResult" = payload_kind(r)
  BY DEF Answer, payload_kind
<1> HIDE DEF r
<1>2. CASE ~ validate_operation_result(r)
  BY <1>1, <1>2 DEF Publish, r
<1>3. CASE validate_operation_result(r)
  <2>1. publish(event(AnswerSequence(ack), "operationResult", r))
    BY <1>1, <1>3 DEF Publish, publish_operation_result, AnswerSequence, r
  <2>2. poisoned' = poisoned /\ log' = Append(log, Entry(AnswerSequence(ack), "operationResult"))
    BY <1>1, <2>1, PublishAppends
  <2> QED BY <1>1, <1>3, <2>2 DEF Publish, r
<1> QED BY <1>2, <1>3 DEF r

----------------------------------------------------------------------------
(* Panics, order and rebases.                                              *)

\* What the handler that holds the guard knows of its operation.
GuardInv ==
  guard # None =>
    /\ poisoned = None
    /\ validate_causality(guard.op.causal)
    /\ guard.rebase = None => guard.target = guard.op.causal.base_revision
    /\ guard.rebase # None => /\ guard.rebase.to.base_revision = guard.target
                              /\ guard.rebase.from = guard.op.causal
                              /\ validate_causality(guard.rebase.to)
    /\ guard.step = "write" => /\ guard.sequence \in Nat /\ guard.sequence < sequence
                               /\ Below(log, guard.sequence)

HandlersInv ==
  /\ CollaborationTypeOK /\ sequence # 0
  /\ GuardInv
  /\ KnownPanics
  /\ PublishedInOrder /\ Below(log, sequence)
  /\ RebaseIsExact

LEMMA HandlersInit == Init => HandlersInv
<1> SUFFICES ASSUME Init PROVE HandlersInv
  OBVIOUS
<1>1. CollaborationTypeOK /\ sequence # 0
  BY DEF Init, CollaborationTypeOK
<1>2. GuardInv /\ KnownPanics
  BY DEF Init, GuardInv, KnownPanics
<1>3. PublishedInOrder /\ Below(log, sequence) /\ RebaseIsExact
  BY DEF Init, PublishedInOrder, Below, RebaseIsExact
<1> QED BY <1>1, <1>2, <1>3 DEF HandlersInv

LEMMA BeginStep ==
  ASSUME HandlersInv, NEW op \in Envelopes, GuardFree, Begin(op),
         UNCHANGED <<revision, unsound, applied, now>>, batch' \in Seq(Envelopes)
  PROVE  HandlersInv'
<1>1. /\ CollaborationTypeOK /\ KnownPanics /\ PublishedInOrder /\ Below(log, sequence) /\ RebaseIsExact
      /\ sequence \in Nat \ {0} /\ guard = None /\ poisoned = None
  BY DEF HandlersInv, CollaborationTypeOK, GuardFree
<1>2. RebaseIsExact'
  BY <1>1 DEF RebaseIsExact
<1> DEFINE target == current_session_target_revision
           stale == \/ op.causal.base_revision # target
                    \/ op.kind \in {"changeSet", "paste"} /\ op.base # target
           rebase == IF stale THEN collaboration_rebase(op, target) ELSE None
\* A refusal is published.
<1>3. ASSUME NEW status, NEW nack, Publish(Answer(op, status, None, nack, None)), UNCHANGED guard,
             ~ validate_operation_result(Answer(op, status, None, nack, None)) => ~ validate_causality(op.causal)
      PROVE  HandlersInv'
  <2>1. AnswerSequence(None) = sequence /\ AnswerSequence(None) \in Nat
    BY <1>1 DEF AnswerSequence
  <2>2. CASE /\ ~ validate_causality(op.causal) /\ poisoned' = Panic(op.causal, None)
             /\ UNCHANGED <<log, sequence>>
    <3>1. KnownPanics'
      BY <1>1, <2>2, EnvelopeType DEF KnownPanics, Panic
    <3>2. CollaborationTypeOK'
      BY <1>1, <1>3, <2>2 DEF CollaborationTypeOK
    <3>3. GuardInv' /\ PublishedInOrder' /\ Below(log, sequence)'
      BY <1>1, <1>3, <2>2 DEF GuardInv, PublishedInOrder, Below
    <3> QED BY <1>1, <1>2, <2>2, <3>1, <3>2, <3>3 DEF HandlersInv
  <2>3. CASE poisoned' = poisoned /\ log' = Append(log, Entry(sequence, "operationResult")) /\ sequence' = sequence + 1
    <3>1. log' \in Seq(LogEntries) /\ Ascending(log') /\ Below(log', sequence')
      BY <1>1, <2>3, AppendAscends DEF CollaborationTypeOK, PublishedInOrder, Ascending
    <3>2. CollaborationTypeOK' /\ sequence' # 0
      BY <1>1, <1>3, <2>3, <3>1 DEF CollaborationTypeOK
    <3>3. KnownPanics' /\ GuardInv'
      BY <1>1, <1>3, <2>3 DEF KnownPanics, GuardInv
    <3> QED BY <1>2, <3>1, <3>2, <3>3 DEF HandlersInv, PublishedInOrder, Ascending, Below
  <2> QED BY <1>3, <2>1, <2>2, <2>3, PublishEffect
\* The operation goes on, with what was read.
<1>4. CASE /\ validate_operation_envelope(op)
           /\ guard' = Working(op, "reserve", target, rebase)
           /\ UNCHANGED <<results, fresh, dropped, refused, log, sequence, poisoned>>
  <2>1. target \in Nat
    BY <1>1 DEF CollaborationTypeOK, current_session_target_revision
  <2> HIDE DEF target
  <2>2. rebase \in SomeRebases \cup {None}
    BY <1>1, <2>1, RebaseType
  <2>3. rebase = None => target = op.causal.base_revision
    BY <1>1, <2>1, RebaseType
  <2>4. rebase # None => rebase.to.base_revision = target /\ rebase.from = op.causal /\ validate_causality(rebase.to)
    BY <1>1, <2>1, RebaseType
  <2> HIDE DEF rebase
  <2>5. guard' \in Workings
    BY <1>4, <2>1, <2>2 DEF Working, Workings
  <2>6. /\ guard'.op = op /\ guard'.step = "reserve" /\ guard'.target = target /\ guard'.rebase = rebase
    BY <1>4 DEF Working
  <2>7. validate_causality(op.causal)
    BY <1>4 DEF validate_operation_envelope, validate_operation_semantics
  <2>8. CollaborationTypeOK'
    BY <1>1, <1>4, <2>5 DEF CollaborationTypeOK
  <2>9. GuardInv'
    BY <1>1, <1>4, <2>3, <2>4, <2>6, <2>7 DEF GuardInv
  <2>10. KnownPanics' /\ PublishedInOrder' /\ Below(log, sequence)'
    BY <1>1, <1>4 DEF KnownPanics, PublishedInOrder, Below
  <2> QED BY <1>1, <1>2, <1>4, <2>8, <2>9, <2>10 DEF HandlersInv
<1>5. CASE ~ (validate_operation_envelope(op) /\ op.session_ok)
  <2> DEFINE nack == Nack("invalid-operation", FALSE)
             r == Answer(op, "rejected", None, nack, None)
  <2>1. Publish(r) /\ UNCHANGED guard
    BY <1>5 DEF Begin, invalid_collaboration_operation_result
  <2>2. nack # None
    BY NackType
  <2>3. r.causal = op.causal /\ r.status = "rejected" /\ r.nack = nack /\ r.rebase = None
    BY DEF Answer
  <2> HIDE DEF nack, r
  <2>4. ~ validate_operation_result(r) => ~ validate_causality(op.causal)
    BY <2>2, <2>3 DEF validate_operation_result
  <2> QED BY <1>3, <2>1, <2>4 DEF r
<1>6. CASE validate_operation_envelope(op) /\ op.session_ok /\ has_idempotency_key(op.key)
  <2> DEFINE nack == Nack("duplicate-idempotency-key", FALSE)
             r == Answer(op, "duplicate", None, nack, None)
  <2>1. Publish(r) /\ UNCHANGED guard
    BY <1>6 DEF Begin, duplicate_collaboration_operation_result
  <2>2. nack # None /\ nack.reason = "duplicate-idempotency-key"
    BY NackType
  <2>3. r.causal = op.causal /\ r.status = "duplicate" /\ r.nack = nack /\ r.rebase = None
    BY DEF Answer
  <2> HIDE DEF nack, r
  <2>4. ~ validate_operation_result(r) => ~ validate_causality(op.causal)
    BY <2>2, <2>3 DEF validate_operation_result
  <2> QED BY <1>3, <2>1, <2>4 DEF r
<1>7. CASE validate_operation_envelope(op) /\ op.session_ok /\ ~ has_idempotency_key(op.key)
  BY <1>4, <1>7 DEF Begin
<1> QED BY <1>5, <1>6, <1>7

\* Appending to a sequence, for properties of its members.
LEMMA AppendMembers ==
  ASSUME NEW S, NEW s \in Seq(S), NEW e \in S
  PROVE  /\ Append(s, e) \in Seq(S) /\ Len(Append(s, e)) = Len(s) + 1
         /\ \A i \in 1..Len(s) : Append(s, e)[i] = s[i]
         /\ Append(s, e)[Len(s) + 1] = e
         /\ \A i \in 1..Len(s) + 1 : i \in 1..Len(s) \/ i = Len(s) + 1
OBVIOUS

LEMMA ApplyStep == HandlersInv /\ (\E allowed \in BOOLEAN : Apply(allowed)) => HandlersInv'
<1> SUFFICES ASSUME HandlersInv, NEW allowed \in BOOLEAN, Apply(allowed) PROVE HandlersInv'
  OBVIOUS
<1> DEFINE op == guard.op
           ok == fits_revision /\ SessionTakes(op) /\ allowed
           ack == IF ok THEN collaboration_ack(op, guard.sequence, revision + 1) ELSE None
           nack == IF ok THEN None ELSE Nack("invalid-operation", ~fits_revision)
           status == IF ok THEN IF guard.rebase = None THEN "accepted" ELSE "rebased" ELSE "rejected"
           r == Answer(op, status, ack, nack, guard.rebase)
<1>1. /\ CollaborationTypeOK /\ GuardInv /\ KnownPanics /\ PublishedInOrder /\ Below(log, sequence) /\ RebaseIsExact
      /\ sequence \in Nat \ {0} /\ revision \in Nat
      /\ guard # None /\ guard.step = "write" /\ guard' = None
      /\ UNCHANGED <<batch, unsound, now>>
  BY DEF HandlersInv, CollaborationTypeOK, Apply
<1>2. /\ guard \in Workings /\ op \in Envelopes /\ guard.target \in Nat
      /\ guard.rebase \in SomeRebases \cup {None}
  BY <1>1 DEF CollaborationTypeOK, Workings
<1>3. /\ poisoned = None /\ validate_causality(op.causal)
      /\ guard.rebase = None => guard.target = op.causal.base_revision
      /\ guard.rebase # None => /\ guard.rebase.to.base_revision = guard.target
                                /\ validate_causality(guard.rebase.from) /\ validate_causality(guard.rebase.to)
      /\ guard.sequence \in Nat /\ guard.sequence < sequence /\ Below(log, guard.sequence)
  BY <1>1 DEF GuardInv
<1>4. /\ revision' = IF ok THEN revision + 1 ELSE revision
      /\ applied' = IF ok THEN Append(applied, Applied(op, r)) ELSE applied
      /\ \/ Publish(r)
         \/ /\ poisoned' = Panic(None, op.client) /\ ~ validate_session_event(op.client)
            /\ UNCHANGED <<results, fresh, dropped, refused, log, sequence>>
  <2>1. CASE ok
    BY <2>1 DEF Apply
  <2>2. CASE ~ ok
    BY <2>2 DEF Apply
  <2> QED BY <2>1, <2>2
<1>5. ok => /\ ack \in UNION {Acks(seen) : seen \in Seen} /\ ack # None
            /\ ack.sequence = guard.sequence /\ ack.revision = revision + 1
  <2>1. revision + 1 \in Nat
    BY <1>1
  <2> QED BY <1>2, <1>3, <2>1, AckType
<1>6. ~ ok => nack # None
  BY NackType
<1>7. fits_revision /\ op.kind \in {"changeSet", "paste"} => guard.target = revision
  BY DEF fits_revision
<1>8. r.ack = ack /\ r.nack = nack /\ r.rebase = guard.rebase /\ r.causal = op.causal /\ r.status = status
  BY DEF Answer
<1>9. AnswerSequence(ack) \in Nat /\ AnswerSequence(ack) = (IF ok THEN guard.sequence ELSE sequence)
  BY <1>1, <1>3, <1>5 DEF AnswerSequence
<1> DEFINE a == Applied(op, r)
<1>10. /\ a.kind = op.kind /\ a.ack = ack /\ a.rebase = guard.rebase /\ a.base = op.causal.base_revision
  BY <1>8 DEF Applied
<1>11. ok => a \in Applications
  <2>1. op.key \in Nat /\ op.kind \in {"changeSet", "paste", "undo", "redo"} /\ op.causal.base_revision \in Nat
    BY <1>2, EnvelopeType
  <2> QED BY <1>2, <1>5, <1>8, <2>1 DEF Applied, Applications
<1>12. status = (IF ok THEN IF guard.rebase = None THEN "accepted" ELSE "rebased" ELSE "rejected")
       /\ (ok => nack = None)
  OBVIOUS
<1> HIDE DEF op, ok, ack, nack, status, r, a
<1>13. validate_operation_result(r)
  BY <1>3, <1>5, <1>6, <1>8, <1>12 DEF validate_operation_result
\* What was applied.
<1>14. applied' \in Seq(Applications) /\ RebaseIsExact'
  <2>1. CASE ~ ok
    BY <1>1, <1>4, <2>1 DEF CollaborationTypeOK, RebaseIsExact
  <2>2. CASE ok
    <3>1. applied \in Seq(Applications) /\ applied' = Append(applied, a)
      BY <1>1, <1>4, <2>2 DEF CollaborationTypeOK, a, op
    <3>2. /\ applied' \in Seq(Applications) /\ Len(applied') = Len(applied) + 1
          /\ \A i \in 1..Len(applied) : applied'[i] = applied[i]
          /\ applied'[Len(applied) + 1] = a
          /\ \A i \in 1..Len(applied) + 1 : i \in 1..Len(applied) \/ i = Len(applied) + 1
      BY <1>11, <2>2, <3>1, AppendMembers
    <3>3. a.kind \in {"changeSet", "paste"} =>
            a.ack.revision = 1 + IF a.rebase = None THEN a.base ELSE a.rebase.to.base_revision
      <4> SUFFICES ASSUME a.kind \in {"changeSet", "paste"}
                   PROVE  a.ack.revision = 1 + IF a.rebase = None THEN a.base ELSE a.rebase.to.base_revision
        OBVIOUS
      <4>1. guard.target = revision
        BY <1>7, <1>10, <2>2 DEF ok
      <4>2. a.ack.revision = revision + 1
        BY <1>5, <1>10, <2>2
      <4> QED BY <1>1, <1>3, <1>10, <4>1, <4>2
    <3> QED BY <1>1, <3>2, <3>3 DEF RebaseIsExact
  <2> QED BY <2>1, <2>2
\* What was published.
<1>15. /\ log' \in Seq(LogEntries) /\ PublishedInOrder' /\ Below(log', sequence') /\ sequence' \in Nat \ {0}
       /\ KnownPanics'
  <2>1. CASE poisoned' = Panic(None, op.client) /\ ~ validate_session_event(op.client) /\ UNCHANGED <<log, sequence>>
    <3>1. op.client = ""
      BY <2>1 DEF validate_session_event, validate_history_entry, validate_mutation_request
    <3>2. KnownPanics'
      BY <1>1, <2>1, <3>1 DEF KnownPanics, Panic
    <3> QED BY <1>1, <2>1, <3>2 DEF CollaborationTypeOK, PublishedInOrder, Below
  <2>2. CASE Publish(r)
    <3>1. /\ poisoned' = poisoned /\ log' = Append(log, Entry(AnswerSequence(ack), "operationResult"))
          /\ sequence' = IF ack = None THEN sequence + 1 ELSE sequence
      BY <1>2, <1>9, <1>13, <2>2, PublishEffect DEF r
    <3>2. log \in Seq(LogEntries) /\ Ascending(log) /\ Below(log, AnswerSequence(ack))
      BY <1>1, <1>3, <1>9 DEF CollaborationTypeOK, PublishedInOrder, Ascending
    <3>3. log' \in Seq(LogEntries) /\ Ascending(log') /\ Below(log', AnswerSequence(ack) + 1)
      BY <1>9, <3>1, <3>2, AppendAscends
    <3>4. sequence' \in Nat \ {0} /\ AnswerSequence(ack) + 1 <= sequence'
      <4>1. CASE ok
        BY <1>1, <1>3, <1>5, <1>9, <3>1, <4>1
      <4>2. CASE ~ ok
        BY <1>1, <1>9, <3>1, <4>2 DEF ack
      <4> QED BY <4>1, <4>2
    <3>5. \A i \in 1..Len(log') : log'[i].sequence \in Nat
      <4>1. \A e \in LogEntries : e.sequence \in Nat
        BY DEF LogEntries
      <4>2. \A i \in 1..Len(log') : log'[i] \in LogEntries
        BY <3>3
      <4> QED BY <4>1, <4>2
    <3>6. Below(log', sequence')
      BY <1>9, <3>3, <3>4, <3>5 DEF Below
    <3>7. KnownPanics'
      BY <1>1, <3>1 DEF KnownPanics
    <3> QED BY <3>3, <3>4, <3>6, <3>7 DEF PublishedInOrder, Ascending
  <2> QED BY <1>4, <2>1, <2>2
<1>16. revision' \in Nat
  BY <1>1, <1>4
<1>17. CollaborationTypeOK'
  BY <1>1, <1>14, <1>15, <1>16 DEF CollaborationTypeOK
<1> QED BY <1>1, <1>14, <1>15, <1>17 DEF HandlersInv, GuardInv

LEMMA SubmitBatchStep ==
  ASSUME HandlersInv, NEW ops \in Batches, SubmitBatch(ops)
  PROVE  HandlersInv'
<1> DEFINE keys == [i \in 1..Len(ops) |-> ops[i].key]
<1>1. ops \in Seq(Envelopes) /\ DOMAIN keys = 1..Len(ops)
  BY EnvelopesAreSound
<1>2. validate_operation_batch(ops) => NoDuplicates(keys)
  BY DEF validate_operation_batch
<1>3. validate_operation_batch(ops) /\ ~ validate_operation_batch_result(keys) => keys = <<>>
  BY <1>2 DEF validate_operation_batch_result
<1>4. validate_operation_batch_result(invalid_collaboration_batch_result)
  BY DEF validate_operation_batch_result, invalid_collaboration_batch_result, NoDuplicates, IsInjective
<1>5. unsound' \subseteq unsound \cup {<<>>}
  BY <1>3, <1>4 DEF SubmitBatch
<1>6. batch' \in Seq(Envelopes)
  BY <1>1 DEF SubmitBatch
<1>7. UNCHANGED <<revision, sequence, guard, poisoned, now, log, applied>>
  BY DEF SubmitBatch
<1>8. CollaborationTypeOK'
  BY <1>6, <1>7 DEF HandlersInv, CollaborationTypeOK
<1>9. KnownPanics'
  BY <1>5, <1>7 DEF HandlersInv, KnownPanics
<1> QED BY <1>7, <1>8, <1>9 DEF HandlersInv, GuardInv, PublishedInOrder, Below, RebaseIsExact

\* Presence and selection publish one event under the free guard.
LEMMA PeopleStep ==
  ASSUME HandlersInv, NEW kind \in {"presence", "selection"}, NEW payload, kind = payload_kind(payload),
         GuardFree, publish(event(sequence, kind, payload)), sequence' = sequence + 1,
         UNCHANGED <<revision, guard, batch, unsound, now, applied>>
  PROVE  HandlersInv'
<1>1. /\ CollaborationTypeOK /\ PublishedInOrder /\ Below(log, sequence) /\ sequence \in Nat /\ guard = None
      /\ log \in Seq(LogEntries) /\ Ascending(log)
  BY DEF HandlersInv, GuardFree, CollaborationTypeOK, PublishedInOrder, Ascending
<1>2. poisoned' = poisoned /\ log' = Append(log, Entry(sequence, kind))
  BY <1>1, PublishAppends
<1>3. log' \in Seq(LogEntries) /\ Ascending(log') /\ Below(log', sequence')
  BY <1>1, <1>2, AppendAscends
<1>4. CollaborationTypeOK' /\ sequence' # 0
  BY <1>1, <1>3 DEF CollaborationTypeOK
<1>5. GuardInv' /\ KnownPanics' /\ RebaseIsExact'
  BY <1>1, <1>2 DEF HandlersInv, GuardInv, KnownPanics, RebaseIsExact
<1> QED BY <1>3, <1>4, <1>5 DEF HandlersInv, PublishedInOrder, Ascending

\* Edits of others change the revision, and under the guard may panic.
LEMMA EditStep ==
  ASSUME HandlersInv, revision' \in Nat, UNCHANGED <<sequence, guard, batch, unsound, now, log, applied>>,
         poisoned' = poisoned \/ (guard = None /\ (poisoned' = None \/ poisoned' = Panic(None, "")))
  PROVE  HandlersInv'
<1>1. CollaborationTypeOK'
  BY DEF HandlersInv, CollaborationTypeOK
<1>2. KnownPanics'
  <2>1. CASE poisoned' = Panic(None, "")
    <3>1. poisoned'.client = ""
      BY <2>1 DEF Panic
    <3> QED BY <3>1 DEF HandlersInv, KnownPanics
  <2>2. CASE poisoned' = poisoned \/ poisoned' = None
    BY <2>2 DEF HandlersInv, KnownPanics
  <2> QED BY <2>1, <2>2
<1>3. GuardInv'
  BY DEF HandlersInv, GuardInv
<1> QED BY <1>1, <1>2, <1>3 DEF HandlersInv, PublishedInOrder, Below, RebaseIsExact

LEMMA HandlersStep == HandlersInv /\ [Next]_vars => HandlersInv'
<1> SUFFICES ASSUME HandlersInv, [Next]_vars PROVE HandlersInv'
  OBVIOUS
<1> USE DEF operations, people
<1>1. /\ revision \in Nat /\ revision + 1 \in Nat /\ sequence \in Nat \ {0} /\ now \in Nat /\ batch \in Seq(Envelopes)
      /\ guard \in Workings \cup {None}
  BY DEF HandlersInv, CollaborationTypeOK
<1>2. ASSUME NEW op \in Operations, Submit(op) PROVE HandlersInv'
  <2>1. op \in Envelopes
    BY EnvelopesAreSound
  <2> QED BY <1>1, <1>2, <2>1, BeginStep DEF Submit
<1>3. ASSUME NextOfBatch PROVE HandlersInv'
  <2>1. Head(batch) \in Envelopes /\ Tail(batch) \in Seq(Envelopes)
    BY <1>1, <1>3 DEF NextOfBatch
  <2> QED BY <1>3, <2>1, BeginStep DEF NextOfBatch
<1>4. ASSUME ReserveSequence PROVE HandlersInv'
  <2>1. /\ guard # None /\ guard \in Workings /\ guard' = [guard EXCEPT !.step = "write", !.sequence = sequence]
        /\ sequence' = sequence + 1 /\ UNCHANGED <<revision, batch, unsound, poisoned, now, log, applied>>
    BY <1>1, <1>4 DEF ReserveSequence
  <2>2. /\ guard' \in Workings /\ guard'.op = guard.op /\ guard'.target = guard.target
        /\ guard'.rebase = guard.rebase /\ guard'.sequence = sequence
    BY <1>1, <2>1 DEF Workings
  <2>3. CollaborationTypeOK'
    BY <1>1, <2>1, <2>2 DEF HandlersInv, CollaborationTypeOK
  <2>4. Below(log, sequence)
    BY DEF HandlersInv
  <2>5. \A i \in 1..Len(log) : log[i].sequence \in Nat
    <3>1. \A e \in LogEntries : e.sequence \in Nat
      BY DEF LogEntries
    <3>2. \A i \in 1..Len(log) : log[i] \in LogEntries
      BY DEF HandlersInv, CollaborationTypeOK
    <3> QED BY <3>1, <3>2
  <2>6. Below(log, sequence)'
    BY <1>1, <2>1, <2>4, <2>5 DEF Below
  <2>7. GuardInv'
    <3>1. Below(log', sequence)
      BY <2>1, <2>4
    <3> QED BY <1>1, <2>1, <2>2, <3>1 DEF HandlersInv, GuardInv, Below
  <2>8. KnownPanics' /\ PublishedInOrder' /\ RebaseIsExact'
    BY <2>1 DEF HandlersInv, KnownPanics, PublishedInOrder, RebaseIsExact
  <2>9. sequence' # 0
    BY <1>1, <2>1
  <2> QED BY <2>3, <2>6, <2>7, <2>8, <2>9 DEF HandlersInv
<1>5. ASSUME RealtimeEdit PROVE HandlersInv'
  BY <1>1, <1>5, EditStep DEF RealtimeEdit
<1>6. ASSUME NEW client \in {None, ""}, NEW next \in Nat, HttpChange(client, next) PROVE HandlersInv'
  <2>1. poisoned' = None \/ poisoned' = Panic(None, "")
    BY <1>6 DEF HttpChange, validate_session_event, validate_history_entry, validate_mutation_request
  <2>2. guard = None /\ revision' = next /\ UNCHANGED <<sequence, guard, batch, unsound, now, log, applied>>
    BY <1>6 DEF HttpChange, GuardFree
  <2> QED BY <2>1, <2>2, EditStep
<1>7. ASSUME NEW client \in {None, ""}, HttpEdit(client) PROVE HandlersInv'
  <2>1. HttpChange(client, revision + 1)
    BY <1>7 DEF HttpEdit
  <2> QED BY <1>1, <1>6, <2>1
<1>8. ASSUME HttpUndo PROVE HandlersInv'
  <2>1. HttpChange(None, revision + 1) /\ revision + 1 \in Nat
    BY <1>1, <1>8 DEF HttpUndo
  <2> QED BY <1>6, <2>1
<1>9. ASSUME HttpLoad PROVE HandlersInv'
  <2>1. HttpChange(None, 1)
    BY <1>9 DEF HttpLoad
  <2> QED BY <1>6, <2>1
<1>10. ASSUME NEW p \in PresenceEnvelopes, UpdatePresence(p) PROVE HandlersInv'
  <2>1. "presence" = payload_kind(p)
    BY DEF PresenceEnvelopes, payload_kind
  <2> QED BY <1>10, <2>1, PeopleStep DEF UpdatePresence, PresencePublished
<1>11. ASSUME NEW p \in SelectionEnvelopes, UpdateSelection(p) PROVE HandlersInv'
  <2>1. "selection" = payload_kind(p)
    BY DEF SelectionEnvelopes, payload_kind
  <2> QED BY <1>11, <2>1, PeopleStep DEF UpdateSelection, publish_selection
<1>12. ASSUME CaptureReplay PROVE HandlersInv'
  BY <1>1, <1>12, EditStep DEF CaptureReplay
<1>13. ASSUME Tick PROVE HandlersInv'
  <2>1. CollaborationTypeOK'
    BY <1>13 DEF HandlersInv, CollaborationTypeOK, Tick
  <2>2. UNCHANGED <<guard, sequence, poisoned, unsound, log, applied>>
    BY <1>13 DEF Tick
  <2> QED BY <2>1, <2>2 DEF HandlersInv, GuardInv, KnownPanics, PublishedInOrder, Below, RebaseIsExact
<1>14. ASSUME UNCHANGED vars PROVE HandlersInv'
  BY <1>1, <1>14, EditStep DEF vars
<1> QED BY <1>2, <1>3, <1>4, <1>5, <1>7, <1>8, <1>9, <1>10, <1>11, <1>12, <1>13, <1>14,
           ApplyStep, SubmitBatchStep DEF Next

THEOREM HandlersInvariant == Spec => []HandlersInv
BY HandlersInit, HandlersStep, PTL DEF Spec

\* A handler panics for an envelope with a vector ahead of its base sequence or
\* a client named by the empty string only, whatever clients send; and the only
\* answer to a batch that fails its assertion is that to the empty batch
\* (publish_collaboration_operation_result, publish_session_event).
THEOREM PanicsAreKnown == Spec => []KnownPanics
<1>1. HandlersInv => KnownPanics
  BY DEF HandlersInv
<1> QED BY <1>1, HandlersInvariant, PTL

\* The event log is in the order of the sequences, for any number of events:
\* nothing is published while an operation waits with the sequence it reserved
\* (reserve_sequence, operation_guard).
THEOREM EventsArePublishedInOrder == Spec => []PublishedInOrder
<1>1. HandlersInv => PublishedInOrder
  BY DEF HandlersInv
<1> QED BY <1>1, HandlersInvariant, PTL

\* The revision of an acknowledgement is the one after that of the client's
\* causal record or of the rebase, whatever edits of others come in between the
\* reading of the target and the session's lock (collaboration_rebase).
THEOREM RebasesAreExact == Spec => []RebaseIsExact
<1>1. HandlersInv => RebaseIsExact
  BY DEF HandlersInv
<1> QED BY <1>1, HandlersInvariant, PTL

----------------------------------------------------------------------------
(* Pruning: at most one too many, the least by time and then by key.       *)

LEMMA SmallestOf ==
  ASSUME NEW S \in SUBSET Nat, S # {}
  PROVE  \E x \in S : \A y \in S : x <= y
<1>1. \E x \in S : \A y \in S : <<y, x>> \notin OpToRel(<, Nat)
  BY NatLessThanWellFounded, WFMin
<1>2. PICK x \in S : \A y \in S : ~ (y < x)
  BY <1>1 DEF OpToRel
<1> QED BY <1>2

LEMMA FirstOf ==
  ASSUME NEW D \in SUBSET Nat, D # {}, NEW f \in [D -> Nat]
  PROVE  \E k \in D : \A j \in D : ~ (f[j] < f[k] \/ (f[j] = f[k] /\ j < k))
<1>1. {f[k] : k \in D} \in SUBSET Nat /\ {f[k] : k \in D} # {}
  OBVIOUS
<1>2. PICK t \in {f[k] : k \in D} : \A y \in {f[k] : k \in D} : t <= y
  BY <1>1, SmallestOf
<1>3. {k \in D : f[k] = t} \in SUBSET Nat /\ {k \in D : f[k] = t} # {}
  BY <1>2
<1>4. PICK k \in {k \in D : f[k] = t} : \A j \in {j \in D : f[j] = t} : k <= j
  BY <1>3, SmallestOf
<1>5. ASSUME NEW j \in D PROVE ~ (f[j] < f[k] \/ (f[j] = f[k] /\ j < k))
  <2>1. f[k] = t /\ t <= f[j]
    BY <1>2, <1>4
  <2>2. f[j] = t => k <= j
    BY <1>4
  <2>3. f[j] \in Nat /\ t \in Nat /\ j \in Nat /\ k \in Nat
    BY <1>1, <1>2
  <2> QED BY <2>1, <2>2, <2>3
<1> QED BY <1>4, <1>5

\* The members of D before k.
Before(D, f, k) == {j \in D : f[j] < f[k] \/ (f[j] = f[k] /\ j < k)}

LEMMA RankedOut ==
  ASSUME NEW D \in SUBSET Nat, IsFiniteSet(D), NEW f \in [D -> Nat], NEW limit \in Nat \ {0},
         Cardinality(D) <= limit + 1
  PROVE  LET out == {k \in D : Cardinality(Before(D, f, k)) < Cardinality(D) - limit}
         IN  /\ Cardinality(D \ out) <= limit
             /\ \A k \in out : Cardinality(D) = limit + 1 /\ \A j \in D : f[k] <= f[j]
<1> DEFINE out == {k \in D : Cardinality(Before(D, f, k)) < Cardinality(D) - limit}
<1>1. Cardinality(D) \in Nat
  BY FS_CardinalityType
<1>2. ASSUME NEW k \in D PROVE Cardinality(Before(D, f, k)) \in Nat /\ (Cardinality(Before(D, f, k)) = 0 <=> Before(D, f, k) = {})
  <2>1. Before(D, f, k) \in SUBSET D
    BY DEF Before
  <2>2. IsFiniteSet(Before(D, f, k))
    BY <2>1, FS_Subset
  <2> QED BY <2>2, FS_CardinalityType, FS_EmptySet
<1>3. ASSUME NEW k \in out PROVE Cardinality(D) = limit + 1 /\ \A j \in D : f[k] <= f[j]
  <2>1. k \in D /\ Cardinality(Before(D, f, k)) < Cardinality(D) - limit
    OBVIOUS
  <2>2. Cardinality(D) = limit + 1 /\ Cardinality(Before(D, f, k)) = 0
    BY <1>1, <1>2, <2>1
  <2>3. Before(D, f, k) = {}
    BY <1>2, <2>1, <2>2
  <2>4. \A j \in D : f[j] \in Nat /\ f[k] \in Nat /\ ~ (f[j] < f[k])
    BY <2>1, <2>3 DEF Before
  <2> QED BY <2>2, <2>4
<1>4. Cardinality(D \ out) <= limit
  <2>1. CASE Cardinality(D) <= limit
    <3>1. IsFiniteSet(D \ out) /\ Cardinality(D \ out) <= Cardinality(D)
      BY FS_Subset
    <3> QED BY <1>1, <2>1, <3>1, FS_CardinalityType
  <2>2. CASE Cardinality(D) = limit + 1
    <3>1. D # {}
      BY <2>2, FS_EmptySet
    <3>2. PICK k \in D : \A j \in D : ~ (f[j] < f[k] \/ (f[j] = f[k] /\ j < k))
      BY <3>1, FirstOf
    <3>3. Before(D, f, k) = {}
      BY <3>2 DEF Before
    <3>4. k \in out
      BY <2>2, <3>3, FS_EmptySet
    <3>5. IsFiniteSet(D \ {k}) /\ Cardinality(D \ {k}) = limit
      BY <2>2, FS_RemoveElement
    <3>6. D \ out \in SUBSET (D \ {k})
      BY <3>4
    <3> HIDE DEF out
    <3> QED BY <3>5, <3>6, FS_Subset
  <2> QED BY <1>1, <2>1, <2>2
<1> QED BY <1>3, <1>4

LEMMA PruneResults ==
  ASSUME NEW table, DOMAIN table \in SUBSET Nat, IsFiniteSet(DOMAIN table),
         \A k \in DOMAIN table : table[k].created_at \in Nat,
         Cardinality(DOMAIN table) <= RetentionLimit + 1
  PROVE  LET gone == prune_idempotency_results(table)
         IN  /\ gone \subseteq DOMAIN table
             /\ Cardinality(DOMAIN table \ gone) <= RetentionLimit
             /\ \A k \in gone : /\ Cardinality(DOMAIN table) = RetentionLimit + 1
                                /\ \A j \in DOMAIN table : table[k].created_at <= table[j].created_at
<1> DEFINE D == DOMAIN table
           f == [k \in D |-> table[k].created_at]
           out == {k \in D : Cardinality(Before(D, f, k)) < Cardinality(D) - RetentionLimit}
<1>1. f \in [D -> Nat] /\ \A k \in D : f[k] = table[k].created_at
  OBVIOUS
<1>2. ASSUME NEW k \in D
      PROVE  Before(D, f, k) = {j \in DOMAIN table : \/ table[j].created_at < table[k].created_at
                                                     \/ table[j].created_at = table[k].created_at /\ j < k}
  BY <1>1 DEF Before
<1>3. prune_idempotency_results(table) = out
  BY <1>2 DEF prune_idempotency_results
<1>4. RetentionLimit \in Nat \ {0}
  BY CollaborationAssumption
<1> HIDE DEF f
<1>5. /\ Cardinality(D \ out) <= RetentionLimit
      /\ \A k \in out : Cardinality(D) = RetentionLimit + 1 /\ \A j \in D : f[k] <= f[j]
  BY <1>1, <1>4, RankedOut
<1> QED BY <1>1, <1>3, <1>5

----------------------------------------------------------------------------
(* Keys.                                                                   *)

\* The keys remembered after k.
LaterThan(table, k) == {j \in DOMAIN table : table[j].created_at > table[k].created_at}

\* The table is within its limit, fresh counts at least the results that came
\* after one, and a refusal that counts is remembered.
ResultsInv ==
  /\ DOMAIN results \in SUBSET Nat /\ IsFiniteSet(DOMAIN results)
  /\ Cardinality(DOMAIN results) <= RetentionLimit
  /\ DOMAIN fresh = DOMAIN results
  /\ \A k \in DOMAIN results :
       /\ results[k].created_at \in Nat /\ results[k].created_at <= now
       /\ fresh[k] \in Nat /\ Cardinality(LaterThan(results, k)) <= fresh[k]
  /\ refused \subseteq DOMAIN results

LEMMA RememberStep ==
  ASSUME ResultsInv, now \in Nat, now' = now, NEW r, r.key \in Nat, r.created_at = now, remember_result(r)
  PROVE  /\ ResultsInv'
         /\ DOMAIN results \cup {r.key} \subseteq DOMAIN results' \cup dropped'
         /\ dropped \subseteq dropped' \cup {r.key}
<1> DEFINE D == DOMAIN results \cup {r.key}
           full == [k \in D |-> IF k = r.key THEN r ELSE results[k]]
           gone == prune_idempotency_results(full)
           others == [k \in D |-> IF k = r.key THEN 0 ELSE IF k \in DOMAIN fresh THEN fresh[k] + 1 ELSE 0]
           excusing == {k \in gone : \/ others[k] >= RetentionLimit
                                     \/ \E j \in DOMAIN full \ {k} : full[j].created_at = full[k].created_at}
<1>1. /\ results' = [k \in D \ gone |-> full[k]] /\ fresh' = [k \in D \ gone |-> others[k]]
      /\ dropped' = (dropped \ {r.key}) \cup excusing
      /\ refused' = (IF r.nack = None \/ r.status = "duplicate" THEN refused ELSE refused \cup {r.key}) \ gone
  BY DEF remember_result
<1>2. D \in SUBSET Nat /\ IsFiniteSet(D)
      /\ Cardinality(D) = IF r.key \in DOMAIN results THEN Cardinality(DOMAIN results) ELSE Cardinality(DOMAIN results) + 1
  BY FS_AddElement DEF ResultsInv
<1>3. Cardinality(DOMAIN results) \in Nat /\ Cardinality(D) \in Nat /\ Cardinality(D) <= RetentionLimit + 1
      /\ RetentionLimit \in Nat \ {0}
  BY <1>2, FS_CardinalityType, CollaborationAssumption DEF ResultsInv
<1>4. /\ full[r.key].created_at = now
      /\ \A k \in D \ {r.key} : full[k].created_at = results[k].created_at /\ k \in DOMAIN results
      /\ \A k \in D : full[k].created_at \in Nat /\ full[k].created_at <= now
  BY DEF ResultsInv
<1>5. /\ others[r.key] = 0
      /\ \A k \in D \ {r.key} : others[k] = fresh[k] + 1
      /\ \A k \in D : others[k] \in Nat
  BY DEF ResultsInv
<1>6. /\ DOMAIN full = D /\ gone \subseteq D
      /\ Cardinality(D \ gone) <= RetentionLimit
      /\ \A k \in gone : /\ Cardinality(D) = RetentionLimit + 1
                         /\ \A j \in D : full[k].created_at <= full[j].created_at
  <2> HIDE DEF gone
  <2>1. DOMAIN full = D
    OBVIOUS
  <2> HIDE DEF full, D
  <2> QED BY <1>2, <1>3, <1>4, <2>1, PruneResults DEF gone
<1>a. DOMAIN results \subseteq D /\ r.key \in D
  OBVIOUS
<1> HIDE DEF D, full, gone, others
\* Nothing is dropped without good reason.
<1>7. ASSUME NEW k \in gone PROVE k \in excusing
  <2> SUFFICES ASSUME \A j \in D \ {k} : full[j].created_at # full[k].created_at
               PROVE  others[k] >= RetentionLimit
    BY <1>6
  <2>a. k \in D /\ Cardinality(D) = RetentionLimit + 1 /\ \A j \in D : full[k].created_at <= full[j].created_at
    BY <1>6
  <2>1. \A j \in D \ {k} : full[j].created_at > full[k].created_at
    BY <1>4, <2>a
  <2>2. Cardinality(D \ {k}) = RetentionLimit
    <3>1. IsFiniteSet(D) /\ k \in D
      BY <1>2, <2>a
    <3>2. Cardinality(D \ {k}) = Cardinality(D) - 1
      BY <3>1, FS_RemoveElement
    <3> QED BY <1>3, <2>a, <3>2
  <2>3. PICK j \in D \ {k} : TRUE
    BY <1>3, <2>2, FS_EmptySet
  <2>4. k # r.key
    BY <1>4, <2>a, <2>1, <2>3
  <2>5. k \in DOMAIN results /\ others[k] = fresh[k] + 1
    BY <1>4, <1>5, <2>a, <2>4
  <2>6. r.key \notin DOMAIN results /\ Cardinality(DOMAIN results) = RetentionLimit
    BY <1>2, <1>3, <2>a DEF ResultsInv
  <2>7. DOMAIN results \ {k} \subseteq LaterThan(results, k)
    <3> SUFFICES ASSUME NEW i \in DOMAIN results \ {k} PROVE results[i].created_at > results[k].created_at
      BY DEF LaterThan
    <3>1. i \in D \ {k} /\ i # r.key
      BY <1>a, <2>6
    <3> QED BY <1>4, <2>a, <2>1, <2>4, <3>1
  <2>8. LaterThan(results, k) \in SUBSET DOMAIN results
    BY DEF LaterThan
  <2>9. IsFiniteSet(LaterThan(results, k)) /\ Cardinality(DOMAIN results \ {k}) = RetentionLimit - 1
    BY <1>3, <2>5, <2>6, <2>8, FS_Subset, FS_RemoveElement DEF ResultsInv
  <2>10. Cardinality(DOMAIN results \ {k}) <= Cardinality(LaterThan(results, k))
    BY <2>7, <2>9, FS_Subset
  <2>11. Cardinality(LaterThan(results, k)) <= fresh[k] /\ fresh[k] \in Nat /\ Cardinality(LaterThan(results, k)) \in Nat
    BY <2>5, <2>9, FS_CardinalityType DEF ResultsInv
  <2> QED BY <1>3, <2>5, <2>9, <2>10, <2>11
\* What is still remembered counts the new result.
<1>8. DOMAIN results' = D \ gone /\ DOMAIN fresh' = D \ gone
      /\ \A k \in D \ gone : results'[k] = full[k] /\ fresh'[k] = others[k]
  BY <1>1
<1>9. ASSUME NEW k \in D \ gone PROVE Cardinality(LaterThan(results', k)) <= fresh'[k]
  <2>1. CASE k = r.key
    <3>1. LaterThan(results', k) = {}
      BY <1>4, <1>8, <1>9, <2>1 DEF LaterThan
    <3> QED BY <1>5, <1>8, <1>9, <2>1, <3>1, FS_EmptySet
  <2>2. CASE k # r.key
    <3>1. k \in DOMAIN results /\ fresh'[k] = fresh[k] + 1 /\ results'[k] = full[k]
      BY <1>4, <1>5, <1>8, <1>9, <2>2
    <3>2. LaterThan(results', k) \in SUBSET (LaterThan(results, k) \cup {r.key})
      BY <1>4, <1>8, <2>2, <3>1 DEF LaterThan
    <3>3. LaterThan(results, k) \in SUBSET DOMAIN results
      BY DEF LaterThan
    <3>4. IsFiniteSet(LaterThan(results, k))
      BY <3>3, FS_Subset DEF ResultsInv
    <3> DEFINE L == LaterThan(results, k)
               M == LaterThan(results', k)
    <3>b. M \in SUBSET (L \cup {r.key}) /\ IsFiniteSet(L)
      BY <3>2, <3>4
    <3> HIDE DEF L, M
    <3>c. IsFiniteSet(L \cup {r.key}) /\ Cardinality(L) \in Nat
      BY <3>b, FS_AddElement, FS_CardinalityType
    <3>5. Cardinality(L \cup {r.key}) <= Cardinality(L) + 1
      BY <3>b, <3>c, FS_AddElement
    <3>6. /\ Cardinality(M) <= Cardinality(L \cup {r.key})
          /\ Cardinality(M) \in Nat /\ Cardinality(L \cup {r.key}) \in Nat
      BY <3>b, <3>c, FS_Subset, FS_CardinalityType
    <3>7. Cardinality(LaterThan(results, k)) <= fresh[k] /\ fresh[k] \in Nat
      BY <3>1 DEF ResultsInv
    <3> QED BY <3>1, <3>c, <3>5, <3>6, <3>7 DEF L, M
  <2> QED BY <2>1, <2>2
<1>10. D \ gone \in SUBSET Nat /\ IsFiniteSet(D \ gone)
  BY <1>2, FS_Subset
<1>11. refused' \subseteq D \ gone
  BY <1>1, <1>a DEF ResultsInv
<1>12. ResultsInv'
  BY <1>4, <1>5, <1>6, <1>8, <1>9, <1>10, <1>11 DEF ResultsInv
<1>13. D \subseteq DOMAIN results' \cup dropped'
  BY <1>1, <1>7, <1>8
<1> QED BY <1>1, <1>12, <1>13 DEF D

\* An operation that was applied is remembered, or was dropped for good reason,
\* unless a panic has ended all; the one at hand is not remembered.
KeyInv ==
  /\ guard # None => guard.op.key \notin DOMAIN results
  /\ poisoned = None => \A i \in 1..Len(applied) : applied[i].key \in DOMAIN results \cup dropped
  /\ KeyUsedOnce

KeysInv == HandlersInv /\ ResultsInv /\ KeyInv

LEMMA PanicIsSomething ==
  ASSUME NEW op \in Envelopes
  PROVE  Panic(op.causal, None) # None /\ Panic(None, op.client) # None
<1>1. op.client \in {None, ""}
  BY EnvelopesAreSound DEF IsOperationEnvelope
<1>2. PICK seen \in Seen : op.causal \in Causals(seen)
  BY EnvelopeType DEF IsCausalMetadata
<1>3. None \notin [causal : Causals(seen) \cup {None}, client : {None, ""}]
  BY NoneAssumption
<1>4. /\ Panic(op.causal, None) \in [causal : Causals(seen) \cup {None}, client : {None, ""}]
      /\ Panic(None, op.client) \in [causal : Causals(seen) \cup {None}, client : {None, ""}]
  BY <1>1, <1>2 DEF Panic
<1> QED BY <1>3, <1>4

\* An answer leaves the keys in order, and its own key remembered or dropped
\* for good reason, unless its assertion fails.
LEMMA AnswerKeepsKeys ==
  ASSUME KeysInv, NEW op \in Envelopes, NEW status, NEW ack, NEW nack, NEW rebase,
         AnswerSequence(ack) \in Nat, Publish(Answer(op, status, ack, nack, rebase)), now' = now
  PROVE  /\ ResultsInv'
         /\ poisoned' = None => /\ DOMAIN results \cup dropped \subseteq DOMAIN results' \cup dropped'
                                /\ op.key \in DOMAIN results' \cup dropped'
<1> DEFINE r == Answer(op, status, ack, nack, rebase)
<1>1. r.key = op.key /\ r.created_at = now /\ r.key \in Nat /\ now \in Nat
  BY EnvelopeType DEF Answer, KeysInv, HandlersInv, CollaborationTypeOK
<1> HIDE DEF r
<1>2. CASE poisoned' = Panic(op.causal, None) /\ UNCHANGED <<results, fresh, dropped, refused, log, sequence>>
  <2>1. ResultsInv'
    BY <1>2 DEF KeysInv, ResultsInv, LaterThan
  <2> QED BY <1>2, <2>1, PanicIsSomething
<1>3. CASE remember_result(r)
  BY <1>1, <1>3, RememberStep DEF KeysInv
<1> QED BY <1>2, <1>3, PublishEffect DEF r

\* Nothing of the table changes.
LEMMA KeysUntouched ==
  ASSUME KeysInv, UNCHANGED <<results, fresh, dropped, refused>>, now' \in Nat, now <= now'
  PROVE  ResultsInv'
<1>1. now \in Nat
  BY DEF KeysInv, HandlersInv, CollaborationTypeOK
<1> QED BY <1>1 DEF KeysInv, ResultsInv, LaterThan

LEMMA BeginKeepsKeys ==
  ASSUME KeysInv, NEW op \in Envelopes, GuardFree, Begin(op), UNCHANGED <<applied, now>>
  PROVE  ResultsInv' /\ KeyInv'
<1>1. guard = None /\ poisoned = None /\ now \in Nat /\ sequence \in Nat
      /\ AnswerSequence(None) \in Nat
  BY DEF GuardFree, KeysInv, HandlersInv, CollaborationTypeOK, AnswerSequence
<1>2. ASSUME NEW status, NEW nack, Publish(Answer(op, status, None, nack, None)), UNCHANGED guard
      PROVE  ResultsInv' /\ KeyInv'
  <2>1. /\ ResultsInv'
        /\ poisoned' = None => DOMAIN results \cup dropped \subseteq DOMAIN results' \cup dropped'
    BY <1>1, <1>2, AnswerKeepsKeys
  <2> QED BY <1>1, <1>2, <2>1 DEF KeysInv, KeyInv, KeyUsedOnce
<1>3. CASE ~ (validate_operation_envelope(op) /\ op.session_ok)
  BY <1>2, <1>3 DEF Begin, invalid_collaboration_operation_result
<1>4. CASE validate_operation_envelope(op) /\ op.session_ok /\ has_idempotency_key(op.key)
  BY <1>2, <1>4 DEF Begin, duplicate_collaboration_operation_result
<1>5. CASE validate_operation_envelope(op) /\ op.session_ok /\ ~ has_idempotency_key(op.key)
  <2>1. /\ guard'.op = op /\ op.key \notin DOMAIN results
        /\ UNCHANGED <<results, fresh, dropped, refused, log, sequence, poisoned>>
    BY <1>5 DEF Begin, Working, has_idempotency_key
  <2>2. ResultsInv'
    BY <1>1, <2>1, KeysUntouched
  <2> QED BY <2>1, <2>2 DEF KeysInv, KeyInv, KeyUsedOnce
<1> QED BY <1>3, <1>4, <1>5

LEMMA ApplyKeepsKeys == KeysInv /\ (\E allowed \in BOOLEAN : Apply(allowed)) => ResultsInv' /\ KeyInv'
<1> SUFFICES ASSUME KeysInv, NEW allowed \in BOOLEAN, Apply(allowed) PROVE ResultsInv' /\ KeyInv'
  OBVIOUS
<1> DEFINE op == guard.op
           ok == fits_revision /\ SessionTakes(op) /\ allowed
           ack == IF ok THEN collaboration_ack(op, guard.sequence, revision + 1) ELSE None
           nack == IF ok THEN None ELSE Nack("invalid-operation", ~fits_revision)
           status == IF ok THEN IF guard.rebase = None THEN "accepted" ELSE "rebased" ELSE "rejected"
           r == Answer(op, status, ack, nack, guard.rebase)
           a == Applied(op, r)
<1>1. /\ HandlersInv /\ ResultsInv /\ KeyInv
      /\ sequence \in Nat \ {0} /\ revision \in Nat /\ now \in Nat /\ now' = now
      /\ guard # None /\ guard.step = "write" /\ guard' = None
  BY DEF KeysInv, HandlersInv, CollaborationTypeOK, Apply
<1>2. guard \in Workings /\ op \in Envelopes
  BY <1>1 DEF HandlersInv, CollaborationTypeOK, Workings
<1>3. poisoned = None /\ guard.sequence \in Nat
  BY <1>1 DEF HandlersInv, GuardInv
<1>4. /\ applied' = IF ok THEN Append(applied, a) ELSE applied
      /\ \/ Publish(r)
         \/ /\ poisoned' = Panic(None, op.client)
            /\ UNCHANGED <<results, fresh, dropped, refused, log, sequence>>
  <2>1. CASE ok
    BY <2>1 DEF Apply
  <2>2. CASE ~ ok
    BY <2>2 DEF Apply
  <2> QED BY <2>1, <2>2
<1>5. AnswerSequence(ack) \in Nat
  <2>1. CASE ok
    <3>1. revision + 1 \in Nat
      BY <1>1
    <3> QED BY <1>2, <1>3, <2>1, <3>1, AckType DEF AnswerSequence
  <2>2. CASE ~ ok
    BY <1>1, <2>2 DEF AnswerSequence
  <2> QED BY <2>1, <2>2
<1>6. a.key = op.key /\ a.was_refused = (op.key \in refused) /\ a.excused = (op.key \in dropped)
  BY DEF Applied
<1> HIDE DEF ok, ack, nack, status, r, a, op
<1>7. /\ ResultsInv'
      /\ poisoned' = None => /\ DOMAIN results \cup dropped \subseteq DOMAIN results' \cup dropped'
                             /\ op.key \in DOMAIN results' \cup dropped'
  <2>1. CASE Publish(r)
    BY <1>1, <1>2, <1>5, <2>1, AnswerKeepsKeys DEF r
  <2>2. CASE poisoned' = Panic(None, op.client) /\ UNCHANGED <<results, fresh, dropped, refused, log, sequence>>
    BY <1>1, <1>2, <2>2, KeysUntouched, PanicIsSomething
  <2> QED BY <1>4, <2>1, <2>2
<1>8. CASE ~ ok
  BY <1>1, <1>3, <1>4, <1>7, <1>8 DEF KeyInv, KeyUsedOnce
<1>9. CASE ok
  <2> DEFINE n == Len(applied)
  <2>1. applied \in Seq(Applications) /\ applied' = Append(applied, a)
    BY <1>1, <1>4, <1>9 DEF HandlersInv, CollaborationTypeOK
  <2>2. /\ n \in Nat /\ Len(applied') = n + 1
        /\ \A i \in 1..n : applied'[i] = applied[i]
        /\ applied'[n + 1] = a
        /\ \A i \in 1..n + 1 : i \in 1..n \/ i = n + 1
    BY <2>1
  <2>3. ~ a.was_refused
    BY <1>1, <1>6 DEF ResultsInv, KeyInv, op
  <2>4. \A i \in 1..n : applied[i].key = a.key => a.excused
    BY <1>1, <1>3, <1>6 DEF KeyInv, op
  <2> HIDE DEF n
  <2>5. \A i \in 1..Len(applied') : ~ applied'[i].was_refused
    BY <1>1, <2>2, <2>3 DEF KeyInv, KeyUsedOnce, n
  <2>6. ASSUME NEW i \in 1..Len(applied'), NEW j \in 1..Len(applied'), i < j, applied'[i].key = applied'[j].key
        PROVE  applied'[j].excused
    <3>1. i \in 1..n
      BY <2>2, <2>6
    <3>2. CASE j = n + 1
      BY <2>2, <2>4, <2>6, <3>1, <3>2
    <3>3. CASE j \in 1..n
      BY <1>1, <2>2, <2>6, <3>1, <3>3 DEF KeyInv, KeyUsedOnce, n
    <3> QED BY <2>2, <3>2, <3>3
  <2>7. poisoned' = None => \A i \in 1..Len(applied') : applied'[i].key \in DOMAIN results' \cup dropped'
    BY <1>1, <1>3, <1>6, <1>7, <2>2 DEF KeyInv, n
  <2> QED BY <1>1, <1>7, <2>5, <2>6, <2>7 DEF KeyInv, KeyUsedOnce
<1> QED BY <1>8, <1>9

LEMMA KeysStep == KeysInv /\ [Next]_vars => KeysInv'
<1> SUFFICES ASSUME KeysInv, [Next]_vars PROVE KeysInv'
  OBVIOUS
<1>1. HandlersInv /\ HandlersInv' /\ ResultsInv /\ KeyInv /\ now \in Nat /\ batch \in Seq(Envelopes)
  BY HandlersStep DEF KeysInv, HandlersInv, CollaborationTypeOK
\* The table and what was applied stay; an assertion may fail.
<1>2. ASSUME UNCHANGED <<results, fresh, dropped, refused, applied>>, now' \in Nat, now <= now',
             guard' = guard \/ (guard # None /\ guard' # None /\ guard'.op = guard.op),
             poisoned = None \/ poisoned' = poisoned
      PROVE  ResultsInv' /\ KeyInv'
  <2>1. ResultsInv'
    BY <1>2, KeysUntouched
  <2> QED BY <1>1, <1>2, <2>1 DEF KeyInv, KeyUsedOnce
<1> USE DEF operations, people
<1>3. ASSUME NEW op \in Operations, Submit(op) PROVE ResultsInv' /\ KeyInv'
  <2>1. op \in Envelopes
    BY EnvelopesAreSound
  <2> QED BY <1>3, <2>1, BeginKeepsKeys DEF Submit
<1>4. ASSUME NextOfBatch PROVE ResultsInv' /\ KeyInv'
  <2>1. Head(batch) \in Envelopes
    BY <1>1, <1>4 DEF NextOfBatch
  <2> QED BY <1>4, <2>1, BeginKeepsKeys DEF NextOfBatch
<1>5. ASSUME ReserveSequence PROVE ResultsInv' /\ KeyInv'
  <2>1. guard # None /\ guard \in Workings /\ guard' = [guard EXCEPT !.step = "write", !.sequence = sequence]
    BY <1>1, <1>5 DEF ReserveSequence, HandlersInv, CollaborationTypeOK
  <2>2. guard'.op = guard.op
    BY <2>1 DEF Workings
  <2>3. UNCHANGED <<results, fresh, dropped, refused, applied, now, poisoned>>
    BY <1>5 DEF ReserveSequence
  <2>4. ResultsInv'
    BY <1>1, <2>3, KeysUntouched
  <2> QED BY <1>1, <2>1, <2>2, <2>3, <2>4 DEF KeyInv, KeyUsedOnce
<1>6. ASSUME NEW client, NEW next, HttpChange(client, next) PROVE ResultsInv' /\ KeyInv'
  BY <1>1, <1>2, <1>6 DEF HttpChange, GuardFree
<1>7. ASSUME (\E client \in {None, ""} : HttpEdit(client)) \/ HttpUndo \/ HttpLoad PROVE ResultsInv' /\ KeyInv'
  BY <1>6, <1>7 DEF HttpEdit, HttpUndo, HttpLoad
<1>8. ASSUME NEW ops \in Batches, SubmitBatch(ops) PROVE ResultsInv' /\ KeyInv'
  BY <1>1, <1>2, <1>8 DEF SubmitBatch
<1>9. ASSUME RealtimeEdit \/ CaptureReplay PROVE ResultsInv' /\ KeyInv'
  BY <1>1, <1>2, <1>9 DEF RealtimeEdit, CaptureReplay
<1>10. ASSUME NEW p \in PresenceEnvelopes, UpdatePresence(p) PROVE ResultsInv' /\ KeyInv'
  BY <1>1, <1>2, <1>10 DEF UpdatePresence, PresencePublished, GuardFree
<1>11. ASSUME NEW p \in SelectionEnvelopes, UpdateSelection(p) PROVE ResultsInv' /\ KeyInv'
  BY <1>1, <1>2, <1>11 DEF UpdateSelection, GuardFree
<1>12. ASSUME Tick PROVE ResultsInv' /\ KeyInv'
  <2>1. now' \in Nat /\ now <= now' /\ UNCHANGED <<results, fresh, dropped, refused, applied, guard, poisoned>>
    BY <1>1, <1>12 DEF Tick
  <2> QED BY <1>2, <2>1
<1>13. ASSUME UNCHANGED vars PROVE ResultsInv' /\ KeyInv'
  BY <1>1, <1>2, <1>13 DEF vars
<1>14. ResultsInv' /\ KeyInv'
  BY <1>3, <1>4, <1>5, <1>7, <1>8, <1>9, <1>10, <1>11, <1>12, <1>13, ApplyKeepsKeys DEF Next
<1> QED BY <1>1, <1>14 DEF KeysInv

THEOREM KeysInvariant == Spec => []KeysInv
<1>1. Init => KeysInv
  <2> SUFFICES ASSUME Init PROVE KeysInv
    OBVIOUS
  <2>1. DOMAIN results = {} /\ DOMAIN fresh = {} /\ refused = {}
    BY DEF Init
  <2>2. ResultsInv
    BY <2>1, FS_EmptySet, CollaborationAssumption DEF ResultsInv
  <2>3. KeyInv
    BY DEF Init, KeyInv, KeyUsedOnce
  <2> QED BY <2>2, <2>3, HandlersInit DEF KeysInv
<1> QED BY <1>1, KeysStep, PTL DEF Spec

\* For any limit and any repetition of operations: a key is not applied again
\* while its result is remembered, and its result is not forgotten before the
\* limit's number of others, or one of the same time, came after it
\* (has_idempotency_key, prune_idempotency_results_locked).
THEOREM KeysAreUsedOnce == Spec => []KeyUsedOnce
<1>1. KeysInv => KeyUsedOnce
  BY DEF KeysInv, KeyInv
<1> QED BY <1>1, KeysInvariant, PTL

----------------------------------------------------------------------------
(* Presence.                                                               *)

\* The participants of whom an update as recent as p's last is known.
Newer(known, p) == {q \in DOMAIN known \ {p} : known[q].newest >= known[p].entry.updated}

\* Whoever has to be present at a time.
Recent(known, time) ==
  {p \in DOMAIN known : known[p].entry.expires > time /\ Cardinality(Newer(known, p)) < PresenceLimit}

KnownPeople(known) ==
  /\ DOMAIN known \in SUBSET Nat /\ IsFiniteSet(DOMAIN known)
  /\ \A p \in DOMAIN known :
       /\ known[p].entry.updated \in Nat /\ known[p].entry.expires \in Nat /\ known[p].newest \in Nat
       /\ known[p].entry.updated <= known[p].newest

\* A table holds last updates only.
Mirrors(table, known) ==
  /\ DOMAIN table \subseteq DOMAIN known
  /\ \A p \in DOMAIN table : table[p] = known[p].entry

\* Pruning one too many keeps the limit, the entries, and whoever is recent.
LEMMA PruneKeepsRecent ==
  ASSUME NEW known, KnownPeople(known), NEW table, Mirrors(table, known), now \in Nat,
         Cardinality(DOMAIN table) <= PresenceLimit + 1
  PROVE  LET kept == prune_presence(table)
         IN  /\ Mirrors(kept, known) /\ DOMAIN kept \subseteq DOMAIN table
             /\ Cardinality(DOMAIN kept) <= PresenceLimit
             /\ DOMAIN table \cap Recent(known, now) \subseteq DOMAIN kept
<1> DEFINE D == {p \in DOMAIN table : table[p].expires > now}
           f == [p \in D |-> table[p].updated]
           out == {p \in D : Cardinality(Before(D, f, p)) < Cardinality(D) - PresenceLimit}
           kept == prune_presence(table)
<1>1. PresenceLimit \in Nat \ {0}
  BY CollaborationAssumption
<1>2. /\ DOMAIN table \in SUBSET DOMAIN known
      /\ \A p \in DOMAIN table : /\ table[p] = known[p].entry
                                 /\ table[p].updated \in Nat /\ table[p].expires \in Nat
  BY DEF Mirrors, KnownPeople
<1>3. IsFiniteSet(DOMAIN table) /\ DOMAIN table \in SUBSET Nat
  BY <1>2, FS_Subset DEF KnownPeople
<1>4. D \in SUBSET DOMAIN table /\ D \in SUBSET Nat
  BY <1>3
<1>5. IsFiniteSet(D) /\ Cardinality(D) <= Cardinality(DOMAIN table)
  BY <1>3, <1>4, FS_Subset
<1>6. Cardinality(D) \in Nat /\ Cardinality(DOMAIN table) \in Nat /\ Cardinality(D) <= PresenceLimit + 1
  BY <1>1, <1>3, <1>5, FS_CardinalityType
<1>7. f \in [D -> Nat] /\ \A p \in D : f[p] = table[p].updated
  BY <1>2
<1>8. ASSUME NEW p \in D
      PROVE  /\ Before(D, f, p) = {q \in D : \/ table[q].updated < table[p].updated
                                             \/ table[q].updated = table[p].updated /\ q < p}
             /\ Cardinality(Before(D, f, p)) \in Nat
  <2>1. Before(D, f, p) \in SUBSET D
    BY DEF Before
  <2>2. Cardinality(Before(D, f, p)) \in Nat
    BY <1>5, <2>1, FS_Subset, FS_CardinalityType
  <2>3. Before(D, f, p) = {q \in D : \/ table[q].updated < table[p].updated
                                     \/ table[q].updated = table[p].updated /\ q < p}
    BY <1>7 DEF Before
  <2> QED BY <2>2, <2>3
<1>9. kept = [p \in D \ out |-> table[p]]
  <2>1. \A p \in D : p \notin out <=> Cardinality(Before(D, f, p)) >= Cardinality(D) - PresenceLimit
    BY <1>1, <1>6, <1>8
  <2>2. D \ out = {p \in D : Cardinality(Before(D, f, p)) >= Cardinality(D) - PresenceLimit}
    BY <2>1
  <2> DEFINE rank(p) == Cardinality({q \in D : \/ table[q].updated < table[p].updated
                                               \/ table[q].updated = table[p].updated /\ q < p})
  <2>3. D \ out = {p \in D : rank(p) >= Cardinality(D) - PresenceLimit}
    BY <1>8, <2>2
  <2>4. kept = [p \in {p \in D : rank(p) >= Cardinality(D) - PresenceLimit} |-> table[p]]
    BY DEF prune_presence
  <2> QED BY <2>3, <2>4
<1> HIDE DEF f
<1>10. /\ Cardinality(D \ out) <= PresenceLimit
       /\ \A p \in out : Cardinality(D) = PresenceLimit + 1 /\ \A q \in D : f[p] <= f[q]
  BY <1>1, <1>4, <1>5, <1>6, <1>7, RankedOut
<1>11. Mirrors(kept, known) /\ DOMAIN kept = D \ out /\ DOMAIN kept \subseteq DOMAIN table
  <2> HIDE DEF kept, out
  <2> QED BY <1>2, <1>4, <1>9 DEF Mirrors
<1>12. ASSUME NEW p \in DOMAIN table, p \in Recent(known, now) PROVE p \notin out
  <2> SUFFICES ASSUME p \in out PROVE FALSE
    OBVIOUS
  <2>1. p \in D /\ Cardinality(D) = PresenceLimit + 1 /\ \A q \in D : f[p] <= f[q]
    BY <1>10
  <2> HIDE DEF out
  <2>2. D \ {p} \subseteq Newer(known, p)
    <3> SUFFICES ASSUME NEW q \in D \ {p} PROVE q \in DOMAIN known \ {p} /\ known[q].newest >= known[p].entry.updated
      BY DEF Newer
    <3>1. q \in DOMAIN known /\ table[p].updated <= table[q].updated
      BY <1>2, <1>7, <2>1
    <3>2. table[p] = known[p].entry /\ table[q] = known[q].entry
      BY <1>2
    <3>3. known[q].entry.updated <= known[q].newest /\ known[q].newest \in Nat
          /\ known[q].entry.updated \in Nat /\ known[p].entry.updated \in Nat
      BY <1>2, <3>1 DEF KnownPeople
    <3> QED BY <3>1, <3>2, <3>3
  <2>3. Newer(known, p) \in SUBSET DOMAIN known
    BY DEF Newer
  <2>4. IsFiniteSet(Newer(known, p)) /\ Cardinality(Newer(known, p)) \in Nat
    BY <2>3, FS_Subset, FS_CardinalityType DEF KnownPeople
  <2> HIDE DEF D
  <2>5. Cardinality(D \ {p}) = Cardinality(D) - 1
    BY <1>5, <2>1, FS_RemoveElement
  <2>6. Cardinality(D \ {p}) <= Cardinality(Newer(known, p))
    BY <2>2, <2>4, FS_Subset
  <2>7. Cardinality(Newer(known, p)) < PresenceLimit
    BY <1>12 DEF Recent
  <2> QED BY <1>1, <1>6, <2>1, <2>4, <2>5, <2>6, <2>7
<1>13. DOMAIN table \cap Recent(known, now) \subseteq D
  BY <1>2 DEF Recent
<1> HIDE DEF D, out, kept
<1>14. DOMAIN table \cap Recent(known, now) \subseteq DOMAIN kept
  BY <1>11, <1>12, <1>13
<1> QED BY <1>10, <1>11, <1>14 DEF kept

PresenceInv ==
  /\ now \in Nat
  /\ KnownPeople(latest) /\ Mirrors(presence, latest)
  /\ Cardinality(DOMAIN presence) <= PresenceLimit
  /\ Recent(latest, now) \subseteq DOMAIN presence

\* An update puts its participant in and nobody who is recent out.
LEMMA PublishPresenceStep ==
  ASSUME PresenceInv, NEW who \in Participants, NEW updated \in Nat, NEW expires \in Nat,
         presence' = publish_presence(presence, who, [updated |-> updated, expires |-> expires]),
         latest' = Enter(latest, who, Noted(who, updated, expires)), now' = now
  PROVE  PresenceInv'
<1> DEFINE entry == [updated |-> updated, expires |-> expires]
           note == Noted(who, updated, expires)
           pruned == prune_presence(presence)
           table == Enter(pruned, who, entry)
<1>1. /\ now \in Nat /\ KnownPeople(latest) /\ Mirrors(presence, latest)
      /\ Cardinality(DOMAIN presence) <= PresenceLimit /\ Recent(latest, now) \subseteq DOMAIN presence
      /\ PresenceLimit \in Nat \ {0} /\ who \in Nat
  BY CollaborationAssumption DEF PresenceInv
<1>2. note.entry = entry /\ entry.updated = updated /\ entry.expires = expires
  BY DEF Noted
<1>3. /\ note.newest \in Nat /\ updated <= note.newest
      /\ who \in DOMAIN latest => latest[who].newest <= note.newest
  <2>1. CASE who \in DOMAIN latest
    <3> DEFINE both == {updated, latest[who].newest}
    <3>1. latest[who].newest \in Nat
      BY <1>1, <2>1 DEF KnownPeople
    <3>2. \E x \in both : \A y \in both : x >= y
      BY <3>1
    <3>3. Max(both) \in both /\ \A y \in both : Max(both) >= y
      BY <3>2 DEF Max
    <3>4. note.newest = Max(both)
      BY <2>1 DEF Noted
    <3> QED BY <3>1, <3>3, <3>4
  <2>2. CASE who \notin DOMAIN latest
    BY <2>2 DEF Noted
  <2> QED BY <2>1, <2>2
<1> HIDE DEF entry, note
<1>4. /\ DOMAIN latest' = DOMAIN latest \cup {who} /\ latest'[who] = note
      /\ \A q \in DOMAIN latest \ {who} : latest'[q] = latest[q]
  BY DEF Enter, note
<1>5. KnownPeople(latest')
  <2>1. IsFiniteSet(DOMAIN latest')
    BY <1>1, <1>4, FS_AddElement DEF KnownPeople
  <2> QED BY <1>1, <1>2, <1>3, <1>4, <2>1 DEF KnownPeople
\* Time goes on for everybody else.
<1>6. ASSUME NEW q \in DOMAIN latest \ {who}, q \in Recent(latest', now) PROVE q \in Recent(latest, now)
  <2>1. Newer(latest, q) \in SUBSET Newer(latest', q)
    <3> SUFFICES ASSUME NEW x \in DOMAIN latest \ {q}, latest[x].newest >= latest[q].entry.updated
                 PROVE  x \in DOMAIN latest' \ {q} /\ latest'[x].newest >= latest'[q].entry.updated
      BY DEF Newer
    <3>1. latest[x].newest \in Nat /\ latest[q].entry.updated \in Nat
      BY <1>1 DEF KnownPeople
    <3> QED BY <1>3, <1>4, <3>1
  <2>2. Newer(latest', q) \in SUBSET DOMAIN latest'
    BY DEF Newer
  <2>3. IsFiniteSet(Newer(latest', q))
    BY <1>5, <2>2, FS_Subset DEF KnownPeople
  <2>4. /\ Cardinality(Newer(latest, q)) <= Cardinality(Newer(latest', q))
        /\ Cardinality(Newer(latest, q)) \in Nat /\ Cardinality(Newer(latest', q)) \in Nat
    BY <2>1, <2>3, FS_Subset, FS_CardinalityType
  <2> QED BY <1>1, <1>4, <1>6, <2>4 DEF Recent
\* The first pruning, the entry, and the second pruning.
<1>7. IsFiniteSet(DOMAIN presence) /\ Cardinality(DOMAIN presence) \in Nat
  <2>1. DOMAIN presence \in SUBSET DOMAIN latest /\ IsFiniteSet(DOMAIN latest)
    BY <1>1 DEF Mirrors, KnownPeople
  <2> QED BY <2>1, FS_Subset, FS_CardinalityType
<1>8. /\ Mirrors(pruned, latest) /\ DOMAIN pruned \subseteq DOMAIN presence
      /\ Cardinality(DOMAIN pruned) <= PresenceLimit
      /\ DOMAIN presence \cap Recent(latest, now) \subseteq DOMAIN pruned
  <2>1. Cardinality(DOMAIN presence) <= PresenceLimit + 1
    BY <1>1, <1>7
  <2> QED BY <1>1, <2>1, PruneKeepsRecent
<1>9. IsFiniteSet(DOMAIN pruned) /\ Cardinality(DOMAIN pruned) \in Nat
  BY <1>7, <1>8, FS_Subset, FS_CardinalityType
<1> HIDE DEF pruned
<1>10. /\ DOMAIN table = DOMAIN pruned \cup {who} /\ table[who] = entry
       /\ \A q \in DOMAIN pruned \ {who} : table[q] = pruned[q]
  BY DEF Enter
<1> HIDE DEF table
<1>11. Mirrors(table, latest')
  BY <1>2, <1>4, <1>8, <1>10 DEF Mirrors
<1>12. Cardinality(DOMAIN table) <= PresenceLimit + 1
  <2>1. Cardinality(DOMAIN pruned \cup {who}) <= Cardinality(DOMAIN pruned) + 1
    <3> DEFINE P == DOMAIN pruned
    <3>1. IsFiniteSet(P) /\ Cardinality(P) \in Nat
      BY <1>9
    <3> HIDE DEF P
    <3>2. Cardinality(P \cup {who}) = Cardinality(P) \/ Cardinality(P \cup {who}) = Cardinality(P) + 1
      BY <3>1, FS_AddElement
    <3>3. Cardinality(P \cup {who}) <= Cardinality(P) + 1
      BY <3>1, <3>2
    <3> QED BY <3>3 DEF P
  <2>2. Cardinality(DOMAIN pruned \cup {who}) \in Nat
    BY <1>9, FS_AddElement, FS_CardinalityType
  <2> QED BY <1>1, <1>8, <1>9, <1>10, <2>1, <2>2
<1>13. presence' = prune_presence(table)
  BY DEF publish_presence, table, pruned, entry
<1>14. /\ Mirrors(presence', latest') /\ Cardinality(DOMAIN presence') <= PresenceLimit
       /\ DOMAIN table \cap Recent(latest', now) \subseteq DOMAIN presence'
  BY <1>1, <1>5, <1>11, <1>12, <1>13, PruneKeepsRecent
<1>15. Recent(latest', now) \subseteq DOMAIN presence'
  <2> SUFFICES ASSUME NEW q \in Recent(latest', now) PROVE q \in DOMAIN table
    BY <1>14
  <2>1. CASE q = who
    BY <1>10, <2>1
  <2>2. CASE q # who
    <3>1. q \in DOMAIN latest \ {who}
      BY <1>4, <2>2 DEF Recent
    <3>2. q \in Recent(latest, now)
      BY <1>6, <3>1
    <3> QED BY <1>1, <1>8, <1>10, <3>2
  <2> QED BY <2>1, <2>2
<1> QED BY <1>1, <1>5, <1>14, <1>15 DEF PresenceInv

LEMMA PresenceStep == PresenceInv /\ [Next]_vars => PresenceInv'
<1> SUFFICES ASSUME PresenceInv, [Next]_vars PROVE PresenceInv'
  OBVIOUS
<1> USE DEF operations, people
<1>1. CASE UNCHANGED <<presence, latest, now>>
  BY <1>1 DEF PresenceInv, Mirrors, Recent, KnownPeople, Newer
<1>2. ASSUME NEW p \in PresenceEnvelopes, UpdatePresence(p) PROVE PresenceInv'
  <2>1. p.participant \in Participants /\ p.updated \in Nat /\ p.expires \in Nat
    BY CollaborationAssumption DEF PresenceEnvelopes
  <2>2. /\ presence' = publish_presence(presence, p.participant, [updated |-> p.updated, expires |-> p.expires])
        /\ latest' = Enter(latest, p.participant, Noted(p.participant, p.updated, p.expires))
        /\ now' = now
    BY <1>2 DEF UpdatePresence, PresencePublished
  <2> QED BY <2>1, <2>2, PublishPresenceStep
<1>3. ASSUME CaptureReplay PROVE PresenceInv'
  <2>1. presence' = prune_presence(presence) /\ UNCHANGED <<latest, now>>
    BY <1>3 DEF CaptureReplay
  <2>2. /\ now \in Nat /\ KnownPeople(latest) /\ Mirrors(presence, latest)
        /\ Cardinality(DOMAIN presence) <= PresenceLimit /\ Recent(latest, now) \subseteq DOMAIN presence
        /\ PresenceLimit \in Nat \ {0}
    BY CollaborationAssumption DEF PresenceInv
  <2>3. Cardinality(DOMAIN presence) \in Nat
    <3>1. DOMAIN presence \in SUBSET DOMAIN latest /\ IsFiniteSet(DOMAIN latest)
      BY <2>2 DEF Mirrors, KnownPeople
    <3> QED BY <3>1, FS_Subset, FS_CardinalityType
  <2>4. Cardinality(DOMAIN presence) <= PresenceLimit + 1
    BY <2>2, <2>3
  <2>5. /\ Mirrors(presence', latest) /\ Cardinality(DOMAIN presence') <= PresenceLimit
        /\ DOMAIN presence \cap Recent(latest, now) \subseteq DOMAIN presence'
    BY <2>1, <2>2, <2>4, PruneKeepsRecent
  <2> QED BY <2>1, <2>2, <2>5 DEF PresenceInv, Mirrors, KnownPeople, Recent, Newer
<1>4. ASSUME Tick PROVE PresenceInv'
  <2>1. now' = now + 1 /\ UNCHANGED <<presence, latest>>
    BY <1>4 DEF Tick
  <2>2. Recent(latest, now') \subseteq Recent(latest, now)
    <3>1. \A p \in DOMAIN latest : latest[p].entry.expires \in Nat
      BY DEF PresenceInv, KnownPeople
    <3> QED BY <2>1, <3>1 DEF Recent, PresenceInv
  <2> QED BY <2>1, <2>2 DEF PresenceInv, Mirrors, KnownPeople, Recent, Newer
<1>5. CASE ~ (\E p \in PresenceEnvelopes : UpdatePresence(p)) /\ ~ CaptureReplay /\ ~ Tick
  <2>1. UNCHANGED <<presence, latest, now>>
    BY <1>5 DEF Next, Submit, SubmitBatch, NextOfBatch, ReserveSequence, Apply, RealtimeEdit, HttpEdit, HttpUndo,
                HttpLoad, HttpChange, UpdateSelection, vars
  <2> QED BY <1>1, <2>1
<1> QED BY <1>2, <1>3, <1>4, <1>5

THEOREM PresenceInvariant == Spec => []PresenceInv
<1>1. Init => PresenceInv
  <2> SUFFICES ASSUME Init PROVE PresenceInv
    OBVIOUS
  <2>1. DOMAIN presence = {} /\ DOMAIN latest = {} /\ now = 0
    BY DEF Init
  <2> QED BY <2>1, FS_EmptySet, CollaborationAssumption DEF PresenceInv, Mirrors, KnownPeople, Recent
<1> QED BY <1>1, PresenceStep, PTL DEF Spec

\* For any number of participants and any times they give: nobody who has not
\* expired and is among the most recent is missing or shown with an old update,
\* and the limit holds (publish_presence, prune_presence_locked).
THEOREM PresenceIsKept == Spec => []PresenceKept
<1>1. PresenceInv => PresenceKept
  <2> SUFFICES ASSUME PresenceInv, NEW p \in DOMAIN latest, p \in Recent(latest, now)
               PROVE  p \in DOMAIN presence /\ presence[p] = latest[p].entry
    BY DEF PresenceKept, PresenceInv, Recent, Newer
  <2> QED BY DEF PresenceInv, Mirrors
<1> QED BY <1>1, PresenceInvariant, PTL
=============================================================================
