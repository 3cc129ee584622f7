--------------------------- MODULE MCCollaboration ---------------------------
(* Small instances of Collaboration.                                        *)
EXTENDS Collaboration, TLC

Causal(rev, seq, who, own) ==
  [base_revision |-> rev, base_sequence |-> seq, vector |-> who :> own]

Envelope(key, kind, who, rev) ==
  [key |-> key, kind |-> kind, participant |-> who, base |-> rev, subject |-> None,
   session_ok |-> TRUE, id_ok |-> TRUE, scope |-> who, client |-> None, fragment |-> "sound",
   changes |-> <<[op |-> "node.add", change_id |-> 1], [op |-> "node.move", change_id |-> 2]>>,
   causal |-> Causal(rev, 0, who, 0)]

Sound ==
  {Envelope(1, "changeSet", 1, 1), Envelope(2, "paste", 2, 2), Envelope(3, "undo", 1, 1)}

Twice == [op |-> "edge.disconnect", change_id |-> 1]

\* Refused by the validators or the session, each for another reason.
Unsound ==
  {[Envelope(2, "changeSet", 1, 1) EXCEPT !.changes = <<Twice, Twice>>],
   [Envelope(3, "redo", 2, 1) EXCEPT !.scope = 1],
   [Envelope(3, "paste", 1, 1) EXCEPT !.session_ok = FALSE],
   [Envelope(1, "paste", 1, 1) EXCEPT !.id_ok = FALSE],
   [Envelope(2, "paste", 2, 1) EXCEPT !.fragment = "identity"],
   [Envelope(3, "changeSet", 2, 1) EXCEPT !.subject = 2]}

\* A vector ahead of its base sequence.
Ahead == [Envelope(1, "changeSet", 1, 1) EXCEPT !.causal = Causal(1, 0, 1, 1)]

Nobody == [Envelope(2, "changeSet", 2, 1) EXCEPT !.client = ""]

AllOperations == Sound \cup Unsound \cup {Ahead, Nobody}

\* One that is taken, one with a key twice, and one of no operations.
SomeBatches ==
  {<<Envelope(1, "changeSet", 1, 1), Envelope(2, "changeSet", 1, 1)>>,
   <<Envelope(1, "undo", 1, 1), Envelope(1, "undo", 1, 1)>>,
   <<>>}
=============================================================================
