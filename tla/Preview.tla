------------------------------- MODULE Preview -------------------------------
(***************************************************************************)
(* The preview process manager of every session of one runtime process     *)
(* (preview_manager.rs), the request handlers that use it (server.rs,      *)
(* realtime.rs), the preview child process (render/native.rs) and the      *)
(* temporary files through which the two talk.                             *)
(*                                                                         *)
(* A handler reads the session under the session lock, releases it, and    *)
(* then works on the preview under the preview lock: between the two, the  *)
(* session and the preview may change.  A document is identified by the    *)
(* session revision that installed it.  Heartbeats only feed responses and *)
(* are left out, and so is the dry-run handle, which has no process.       *)
(***************************************************************************)
EXTENDS Integers, FiniteSets

CONSTANTS
    Sessions, Requests,
    Values, Default,  \* control values; Default is what the graph's parameters give
    MaxRevision, MaxControl,  \* bounds on what any two sessions together reach
    MaxStarts, MaxLost,       \* bounds on starts and on processes that calls fail on
    MaxServed,                \* bound on the sessions with handlers in flight
    None

ASSUME PreviewAssumption ==
    /\ Default \in Values
    /\ MaxRevision \in Nat /\ MaxControl \in Nat /\ MaxStarts \in Nat /\ MaxLost \in Nat
    /\ MaxServed \in Nat
    /\ None \notin Nat /\ None \notin Sessions

VARIABLES
    session,  \* what the preview sees of each RuntimeSession
    preview,  \* PreviewManager.status of each session
    handle,   \* PreviewManager.handle: the child it owns
    child,    \* the preview processes
    files,    \* the runtime's directory of preview files
    old,      \* the files last written 24 hours ago or earlier
    starts,   \* PREVIEW_CONTROL_STATE_COUNTER
    request,  \* what the handlers in flight hold
    lost,     \* children whose handle went after a failed system call (history)
    overwritten,  \* children whose document another session's start replaced unread (history)
    raced     \* sessions with a start under way during their last clear (history)

vars == <<session, preview, handle, child, files, old, starts, request, lost, overwritten, raced>>

ChildIds == 1 .. MaxStarts

\* The control-state file carries a process-wide nonce.
preview_control_state_path(nonce) == <<"control-state", nonce>>

\* The document file is named by the session revision alone.
preview_document_path(revision) == <<"document", revision>>

Paths == {<<"control-state", n>> : n \in 1 .. MaxStarts}
         \cup {<<"document", r>> : r \in 1 .. MaxRevision}

ASSUME PathsAssumption == None \notin Paths

Stopped == [state |-> "stopped", revision |-> None, control |-> None,
            controlPath |-> None, documentPath |-> None]

Unborn == [phase |-> "unborn", session |-> None, controlPath |-> None, documentPath |-> None,
           document |-> None, control |-> None, shown |-> None]

Dead == [Unborn EXCEPT !.phase = "dead"]

Alive == {"spawned", "reading", "showing"}

Init ==
    /\ session = [s \in Sessions |-> [loaded |-> FALSE, planned |-> FALSE, revision |-> 0,
                                      control |-> 0, doc |-> 0, value |-> Default]]
    /\ preview = [s \in Sessions |-> Stopped]
    /\ handle = [s \in Sessions |-> None]
    /\ child = [c \in ChildIds |-> Unborn]
    /\ files = [p \in Paths |-> None]
    /\ old = {}
    /\ starts = 0
    /\ request = [r \in Requests |-> None]
    /\ lost = {} /\ overwritten = {} /\ raced = {}

-----------------------------------------------------------------------------
(* The session.                                                            *)

sessionVars == <<preview, handle, child, files, old, starts, lost, overwritten>>

Room(s) ==
    /\ session[s].revision < MaxRevision
    /\ \A t \in Sessions \ {s} : session[s].revision + session[t].revision < MaxRevision

\* Loads, edits, undo and redo: a new plan, the graph's control state.
install_project(s) ==
    /\ Room(s)
    /\ LET r == session[s].revision + 1
       IN session' = [session EXCEPT ![s] = [loaded |-> TRUE, planned |-> TRUE, revision |-> r,
                                             control |-> 0, doc |-> r, value |-> Default]]
    /\ UNCHANGED <<sessionVars, request, raced>>

\* A view patch rebuilds the control state but not its revision.
apply_view_patch(s) ==
    /\ session[s].loaded
    /\ Room(s)
    /\ session' = [session EXCEPT ![s].revision = @ + 1, ![s].planned = TRUE,
                                  ![s].value = Default]
    /\ UNCHANGED <<sessionVars, request, raced>>

\* A view patch on a project that cannot be planned drops the plan.
drop_plan(s) ==
    /\ session[s].planned
    /\ session' = [session EXCEPT ![s].planned = FALSE]
    /\ UNCHANGED <<sessionVars, request, raced>>

\* What PreviewContext and PreviewControlStateSnapshot copy from a session.
Capture(s) == [session |-> s, revision |-> session[s].revision, doc |-> session[s].doc,
               control |-> session[s].control, value |-> session[s].value]

\* Handler r may begin to serve session s.
Free(r, s) ==
    /\ request[r] = None
    /\ Cardinality({s} \cup {request[q].session : q \in {h \in Requests : request[h] # None}}) <= MaxServed

preview_context(s) == IF session[s].loaded /\ session[s].planned THEN Capture(s) ELSE None

\* First half of control_event_for, under the session lock.
apply_control_event(s, r, v) ==
    /\ Free(r, s)
    /\ session[s].loaded
    /\ v # session[s].value
    /\ session[s].control < MaxControl
    /\ \A t \in Sessions \ {s} : session[s].control + session[t].control < MaxControl
    /\ session' = [session EXCEPT ![s].value = v, ![s].control = @ + 1]
    /\ request' = [request EXCEPT ![r] = [op |-> "update", session |-> s, restart |-> FALSE,
                                          context |-> Capture(s)']]
    /\ UNCHANGED <<sessionVars, raced>>

-----------------------------------------------------------------------------
(* The manager.  Its methods map its state m to the set of states they may *)
(* leave, one for each outcome of the system calls they make.              *)

Manager(s) == [status |-> preview[s], handle |-> handle[s], child |-> child, files |-> files,
               old |-> old, starts |-> starts, lost |-> lost, overwritten |-> overwritten]

\* Second half of a handler: one method, under the preview lock.
Commit(s, m) ==
    /\ preview' = [preview EXCEPT ![s] = m.status]
    /\ handle' = [handle EXCEPT ![s] = m.handle]
    /\ child' = m.child
    /\ files' = m.files
    /\ old' = m.old
    /\ starts' = m.starts
    /\ lost' = m.lost
    /\ overwritten' = m.overwritten

is_active(status) == status.state \in {"starting", "running"}

\* The handle is gone; if the process is not, nobody will stop it.
Failed(m) == [m EXCEPT !.status.state = "error", !.handle = None, !.lost = @ \cup {m.handle}]

Failures(m) == {q \in {Failed(m)} : Cardinality(m.lost) < MaxLost}

poll(m) ==
    IF m.handle = None THEN {m}
    ELSE {IF m.child[m.handle].phase = "dead"
          THEN [m EXCEPT !.status.state = "exited", !.handle = None]
          ELSE [m EXCEPT !.status.state = IF @ = "starting" THEN "running" ELSE @]} \cup Failures(m)

WriteFile(m, path, content) == [m EXCEPT !.files[path] = content, !.old = @ \ {path}]

RemoveFiles(m, paths) ==
    [m EXCEPT !.files = [p \in DOMAIN @ |-> IF p \in paths THEN None ELSE @[p]],
              !.old = @ \ paths]

Kill(m) == [m EXCEPT !.child[m.handle] = Dead]

\* The files of a preview that could not be stopped stay.
stop_current(m) ==
    UNION {LET removed(q) == [RemoveFiles(q, {q.status.controlPath, q.status.documentPath})
                                EXCEPT !.status = Stopped, !.handle = None]
           IN IF p.handle = None THEN {removed(p)}
              ELSE {removed(Kill(p))} \cup Failures(p) \cup Failures(Kill(p)) : p \in poll(m)}

\* Faulty variant: reports the session's revision of now, not the context's.
starting_status_of_now(c, path) ==
    [state |-> "starting", revision |-> session[c.session].revision, control |-> c.control,
     controlPath |-> path, documentPath |-> None]

starting_status(c, path) ==
    [state |-> "starting", revision |-> c.revision, control |-> c.control,
     controlPath |-> path, documentPath |-> None]

\* Writes the control snapshot, then the document, then spawns the child: each may fail.
launch(m, c) ==
    LET n == m.starts + 1
        controlPath == preview_control_state_path(n)
        documentPath == preview_document_path(c.revision)
        begun == [m EXCEPT !.starts = n, !.status = starting_status(c, controlPath)]
        written == WriteFile(begun, controlPath, c)
        documented == [WriteFile(written, documentPath, c) EXCEPT !.overwritten = @ \cup
                         {k \in ChildIds : /\ m.child[k].phase = "spawned"
                                           /\ m.child[k].documentPath = documentPath
                                           /\ m.child[k].session # c.session}]
        process == [Unborn EXCEPT !.phase = "spawned", !.session = c.session,
                                  !.controlPath = controlPath, !.documentPath = documentPath]
        spawned == [documented EXCEPT !.status.state = "running", !.handle = n,
                                      !.status.documentPath = documentPath, !.child[n] = process]
    IN {spawned} \cup {[q EXCEPT !.status.state = "error"] : q \in {begun, written, documented}}

\* Starting removes every preview file, of any session, that is 24 hours old.
cleanup_stale_preview_files(m) == RemoveFiles(m, m.old)

\* Faulty variant: an active preview is not noticed.
start_over_active(m, c, restart) ==
    UNION {LET q == cleanup_stale_preview_files(p)
           IN UNION {IF c = None THEN {w} ELSE launch(w, c) :
                       w \in IF restart THEN stop_current(q) ELSE {q}} : p \in poll(m)}

\* A restart goes on when the running preview could not be stopped.
start(m, c, restart) ==
    UNION {IF is_active(p.status) /\ ~restart THEN {p}
           ELSE LET q == cleanup_stale_preview_files(p)
                IN UNION {IF c = None THEN {w} ELSE launch(w, c) :
                            w \in IF restart THEN stop_current(q) ELSE {q}} : p \in poll(m)}

\* Faulty variant: the revision is recorded before the file is written.
update_control_state_early(m, c) ==
    UNION {IF ~is_active(p.status) THEN {p}
           ELSE LET q == [p EXCEPT !.status.control = c.control]
                IN {q, WriteFile(q, q.status.controlPath, c)} : p \in poll(m)}

\* A failed write leaves file and status; the request answers with a warning.
update_control_state(m, c) ==
    UNION {IF ~is_active(p.status) THEN {p}
           ELSE {p, [WriteFile(p, p.status.controlPath, c) EXCEPT !.status.control = c.control]} :
             p \in poll(m)}

-----------------------------------------------------------------------------
(* The handlers.                                                           *)

Done(r) == request' = [request EXCEPT ![r] = None]

InFlight(r, op) == request[r] # None /\ request[r].op = op

Under(s, op) == \E r \in Requests : InFlight(r, op) /\ request[r].session = s

\* start_preview_for and restart_preview_for read the context first.
BeginStart(s, r, restart) ==
    /\ Free(r, s)
    /\ request' = [request EXCEPT ![r] = [op |-> "start", session |-> s, restart |-> restart,
                                          context |-> preview_context(s)]]
    /\ raced' = IF Under(s, "clear") THEN raced \cup {s} ELSE raced
    /\ UNCHANGED <<session, sessionVars>>

FinishStart(r) ==
    /\ InFlight(r, "start")
    /\ starts < MaxStarts
    /\ LET s == request[r].session
       IN \E m \in start(Manager(s), request[r].context, request[r].restart) : Commit(s, m)
    /\ Done(r)
    /\ UNCHANGED <<session, raced>>

FinishUpdate(r) ==
    /\ InFlight(r, "update")
    /\ LET s == request[r].session
       IN \E m \in update_control_state(Manager(s), request[r].context) : Commit(s, m)
    /\ Done(r)
    /\ UNCHANGED <<session, raced>>

stop_preview(s) ==
    /\ \E m \in stop_current(Manager(s)) : Commit(s, m)
    /\ UNCHANGED <<session, request, raced>>

\* GET preview and GET telemetry.
preview_status(s) ==
    /\ \E m \in poll(Manager(s)) : Commit(s, m)
    /\ UNCHANGED <<session, request, raced>>

\* Faulty variant: the preview is left to itself.
BeginClear_without_stop(s, r) ==
    /\ Free(r, s)
    /\ ~Under(s, "clear")
    /\ Room(s)
    /\ request' = [request EXCEPT ![r] = [op |-> "clear", session |-> s, restart |-> FALSE,
                                          context |-> None]]
    /\ raced' = IF Under(s, "start") THEN raced \cup {s} ELSE raced \ {s}
    /\ UNCHANGED <<session, sessionVars>>

\* clear_session_for stops the preview, whether that works or not, and then
\* clears the session.  Only clears of a session exclude each other.
BeginClear(s, r) ==
    /\ Free(r, s)
    /\ ~Under(s, "clear")
    /\ Room(s)
    /\ \E m \in stop_current(Manager(s)) : Commit(s, m)
    /\ request' = [request EXCEPT ![r] = [op |-> "clear", session |-> s, restart |-> FALSE,
                                          context |-> None]]
    /\ raced' = IF Under(s, "start") THEN raced \cup {s} ELSE raced \ {s}
    /\ UNCHANGED session

FinishClear(r) ==
    /\ InFlight(r, "clear")
    /\ Room(request[r].session)
    /\ LET s == request[r].session
       IN session' = [session EXCEPT ![s].loaded = FALSE, ![s].planned = FALSE, ![s].revision = @ + 1,
                                     ![s].control = 0, ![s].value = Default]
    /\ Done(r)
    /\ UNCHANGED <<sessionVars, raced>>

-----------------------------------------------------------------------------
(* The child process.                                                      *)

childVars == <<session, preview, handle, files, old, starts, request, lost, overwritten, raced>>

\* A missing document ends the process.
read_document(c) ==
    /\ child[c].phase = "spawned"
    /\ LET document == files[child[c].documentPath]
       IN child' = [child EXCEPT ![c] = IF document = None THEN Dead
                                        ELSE [@ EXCEPT !.phase = "reading", !.document = document]]
    /\ UNCHANGED childVars

\* Without a control-state file the document's own control state is shown.
read_control_state(c) ==
    /\ child[c].phase = "reading"
    /\ LET snapshot == files[child[c].controlPath]
       IN child' = [child EXCEPT ![c].phase = "showing",
                                 ![c].control = IF snapshot = None THEN None ELSE snapshot.control,
                                 ![c].shown = IF snapshot = None THEN child[c].document ELSE snapshot]
    /\ UNCHANGED childVars

\* Every frame: only a higher control revision is taken over.  (A scene that
\* cannot be built leaves the frame as it is.)
reload_control_state(c) ==
    /\ child[c].phase = "showing"
    /\ LET snapshot == files[child[c].controlPath]
       IN /\ snapshot # None
          /\ child[c].control # None => child[c].control < snapshot.control
          /\ child' = [child EXCEPT ![c].control = snapshot.control, ![c].shown = snapshot]
    /\ UNCHANGED childVars

\* The window is closed, or the process fails.
Exit(c) ==
    /\ child[c].phase \in Alive
    /\ child' = [child EXCEPT ![c] = Dead]
    /\ UNCHANGED childVars

\* 24 hours pass: requests and starting children are long done.
DayPasses ==
    /\ \A r \in Requests : request[r] = None
    /\ \A c \in ChildIds : child[c].phase \notin {"spawned", "reading"}
    /\ old # {p \in Paths : files[p] # None}
    /\ old' = {p \in Paths : files[p] # None}
    /\ UNCHANGED <<session, preview, handle, child, files, starts, request, lost, overwritten, raced>>

Next ==
    \/ \E s \in Sessions :
         \/ install_project(s) \/ apply_view_patch(s) \/ drop_plan(s)
         \/ stop_preview(s) \/ preview_status(s)
         \/ \E r \in Requests :
              \/ \E v \in Values : apply_control_event(s, r, v)
              \/ \E restart \in BOOLEAN : BeginStart(s, r, restart)
              \/ BeginClear(s, r)
    \/ \E r \in Requests : FinishStart(r) \/ FinishUpdate(r) \/ FinishClear(r)
    \/ \E c \in ChildIds :
         read_document(c) \/ read_control_state(c) \/ reload_control_state(c) \/ Exit(c)
    \/ DayPasses

Spec == Init /\ [][Next]_vars

-----------------------------------------------------------------------------
(* Properties.                                                             *)

\* However starts, restarts, stops, clears and polls interleave, a preview
\* process that runs is the one its session's manager holds, and so will be
\* stopped with it, unless a system call on it has failed.
NoUnknownChild ==
    \A c \in ChildIds :
      child[c].phase \in Alive /\ c \notin lost => handle[child[c].session] = c

\* The control revision an active preview reports (control_live compares it
\* with the session's) is the one in the file its child reads.
StatusMatchesFile ==
    \A s \in Sessions :
      is_active(preview[s]) /\ files[preview[s].controlPath] # None
        => files[preview[s].controlPath].control = preview[s].control

\* A running preview that is not reported stale renders the document its
\* session has now, unless a start of another session at the same revision
\* replaced the file before the child had read it: files are named by the
\* revision alone, and the child takes what it finds.
RendersSessionPlan ==
    \A s \in Sessions :
      /\ handle[s] # None
      /\ handle[s] \notin overwritten
      /\ child[handle[s]].document # None
      /\ session[s].loaded
      /\ preview[s].revision = session[s].revision
      => /\ child[handle[s]].document.session = s
         /\ child[handle[s]].document.doc = session[s].doc

\* control_live of an active preview that is not stale means that the
\* control state in the preview's file is the session's, if the file was
\* written for the session's present revision: updates that arrive late or in
\* the wrong order, failed writes and restarts included.
LiveMeansDelivered ==
    \A s \in Sessions :
      /\ is_active(preview[s])
      /\ session[s].loaded
      /\ preview[s].revision = session[s].revision
      /\ preview[s].control = session[s].control
      /\ files[preview[s].controlPath] # None
      => LET snapshot == files[preview[s].controlPath]
         IN snapshot.revision = session[s].revision => snapshot = Capture(s)

\* What an active preview's status says of its control state is true, after
\* updates in the wrong order, failed writes and restarts: the revision it
\* reports is the one in the file the child reads, and control_live means that
\* the file holds the session's control state.
ControlStatusIsTrue == StatusMatchesFile /\ LiveMeansDelivered

\* Once a session has been cleared and no request is in flight its preview is
\* not running (its process was lost in the stop, or stopped with it), unless
\* a start overlapped the clear.
ClearStopsPreview ==
    \A s \in Sessions :
      /\ ~session[s].loaded
      /\ s \notin raced
      /\ \A r \in Requests : request[r] = None
      => handle[s] = None
=============================================================================
