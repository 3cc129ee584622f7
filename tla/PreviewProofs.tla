---------------------------- MODULE PreviewProofs ----------------------------
(***************************************************************************)
(* Theorems about Preview, for any sessions, requests and bounds.          *)
(***************************************************************************)
EXTENDS Preview, TLAPS

-----------------------------------------------------------------------------
(* Types.                                                                  *)

SessionView == [loaded : BOOLEAN, planned : BOOLEAN, revision : 0 .. MaxRevision, control : Nat,
                doc : Nat, value : Values]

Context == [session : Sessions, revision : 1 .. MaxRevision, doc : Nat, control : Nat, value : Values]

Status == [state : {"stopped", "starting", "running", "exited", "error"},
           revision : Nat \cup {None}, control : Nat \cup {None},
           controlPath : Paths \cup {None}, documentPath : Paths \cup {None}]

Living == [phase : Alive, session : Sessions, controlPath : Paths, documentPath : Paths,
           document : Context \cup {None}, control : Nat \cup {None}, shown : Context \cup {None}]

Process == Living \cup {Unborn, Dead}

Request == [op : {"start", "update", "clear"}, session : Sessions, restart : BOOLEAN,
            context : Context \cup {None}]

ManagerState == [status : Status, handle : ChildIds \cup {None}, child : [ChildIds -> Process],
                 files : [Paths -> Context \cup {None}], old : SUBSET Paths, starts : 0 .. MaxStarts,
                 lost : SUBSET (ChildIds \cup {None}), overwritten : SUBSET ChildIds]

Types ==
    /\ session \in [Sessions -> SessionView]
    /\ preview \in [Sessions -> Status]
    /\ handle \in [Sessions -> ChildIds \cup {None}]
    /\ child \in [ChildIds -> Process]
    /\ files \in [Paths -> Context \cup {None}]
    /\ old \in SUBSET Paths
    /\ starts \in 0 .. MaxStarts
    /\ lost \in SUBSET (ChildIds \cup {None}) /\ overwritten \in SUBSET ChildIds
    /\ \A r \in Requests : request[r] # None => request[r] \in Request
    /\ DOMAIN request = Requests

-----------------------------------------------------------------------------
(* The inductive invariant.                                                *)

LoadedInv == \A s \in Sessions : session[s].loaded => session[s].revision >= 1

\* A context a handler or a file holds is the session's, of now or of before:
\* within a revision the document stays and the control state only advances.
KnownIn(S, x) ==
    LET z == S[x.session]
    IN /\ x.revision <= z.revision
       /\ x.revision = z.revision => x.doc = z.doc /\ x.control <= z.control
       /\ x.revision = z.revision /\ x.control = z.control => x.value = z.value

Known(x) == KnownIn(session, x)

RequestInv ==
    \A r \in Requests : request[r] # None =>
      /\ request[r].context # None \/ request[r].op = "update" =>
           /\ request[r].context \in Context
           /\ Known(request[r].context)
           /\ request[r].context.session = request[r].session

\* The processes: those not started are unborn, and a living one is the one
\* its session's manager holds, or lost.
ProcessInv(H, C, N, L) ==
    /\ \A c \in ChildIds : c > N => C[c] = Unborn
    /\ \A c \in ChildIds : C[c].phase \in Alive /\ c \notin L =>
          C[c].session \in Sessions /\ H[C[c].session] = c

\* What a manager with status p holds: a process of its own session that reads
\* the document of the revision the status reports.
Holds(s, p, h, C, N) ==
    h # None =>
      /\ is_active(p)
      /\ h \in 1 .. N
      /\ \/ C[h] = Dead
         \/ /\ C[h].session = s
            /\ p.revision \in 1 .. MaxRevision
            /\ C[h].documentPath = preview_document_path(p.revision)
            /\ C[h].document # None => Known(C[h].document) /\ C[h].document.revision = p.revision

\* The control-state file of a status: its own, numbered, and as reported.
Reports(s, p, F, N) ==
    /\ p.controlPath # None => \E n \in 1 .. N : p.controlPath = preview_control_state_path(n)
    /\ is_active(p) => p.controlPath # None
    /\ is_active(p) /\ F[p.controlPath] # None =>
          F[p.controlPath].control = p.control /\ F[p.controlPath].session = s

Apart(P) ==
    \A s, t \in Sessions : s # t /\ P[s].controlPath = P[t].controlPath => P[s].controlPath = None

FilesInv(F) ==
    /\ \A p \in Paths : F[p] # None => Known(F[p])
    /\ \A r \in 1 .. MaxRevision :
          F[preview_document_path(r)] # None => F[preview_document_path(r)].revision = r

PoolInv(P, H, C, F, N, L) ==
    /\ ProcessInv(H, C, N, L)
    /\ \A s \in Sessions : Holds(s, P[s], H[s], C, N)
    /\ \A s \in Sessions : Reports(s, P[s], F, N)
    /\ Apart(P)
    /\ FilesInv(F)

\* A session that is being cleared or has been, with no start across the
\* clear, has no process, and no start with a context is on its way.
ClearedInv ==
    \A s \in Sessions :
      s \notin raced /\ (~session[s].loaded \/ Under(s, "clear")) =>
        /\ handle[s] = None
        /\ \A r \in Requests : InFlight(r, "start") /\ request[r].session = s => request[r].context = None

Inv ==
    /\ Types
    /\ LoadedInv
    /\ RequestInv
    /\ PoolInv(preview, handle, child, files, starts, lost)
    /\ ClearedInv

-----------------------------------------------------------------------------
(* One manager.                                                            *)

\* The state a method of the manager of session s works on.
Good(s, m) ==
    /\ m \in ManagerState
    /\ PoolInv([preview EXCEPT ![s] = m.status], [handle EXCEPT ![s] = m.handle], m.child, m.files, m.starts, m.lost)

\* Good, spelled out.
LEMMA GoodParts ==
    ASSUME Types, NEW s \in Sessions, NEW m \in ManagerState
    PROVE  Good(s, m) <=>
             /\ \A c \in ChildIds : c > m.starts => m.child[c] = Unborn
             /\ \A c \in ChildIds : m.child[c].phase \in Alive /\ c \notin m.lost =>
                  /\ m.child[c].session \in Sessions
                  /\ (IF m.child[c].session = s THEN m.handle ELSE handle[m.child[c].session]) = c
             /\ Holds(s, m.status, m.handle, m.child, m.starts)
             /\ \A t \in Sessions \ {s} : Holds(t, preview[t], handle[t], m.child, m.starts)
             /\ Reports(s, m.status, m.files, m.starts)
             /\ \A t \in Sessions \ {s} : Reports(t, preview[t], m.files, m.starts)
             /\ \A t \in Sessions \ {s} : m.status.controlPath = preview[t].controlPath => m.status.controlPath = None
             /\ \A t, u \in Sessions \ {s} : t # u /\ preview[t].controlPath = preview[u].controlPath =>
                  preview[t].controlPath = None
             /\ FilesInv(m.files)
<1> DEFINE P == [preview EXCEPT ![s] = m.status]
           H == [handle EXCEPT ![s] = m.handle]
<1>1. \A t \in Sessions : P[t] = IF t = s THEN m.status ELSE preview[t]
  BY DEF Types
<1>2. \A t \in Sessions : H[t] = IF t = s THEN m.handle ELSE handle[t]
  BY DEF Types
<1>3. Good(s, m) <=> PoolInv(P, H, m.child, m.files, m.starts, m.lost)
  BY DEF Good
<1> HIDE DEF P, H
<1>4. ProcessInv(H, m.child, m.starts, m.lost) <=>
             /\ \A c \in ChildIds : c > m.starts => m.child[c] = Unborn
             /\ \A c \in ChildIds : m.child[c].phase \in Alive /\ c \notin m.lost =>
                  /\ m.child[c].session \in Sessions
                  /\ (IF m.child[c].session = s THEN m.handle ELSE handle[m.child[c].session]) = c
  BY <1>2 DEF ProcessInv
<1>5. (\A t \in Sessions : Holds(t, P[t], H[t], m.child, m.starts)) <=>
             /\ Holds(s, m.status, m.handle, m.child, m.starts)
             /\ \A t \in Sessions \ {s} : Holds(t, preview[t], handle[t], m.child, m.starts)
  BY <1>1, <1>2
<1>6. (\A t \in Sessions : Reports(t, P[t], m.files, m.starts)) <=>
             /\ Reports(s, m.status, m.files, m.starts)
             /\ \A t \in Sessions \ {s} : Reports(t, preview[t], m.files, m.starts)
  BY <1>1
<1>7. Apart(P) <=>
             /\ \A t \in Sessions \ {s} : m.status.controlPath = preview[t].controlPath => m.status.controlPath = None
             /\ \A t, u \in Sessions \ {s} : t # u /\ preview[t].controlPath = preview[u].controlPath =>
                  preview[t].controlPath = None
  BY <1>1 DEF Apart
<1> QED BY <1>3, <1>4, <1>5, <1>6, <1>7 DEF PoolInv

LEMMA Constants ==
    /\ None \notin Nat /\ None \notin Sessions /\ Default \in Values
    /\ MaxRevision \in Nat /\ MaxControl \in Nat /\ MaxStarts \in Nat
    /\ \A n \in ChildIds : n \in Nat /\ n # None /\ n > 0
    /\ \A n \in 1 .. MaxStarts : preview_control_state_path(n) \in Paths
    /\ \A r \in 1 .. MaxRevision : preview_document_path(r) \in Paths
    /\ \A n, r : preview_control_state_path(n) # preview_document_path(r)
    /\ \A n, k : preview_control_state_path(n) = preview_control_state_path(k) => n = k
    /\ \A n, k : preview_document_path(n) = preview_document_path(k) => n = k
BY PreviewAssumption DEF ChildIds, Paths, preview_control_state_path, preview_document_path

LEMMA UnbornDead ==
    /\ Unborn \in Process /\ Dead \in Process /\ Stopped \in Status
    /\ Unborn.phase \notin Alive /\ Dead.phase \notin Alive /\ Unborn.document = None /\ Dead.document = None
    /\ Dead.phase = "dead" /\ Unborn.phase = "unborn"
    /\ Stopped.state = "stopped" /\ Stopped.controlPath = None /\ ~is_active(Stopped)
BY DEF Unborn, Dead, Stopped, Process, Status, Alive, is_active

\* The handle is given up after a failed call.
LEMMA FailedGood ==
    ASSUME Types, NEW s \in Sessions, NEW m, Good(s, m), m.handle # None
    PROVE  Good(s, Failed(m)) /\ Failed(m).handle = None /\ Failed(m).starts = m.starts
<1> DEFINE q == Failed(m)
<1>1. m \in ManagerState
  BY DEF Good
<1>2. /\ q \in ManagerState /\ q.handle = None /\ q.starts = m.starts /\ q.child = m.child /\ q.files = m.files
      /\ q.lost = m.lost \cup {m.handle} /\ q.status.controlPath = m.status.controlPath /\ ~is_active(q.status)
  BY <1>1 DEF Failed, ManagerState, Status, is_active
<1> HIDE DEF q
<1>3. Holds(s, q.status, q.handle, q.child, q.starts)
  BY <1>2 DEF Holds
<1>4. Reports(s, m.status, m.files, m.starts)
  BY <1>1, GoodParts
<1>5. Reports(s, q.status, q.files, q.starts)
  BY <1>2, <1>4 DEF Reports
<1>6. Good(s, q)
  BY <1>1, <1>2, <1>3, <1>5, GoodParts
<1> QED BY <1>2, <1>6 DEF q

\* The process has ended, and the handle goes with it.
LEMMA ExitedGood ==
    ASSUME Types, NEW s \in Sessions, NEW m, Good(s, m), m.handle # None, m.child[m.handle].phase \notin Alive
    PROVE  LET q == [m EXCEPT !.status.state = "exited", !.handle = None]
           IN Good(s, q) /\ q.handle = None /\ q.starts = m.starts
<1> DEFINE q == [m EXCEPT !.status.state = "exited", !.handle = None]
<1>1. m \in ManagerState
  BY DEF Good
<1>2. /\ q \in ManagerState /\ q.handle = None /\ q.starts = m.starts /\ q.child = m.child /\ q.files = m.files
      /\ q.lost = m.lost /\ q.status.controlPath = m.status.controlPath /\ ~is_active(q.status)
  BY <1>1 DEF ManagerState, Status, is_active
<1> HIDE DEF q
<1>3. Holds(s, q.status, q.handle, q.child, q.starts)
  BY <1>2 DEF Holds
<1>4. Reports(s, m.status, m.files, m.starts)
  BY <1>1, GoodParts
<1>5. Reports(s, q.status, q.files, q.starts)
  BY <1>2, <1>4 DEF Reports
<1>6. \A c \in ChildIds : q.child[c].phase \in Alive /\ c \notin q.lost =>
        /\ q.child[c].session \in Sessions
        /\ (IF q.child[c].session = s THEN q.handle ELSE handle[q.child[c].session]) = c
  BY <1>1, <1>2, GoodParts
<1>7. Good(s, q)
  BY <1>1, <1>2, <1>3, <1>5, <1>6, GoodParts
<1> QED BY <1>2, <1>7 DEF q

\* A process that answers is running.
LEMMA RunningGood ==
    ASSUME Types, NEW s \in Sessions, NEW m, Good(s, m), m.handle # None
    PROVE  LET q == [m EXCEPT !.status.state = IF @ = "starting" THEN "running" ELSE @]
           IN Good(s, q) /\ q.handle = m.handle /\ q.starts = m.starts
<1> DEFINE q == [m EXCEPT !.status.state = IF @ = "starting" THEN "running" ELSE @]
<1>1. m \in ManagerState
  BY DEF Good
<1>2. /\ q \in ManagerState /\ q.handle = m.handle /\ q.starts = m.starts /\ q.child = m.child /\ q.files = m.files
      /\ q.lost = m.lost /\ q.status.controlPath = m.status.controlPath /\ q.status.revision = m.status.revision
      /\ q.status.control = m.status.control /\ (is_active(q.status) <=> is_active(m.status))
  BY <1>1 DEF ManagerState, Status, is_active
<1> HIDE DEF q
<1>3. Holds(s, m.status, m.handle, m.child, m.starts) /\ Reports(s, m.status, m.files, m.starts)
  BY <1>1, GoodParts
<1>4. Holds(s, q.status, q.handle, q.child, q.starts)
  BY <1>2, <1>3 DEF Holds
<1>5. Reports(s, q.status, q.files, q.starts)
  BY <1>2, <1>3 DEF Reports
<1>6. Good(s, q)
  BY <1>1, <1>2, <1>4, <1>5, GoodParts
<1> QED BY <1>2, <1>6 DEF q

LEMMA PollGood ==
    ASSUME Types, NEW s \in Sessions, NEW m, Good(s, m), NEW q \in poll(m)
    PROVE  Good(s, q) /\ q.handle \in {m.handle, None} /\ q.starts = m.starts
<1>1. CASE m.handle = None
  BY <1>1 DEF poll
<1>2. CASE m.handle # None
  <2> DEFINE ended == [m EXCEPT !.status.state = "exited", !.handle = None]
             running == [m EXCEPT !.status.state = IF @ = "starting" THEN "running" ELSE @]
  <2>1. q = Failed(m) \/ (m.child[m.handle].phase = "dead" /\ q = ended) \/ q = running
    BY <1>2 DEF poll, Failures
  <2>2. CASE q = Failed(m)
    BY <1>2, <2>2, FailedGood
  <2>3. CASE m.child[m.handle].phase = "dead" /\ q = ended
    <3>1. m.child[m.handle].phase \notin Alive
      BY <2>3 DEF Alive
    <3> HIDE DEF ended
    <3>2. Good(s, ended) /\ ended.handle = None /\ ended.starts = m.starts
      BY <1>2, <3>1, ExitedGood DEF ended
    <3> QED BY <2>3, <3>2
  <2>4. CASE q = running
    <3> HIDE DEF running
    <3>1. Good(s, running) /\ running.handle = m.handle /\ running.starts = m.starts
      BY <1>2, RunningGood DEF running
    <3> QED BY <2>4, <3>1
  <2> QED BY <2>1, <2>2, <2>3, <2>4
<1> QED BY <1>1, <1>2

\* Removing files, whichever they are.
LEMMA RemoveGood ==
    ASSUME Types, NEW s \in Sessions, NEW m, Good(s, m), NEW paths
    PROVE  /\ Good(s, RemoveFiles(m, paths))
           /\ RemoveFiles(m, paths).handle = m.handle /\ RemoveFiles(m, paths).starts = m.starts
           /\ RemoveFiles(m, paths).status = m.status /\ RemoveFiles(m, paths).child = m.child
<1> DEFINE q == RemoveFiles(m, paths)
<1>1. m \in ManagerState
  BY DEF Good
<1>2. /\ q \in ManagerState /\ q.handle = m.handle /\ q.starts = m.starts /\ q.child = m.child
      /\ q.lost = m.lost /\ q.status = m.status
      /\ \A p \in Paths : q.files[p] = IF p \in paths THEN None ELSE m.files[p]
  BY <1>1 DEF ManagerState, RemoveFiles
<1> HIDE DEF q
<1>3. ASSUME NEW t \in Sessions, NEW p \in Status, Reports(t, p, m.files, m.starts)
      PROVE  Reports(t, p, q.files, q.starts)
  <2>1. p.controlPath # None => p.controlPath \in Paths
    BY DEF Status
  <2> QED BY <1>2, <1>3, <2>1 DEF Reports
<1>4. m.status \in Status /\ \A t \in Sessions : preview[t] \in Status
  BY <1>1 DEF ManagerState, Types
<1>5. FilesInv(q.files)
  <2>1. FilesInv(m.files)
    BY <1>1, GoodParts
  <2>2. \A r \in 1 .. MaxRevision : preview_document_path(r) \in Paths
    BY Constants
  <2> QED BY <1>2, <2>1, <2>2 DEF FilesInv
<1>6. /\ Holds(s, m.status, m.handle, m.child, m.starts)
      /\ \A t \in Sessions \ {s} : Holds(t, preview[t], handle[t], m.child, m.starts)
      /\ Reports(s, m.status, m.files, m.starts)
      /\ \A t \in Sessions \ {s} : Reports(t, preview[t], m.files, m.starts)
  BY <1>1, GoodParts
<1>7. Reports(s, q.status, q.files, q.starts) /\ \A t \in Sessions \ {s} : Reports(t, preview[t], q.files, q.starts)
  BY <1>2, <1>3, <1>4, <1>6
<1>8. Good(s, q)
  BY <1>1, <1>2, <1>5, <1>6, <1>7, GoodParts
<1> QED BY <1>2, <1>8 DEF q

\* The manager ends its process.
LEMMA KillGood ==
    ASSUME Types, NEW s \in Sessions, NEW m, Good(s, m), m.handle # None
    PROVE  /\ Good(s, Kill(m)) /\ Kill(m).handle = m.handle /\ Kill(m).starts = m.starts
           /\ Kill(m).child[m.handle] = Dead
<1> DEFINE q == Kill(m)
<1>1. m \in ManagerState /\ m.handle \in ChildIds
  BY DEF Good, ManagerState
<1>2. /\ q \in ManagerState /\ q.handle = m.handle /\ q.starts = m.starts /\ q.files = m.files
      /\ q.lost = m.lost /\ q.status = m.status
      /\ \A c \in ChildIds : q.child[c] = IF c = m.handle THEN Dead ELSE m.child[c]
  BY <1>1, UnbornDead DEF ManagerState, Kill
<1> HIDE DEF q
<1>3. /\ Holds(s, m.status, m.handle, m.child, m.starts)
      /\ \A t \in Sessions \ {s} : Holds(t, preview[t], handle[t], m.child, m.starts)
  BY <1>1, GoodParts
<1>4. m.handle \in 1 .. m.starts
  BY <1>3 DEF Holds
<1>5. \A c \in ChildIds : c > q.starts => q.child[c] = Unborn
  <2>1. \A c \in ChildIds : c > m.starts => m.child[c] = Unborn /\ c # m.handle
    BY <1>1, <1>4, GoodParts DEF ManagerState, ChildIds
  <2> QED BY <1>2, <2>1
<1>6. \A c \in ChildIds : q.child[c].phase \in Alive /\ c \notin q.lost =>
        /\ q.child[c].session \in Sessions
        /\ (IF q.child[c].session = s THEN q.handle ELSE handle[q.child[c].session]) = c
  BY <1>1, <1>2, GoodParts, UnbornDead
<1>7. Holds(s, q.status, q.handle, q.child, q.starts)
  BY <1>1, <1>2, <1>3 DEF Holds
<1>8. ASSUME NEW t \in Sessions \ {s} PROVE Holds(t, preview[t], handle[t], q.child, q.starts)
  <2>1. Holds(t, preview[t], handle[t], m.child, m.starts)
    BY <1>3
  <2>2. handle[t] # None => handle[t] \in ChildIds
    BY DEF Types
  <2> QED BY <1>2, <2>1, <2>2 DEF Holds
<1>9. Good(s, q)
  BY <1>1, <1>2, <1>5, <1>6, <1>7, <1>8, GoodParts
<1> QED BY <1>1, <1>2, <1>9 DEF q

\* A manager whose process is gone forgets it.
LEMMA StoppedGood ==
    ASSUME Types, NEW s \in Sessions, NEW m, Good(s, m), m.handle = None \/ m.child[m.handle] = Dead
    PROVE  LET q == [m EXCEPT !.status = Stopped, !.handle = None]
           IN Good(s, q) /\ q.handle = None /\ q.starts = m.starts
<1> DEFINE q == [m EXCEPT !.status = Stopped, !.handle = None]
<1>1. m \in ManagerState
  BY DEF Good
<1>2. /\ q \in ManagerState /\ q.handle = None /\ q.starts = m.starts /\ q.child = m.child /\ q.files = m.files
      /\ q.lost = m.lost /\ q.status = Stopped
  BY <1>1, UnbornDead DEF ManagerState
<1> HIDE DEF q
<1>3. Holds(s, q.status, q.handle, q.child, q.starts)
  BY <1>2 DEF Holds
<1>4. Reports(s, q.status, q.files, q.starts)
  BY <1>2, UnbornDead DEF Reports
<1>5. \A c \in ChildIds : q.child[c].phase \in Alive /\ c \notin q.lost =>
        /\ q.child[c].session \in Sessions
        /\ (IF q.child[c].session = s THEN q.handle ELSE handle[q.child[c].session]) = c
  <2> SUFFICES ASSUME NEW c \in ChildIds, m.child[c].phase \in Alive, c \notin m.lost
               PROVE  /\ m.child[c].session \in Sessions
                      /\ (IF m.child[c].session = s THEN None ELSE handle[m.child[c].session]) = c
    BY <1>2
  <2>1. m.child[c].session \in Sessions /\ (IF m.child[c].session = s THEN m.handle ELSE handle[m.child[c].session]) = c
    BY <1>1, GoodParts
  <2>2. c # None /\ Dead.phase \notin Alive
    BY Constants, UnbornDead
  <2>3. m.child[c].session # s
    BY <2>1, <2>2
  <2> QED BY <2>1, <2>3
<1>6. q.status.controlPath = None
  BY <1>2, UnbornDead
<1>7. Good(s, q)
  BY <1>1, <1>2, <1>3, <1>4, <1>5, <1>6, GoodParts
<1> QED BY <1>2, <1>7 DEF q

LEMMA StopGood ==
    ASSUME Types, NEW s \in Sessions, NEW m, Good(s, m), NEW q \in stop_current(m)
    PROVE  Good(s, q) /\ q.handle = None /\ q.starts = m.starts
<1> DEFINE gone(p) == RemoveFiles(p, {p.status.controlPath, p.status.documentPath})
           removed(p) == [gone(p) EXCEPT !.status = Stopped, !.handle = None]
<1>1. PICK p \in poll(m) : IF p.handle = None THEN q = removed(p)
                           ELSE q = removed(Kill(p)) \/ q = Failed(p) \/ q = Failed(Kill(p))
  BY DEF stop_current, Failures
<1>2. Good(s, p) /\ p.starts = m.starts
  BY PollGood
<1>3. ASSUME NEW k, Good(s, k), k.handle = None \/ k.child[k.handle] = Dead, k.starts = m.starts
      PROVE  Good(s, removed(k)) /\ removed(k).handle = None /\ removed(k).starts = m.starts
  <2>1. /\ Good(s, gone(k)) /\ gone(k).handle = k.handle /\ gone(k).starts = k.starts
        /\ gone(k).child = k.child
    BY <1>3, RemoveGood
  <2> HIDE DEF gone
  <2> QED BY <1>3, <2>1, StoppedGood
<1> HIDE DEF removed
<1>4. CASE p.handle = None
  BY <1>1, <1>2, <1>3, <1>4
<1>5. CASE p.handle # None
  <2>1. /\ Good(s, Kill(p)) /\ Kill(p).handle = p.handle /\ Kill(p).starts = p.starts
        /\ Kill(p).child[p.handle] = Dead
    BY <1>2, <1>5, KillGood
  <2>2. CASE q = removed(Kill(p))
    BY <1>2, <1>3, <2>1, <2>2
  <2>3. CASE q = Failed(p)
    BY <1>2, <1>5, <2>3, FailedGood
  <2>4. CASE q = Failed(Kill(p))
    BY <1>2, <1>5, <2>1, <2>4, FailedGood
  <2> QED BY <1>1, <1>5, <2>2, <2>3, <2>4
<1> QED BY <1>4, <1>5

-----------------------------------------------------------------------------
(* Launching a process.                                                    *)

\* Writing a new control-state file and the document of a context of s leaves
\* the reports of the other sessions true.
LEMMA WrittenFacts ==
    ASSUME Types, NEW s \in Sessions, NEW m, Good(s, m), NEW c \in Context, Known(c), c.session = s,
           NEW n, n = m.starts + 1, n \in 1 .. MaxStarts, NEW F,
           LET first == [m.files EXCEPT ![preview_control_state_path(n)] = c]
           IN F \in {m.files, first, [first EXCEPT ![preview_document_path(c.revision)] = c]}
    PROVE  /\ F \in [Paths -> Context \cup {None}]
           /\ FilesInv(F)
           /\ \A t \in Sessions \ {s} : Reports(t, preview[t], F, n)
<1> DEFINE cp == preview_control_state_path(n)
           dp == preview_document_path(c.revision)
<1>1. m \in ManagerState /\ c.revision \in 1 .. MaxRevision
  BY DEF Good, Context
<1>2. cp \in Paths /\ dp \in Paths /\ cp # dp
  BY <1>1, Constants
<1>3. m.files \in [Paths -> Context \cup {None}] /\ m.starts \in Nat /\ n \in Nat
  BY <1>1 DEF ManagerState
<1>4. F \in [Paths -> Context \cup {None}]
  <2> HIDE DEF cp, dp
  <2> QED BY <1>2, <1>3 DEF cp, dp
<1>5. \A p \in Paths : F[p] = m.files[p] \/ (F[p] = c /\ p \in {cp, dp})
  <2> HIDE DEF cp, dp
  <2> QED BY <1>2, <1>3 DEF cp, dp
<1>6. FilesInv(F)
  <2>1. FilesInv(m.files)
    BY <1>1, GoodParts
  <2>2. \A p \in Paths : F[p] # None => Known(F[p])
    BY <1>5, <2>1 DEF FilesInv
  <2>3. ASSUME NEW r \in 1 .. MaxRevision, F[preview_document_path(r)] # None
        PROVE  F[preview_document_path(r)].revision = r
    <3>1. preview_document_path(r) \in Paths /\ preview_document_path(r) # cp
          /\ (preview_document_path(r) = dp => r = c.revision)
      BY Constants
    <3> QED BY <1>5, <2>1, <2>3, <3>1 DEF FilesInv
  <2> QED BY <2>2, <2>3 DEF FilesInv
<1>7. ASSUME NEW t \in Sessions \ {s} PROVE Reports(t, preview[t], F, n)
  <2>1. Reports(t, preview[t], m.files, m.starts)
    BY <1>1, GoodParts
  <2>2. ASSUME preview[t].controlPath # None
        PROVE  /\ \E k \in 1 .. n : preview[t].controlPath = preview_control_state_path(k)
               /\ preview[t].controlPath \in Paths
               /\ preview[t].controlPath \notin {cp, dp}
    <3>1. PICK k \in 1 .. m.starts : preview[t].controlPath = preview_control_state_path(k)
      BY <2>1, <2>2 DEF Reports
    <3>2. k \in 1 .. n /\ k # n /\ k \in 1 .. MaxStarts
      <4>1. m.starts \in Nat /\ k \in 1 .. m.starts /\ MaxStarts \in Nat /\ n = m.starts + 1 /\ n \in 1 .. MaxStarts
        BY <1>3, Constants
      <4> QED BY <4>1
    <3>3. preview[t].controlPath \in Paths /\ preview[t].controlPath # cp /\ preview[t].controlPath # dp
      BY <3>1, <3>2, Constants
    <3> QED BY <3>1, <3>2, <3>3
  <2>3. preview[t].controlPath # None => F[preview[t].controlPath] = m.files[preview[t].controlPath]
    <3> HIDE DEF cp, dp
    <3> QED BY <1>5, <2>2
  <2> QED BY <2>1, <2>2, <2>3 DEF Reports
<1> QED BY <1>4, <1>6, <1>7

LEMMA LaunchGood ==
    ASSUME Types, NEW s \in Sessions, NEW m, Good(s, m), m.handle = None, m.starts < MaxStarts,
           NEW c \in Context, Known(c), c.session = s, NEW q \in launch(m, c)
    PROVE  Good(s, q)
<1> DEFINE n == m.starts + 1
           cp == preview_control_state_path(n)
           dp == preview_document_path(c.revision)
           F1 == [m.files EXCEPT ![cp] = c]
           F2 == [F1 EXCEPT ![dp] = c]
           begun == [m EXCEPT !.starts = n, !.status = starting_status(c, cp)]
           written == WriteFile(begun, cp, c)
           replaced == {k \in ChildIds : /\ m.child[k].phase = "spawned"
                                         /\ m.child[k].documentPath = dp
                                         /\ m.child[k].session # c.session}
           documented == [WriteFile(written, dp, c) EXCEPT !.overwritten = @ \cup replaced]
           process == [Unborn EXCEPT !.phase = "spawned", !.session = c.session,
                                     !.controlPath = cp, !.documentPath = dp]
           spawned == [documented EXCEPT !.status.state = "running", !.handle = n,
                                         !.status.documentPath = dp, !.child[n] = process]
<1>1. m \in ManagerState /\ c.revision \in 1 .. MaxRevision /\ c.control \in Nat /\ c.revision \in Nat
  BY Constants DEF Good, Context
<1>2. m.starts \in Nat /\ MaxStarts \in Nat /\ n \in 1 .. MaxStarts /\ n \in Nat /\ n \in ChildIds /\ n # None
      /\ m.starts < n
  BY <1>1, Constants DEF ManagerState, ChildIds
<1>3. cp \in Paths /\ dp \in Paths /\ cp # dp
  BY <1>1, <1>2, Constants
<1>4. q = spawned \/ \E k \in {begun, written, documented} : q = [k EXCEPT !.status.state = "error"]
  BY DEF launch
<1> HIDE DEF n, cp, dp
<1>5. /\ \A F \in {m.files, F1, F2} :
           /\ F \in [Paths -> Context \cup {None}]
           /\ FilesInv(F)
           /\ \A t \in Sessions \ {s} : Reports(t, preview[t], F, n)
  <2> SUFFICES ASSUME NEW F \in {m.files, F1, F2}
               PROVE  /\ F \in [Paths -> Context \cup {None}]
                      /\ FilesInv(F)
                      /\ \A t \in Sessions \ {s} : Reports(t, preview[t], F, n)
    OBVIOUS
  <2>1. n = m.starts + 1 /\ n \in 1 .. MaxStarts
    BY <1>2 DEF n
  <2> HIDE DEF n
  <2>2. F \in {m.files, [m.files EXCEPT ![preview_control_state_path(n)] = c],
               [[m.files EXCEPT ![preview_control_state_path(n)] = c] EXCEPT ![preview_document_path(c.revision)] = c]}
    BY DEF cp, dp
  <2> QED BY <2>1, <2>2, WrittenFacts
<1>6. F2[cp] = c
  BY <1>1, <1>3 DEF ManagerState
<1>8. /\ starting_status(c, cp) \in Status /\ starting_status(c, cp).controlPath = cp
      /\ starting_status(c, cp).revision = c.revision /\ starting_status(c, cp).control = c.control
  BY <1>1, <1>3 DEF starting_status, Status
<1>7. /\ begun.files = m.files /\ written.files = F1 /\ documented.files = F2
      /\ \A k \in {begun, written, documented} :
           /\ k \in ManagerState
           /\ k.starts = n /\ k.handle = None /\ k.child = m.child /\ k.lost = m.lost
           /\ k.status = starting_status(c, cp)
  <2>1. F1 \in [Paths -> Context \cup {None}] /\ F2 \in [Paths -> Context \cup {None}] /\ n \in 0 .. MaxStarts
    BY <1>2, <1>5
  <2>2. /\ begun \in ManagerState /\ begun.files = m.files
        /\ begun.starts = n /\ begun.handle = None /\ begun.child = m.child /\ begun.lost = m.lost
        /\ begun.status = starting_status(c, cp)
    BY <1>1, <1>8, <2>1 DEF ManagerState
  <2> HIDE DEF begun
  <2>3. /\ written \in ManagerState /\ written.files = F1
        /\ written.starts = n /\ written.handle = None /\ written.child = m.child /\ written.lost = m.lost
        /\ written.status = starting_status(c, cp)
    BY <2>1, <2>2 DEF ManagerState, WriteFile
  <2> HIDE DEF written, F1
  <2>4. /\ documented \in ManagerState /\ documented.files = F2
        /\ documented.starts = n /\ documented.handle = None /\ documented.child = m.child
        /\ documented.lost = m.lost /\ documented.status = starting_status(c, cp)
    <3> DEFINE filed == WriteFile(written, dp, c)
    <3>1. /\ filed \in ManagerState /\ filed.files = F2
          /\ filed.starts = n /\ filed.handle = None /\ filed.child = m.child
          /\ filed.lost = m.lost /\ filed.status = starting_status(c, cp)
      BY <2>1, <2>3 DEF ManagerState, WriteFile
    <3>2. replaced \subseteq ChildIds /\ documented = [filed EXCEPT !.overwritten = @ \cup replaced]
      OBVIOUS
    <3> HIDE DEF filed, replaced, documented
    <3> QED BY <3>1, <3>2 DEF ManagerState
  <2> HIDE DEF documented
  <2> QED BY <2>2, <2>3, <2>4
<1> HIDE DEF F1, F2, begun, written, documented
<1>9. /\ \A t \in Sessions \ {s} : Holds(t, preview[t], handle[t], m.child, m.starts)
      /\ \A t \in Sessions \ {s} : Reports(t, preview[t], m.files, m.starts)
      /\ \A k \in ChildIds : k > m.starts => m.child[k] = Unborn
      /\ \A k \in ChildIds : m.child[k].phase \in Alive /\ k \notin m.lost =>
                  /\ m.child[k].session \in Sessions
                  /\ (IF m.child[k].session = s THEN m.handle ELSE handle[m.child[k].session]) = k
      /\ \A t, u \in Sessions \ {s} : t # u /\ preview[t].controlPath = preview[u].controlPath =>
                  preview[t].controlPath = None
  BY <1>1, GoodParts
<1>10. \A t \in Sessions \ {s} : cp = preview[t].controlPath => cp = None
  <2> SUFFICES ASSUME NEW t \in Sessions \ {s}, cp = preview[t].controlPath, cp # None PROVE FALSE
    OBVIOUS
  <2>1. PICK k \in 1 .. m.starts : preview[t].controlPath = preview_control_state_path(k)
    BY <1>9 DEF Reports
  <2>2. k = n
    BY <2>1, Constants DEF cp
  <2> QED BY <1>2, <2>2
<1>11. CASE q = spawned
  <2>1. /\ q \in ManagerState /\ q.starts = n /\ q.handle = n /\ q.lost = m.lost /\ q.files = F2
        /\ q.status.state = "running" /\ q.status.controlPath = cp /\ q.status.revision = c.revision
        /\ q.status.control = c.control
        /\ \A k \in ChildIds : q.child[k] = IF k = n THEN process ELSE m.child[k]
    <3>1. process \in Process
      <4>1. c.session \in Sessions
        OBVIOUS
      <4>2. process \in Living
        BY <1>3, <4>1 DEF Unborn, Living, Alive
      <4> QED BY <4>2 DEF Process
    <3> HIDE DEF process
    <3>2. /\ documented \in ManagerState /\ documented.status = starting_status(c, cp) /\ documented.files = F2
          /\ documented.starts = n /\ documented.child = m.child /\ documented.lost = m.lost
      BY <1>7
    <3> HIDE DEF process
    <3>3. /\ q.starts = n /\ q.handle = n /\ q.lost = m.lost /\ q.files = F2
          /\ q.child = [m.child EXCEPT ![n] = process]
      BY <1>11, <3>2 DEF ManagerState
    <3>4. /\ q.status.state = "running" /\ q.status.controlPath = cp
          /\ q.status.revision = c.revision /\ q.status.control = c.control
      BY <1>8, <1>11, <3>2 DEF ManagerState, Status
    <3>5. q.child \in [ChildIds -> Process] /\ \A k \in ChildIds : q.child[k] = IF k = n THEN process ELSE m.child[k]
      BY <1>1, <1>2, <3>1, <3>3 DEF ManagerState
    <3>6. q \in ManagerState
      <4> DEFINE g == [documented EXCEPT !.status.state = "running"]
                 h == [g EXCEPT !.handle = n]
                 i == [h EXCEPT !.status.documentPath = dp]
      <4>1. g \in ManagerState
        BY <3>2 DEF ManagerState, Status
      <4>2. h \in ManagerState
        <5> HIDE DEF g
        <5> QED BY <1>2, <4>1 DEF ManagerState
      <4>3. i \in ManagerState
        <5> HIDE DEF h
        <5> QED BY <1>3, <4>2 DEF ManagerState, Status
      <4>4. q = [i EXCEPT !.child[n] = process]
        BY <1>11
      <4> HIDE DEF i
      <4> QED BY <1>2, <3>1, <4>3, <4>4 DEF ManagerState
    <3> QED BY <3>3, <3>4, <3>5, <3>6
  <2>2. process.session = s /\ process.documentPath = dp /\ process.document = None /\ process.phase = "spawned"
    BY UnbornDead DEF Unborn
  <2> HIDE DEF process, spawned
  <2>3. \A k \in ChildIds : k > n => q.child[k] = Unborn
    BY <1>2, <1>9, <2>1 DEF ChildIds
  <2>4. ASSUME NEW k \in ChildIds, q.child[k].phase \in Alive, k \notin q.lost
        PROVE  /\ q.child[k].session \in Sessions
               /\ (IF q.child[k].session = s THEN q.handle ELSE handle[q.child[k].session]) = k
    <3>1. CASE k = n
      BY <2>1, <2>2, <3>1
    <3>2. CASE k # n
      <4>1. m.child[k].session \in Sessions
            /\ (IF m.child[k].session = s THEN None ELSE handle[m.child[k].session]) = k
        BY <1>9, <2>1, <2>4, <3>2
      <4>2. k # None
        BY Constants
      <4> QED BY <2>1, <3>2, <4>1, <4>2
    <3> QED BY <3>1, <3>2
  <2>5. Holds(s, q.status, q.handle, q.child, q.starts)
    BY <1>1, <1>2, <2>1, <2>2 DEF Holds, is_active, dp
  <2>6. ASSUME NEW t \in Sessions \ {s} PROVE Holds(t, preview[t], handle[t], q.child, q.starts)
    <3>1. Holds(t, preview[t], handle[t], m.child, m.starts)
      BY <1>9
    <3>2. handle[t] # None => handle[t] \in ChildIds /\ handle[t] # n /\ handle[t] \in 1 .. n
      BY <1>2, <3>1 DEF Types, Holds
    <3> QED BY <2>1, <3>1, <3>2 DEF Holds
  <2>7. Reports(s, q.status, q.files, q.starts)
    <3>1. n \in 1 .. n
      BY <1>2
    <3>2. q.status.controlPath = preview_control_state_path(n)
      BY <2>1 DEF cp
    <3>3. is_active(q.status) => q.status.controlPath # None
      BY <2>1, <1>3, Constants, PathsAssumption
    <3> QED BY <1>6, <2>1, <3>1, <3>2, <3>3 DEF Reports
  <2> QED BY <1>5, <1>9, <1>10, <2>1, <2>3, <2>4, <2>5, <2>6, <2>7, GoodParts
<1>12. ASSUME NEW k \in {begun, written, documented}, q = [k EXCEPT !.status.state = "error"] PROVE Good(s, q)
  <2>1. /\ q.starts = n /\ q.handle = None /\ q.lost = m.lost /\ q.files = k.files
        /\ q.child = m.child
    BY <1>7, <1>12 DEF ManagerState
  <2>2. q.status.controlPath = cp /\ ~is_active(q.status)
    BY <1>7, <1>8, <1>12 DEF ManagerState, Status, is_active
  <2>3. k.files \in {m.files, F1, F2}
    BY <1>7
  <2>4. q \in ManagerState
    BY <1>7, <1>12 DEF ManagerState, Status
  <2>5. \A j \in ChildIds : j > n => q.child[j] = Unborn
    BY <1>2, <1>9, <2>1 DEF ChildIds
  <2>6. Holds(s, q.status, q.handle, q.child, q.starts)
    BY <2>1 DEF Holds
  <2>7. ASSUME NEW t \in Sessions \ {s} PROVE Holds(t, preview[t], handle[t], q.child, q.starts)
    <3>1. Holds(t, preview[t], handle[t], m.child, m.starts)
      BY <1>9
    <3>2. handle[t] # None => handle[t] \in 1 .. n
      BY <1>2, <3>1 DEF Holds
    <3> QED BY <2>1, <3>1, <3>2 DEF Holds
  <2>8. Reports(s, q.status, q.files, q.starts)
    <3>1. n \in 1 .. n
      BY <1>2
    <3>2. q.status.controlPath = preview_control_state_path(n)
      BY <2>2 DEF cp
    <3> QED BY <2>1, <2>2, <3>1, <3>2 DEF Reports
  <2>9. FilesInv(q.files) /\ \A t \in Sessions \ {s} : Reports(t, preview[t], q.files, q.starts)
    BY <1>5, <2>1, <2>3
  <2>10. \A j \in ChildIds : q.child[j].phase \in Alive /\ j \notin q.lost =>
                  /\ q.child[j].session \in Sessions
                  /\ (IF q.child[j].session = s THEN q.handle ELSE handle[q.child[j].session]) = j
    BY <1>9, <2>1
  <2>11. \A t \in Sessions \ {s} : q.status.controlPath = preview[t].controlPath => q.status.controlPath = None
    BY <1>10, <2>2
  <2>12. \A t, u \in Sessions \ {s} : t # u /\ preview[t].controlPath = preview[u].controlPath =>
                  preview[t].controlPath = None
    BY <1>9
  <2> QED BY <2>1, <2>4, <2>5, <2>6, <2>7, <2>8, <2>9, <2>10, <2>11, <2>12, GoodParts
<1> QED BY <1>4, <1>11, <1>12

LEMMA StartGood ==
    ASSUME Types, NEW s \in Sessions, NEW m, Good(s, m), m.starts < MaxStarts,
           NEW c, c # None => c \in Context /\ Known(c) /\ c.session = s,
           NEW restart \in BOOLEAN, NEW q \in start(m, c, restart)
    PROVE  Good(s, q) /\ (c = None => q.handle \in {m.handle, None})
<1> DEFINE clean(p) == cleanup_stale_preview_files(p)
<1>1. PICK p \in poll(m) :
        IF is_active(p.status) /\ ~restart THEN q = p
        ELSE \E w \in IF restart THEN stop_current(clean(p)) ELSE {clean(p)} :
               IF c = None THEN q = w ELSE q \in launch(w, c)
  BY DEF start
<1>2. Good(s, p) /\ p.handle \in {m.handle, None} /\ p.starts = m.starts
  BY PollGood
<1>3. CASE is_active(p.status) /\ ~restart
  BY <1>1, <1>2, <1>3
<1>4. CASE ~(is_active(p.status) /\ ~restart)
  <2>1. PICK w \in IF restart THEN stop_current(clean(p)) ELSE {clean(p)} :
               IF c = None THEN q = w ELSE q \in launch(w, c)
    BY <1>1, <1>4
  <2>2. /\ Good(s, clean(p)) /\ clean(p).handle = p.handle /\ clean(p).starts = p.starts
        /\ clean(p).status = p.status
    BY <1>2, RemoveGood DEF cleanup_stale_preview_files
  <2> HIDE DEF clean
  <2>3. Good(s, w) /\ w.handle = None /\ w.starts = m.starts
    <3>1. CASE restart
      BY <1>2, <2>1, <2>2, <3>1, StopGood
    <3>2. CASE ~restart
      <4>1. w = clean(p) /\ ~is_active(p.status)
        BY <1>4, <2>1, <3>2
      <4>2. Holds(s, p.status, p.handle, p.child, p.starts)
        BY <1>2, GoodParts DEF Good
      <4> QED BY <1>2, <2>2, <4>1, <4>2 DEF Holds
    <3> QED BY <3>1, <3>2
  <2>4. CASE c = None
    BY <2>1, <2>3, <2>4
  <2>5. CASE c # None
    BY <2>1, <2>3, <2>5, LaunchGood
  <2> QED BY <2>4, <2>5
<1> QED BY <1>3, <1>4

-----------------------------------------------------------------------------
(* Updating the control state of a running preview.                        *)

LEMMA UpdatedGood ==
    ASSUME Types, NEW s \in Sessions, NEW m, Good(s, m), is_active(m.status),
           NEW c \in Context, Known(c), c.session = s
    PROVE  LET q == [WriteFile(m, m.status.controlPath, c) EXCEPT !.status.control = c.control]
           IN Good(s, q) /\ q.handle = m.handle
<1> DEFINE cp == m.status.controlPath
           q == [WriteFile(m, cp, c) EXCEPT !.status.control = c.control]
<1>1. m \in ManagerState /\ c.control \in Nat
  BY DEF Good, Context
<1>2. /\ Holds(s, m.status, m.handle, m.child, m.starts)
      /\ \A t \in Sessions \ {s} : Holds(t, preview[t], handle[t], m.child, m.starts)
      /\ Reports(s, m.status, m.files, m.starts)
      /\ \A t \in Sessions \ {s} : Reports(t, preview[t], m.files, m.starts)
      /\ \A t \in Sessions \ {s} : m.status.controlPath = preview[t].controlPath => m.status.controlPath = None
      /\ FilesInv(m.files)
  BY <1>1, GoodParts
<1>3. PICK n \in 1 .. m.starts : cp = preview_control_state_path(n)
  BY <1>2 DEF Reports
<1>4. n \in 1 .. MaxStarts
  BY <1>1, Constants DEF ManagerState
<1>5. cp \in Paths /\ cp # None /\ \A r : cp # preview_document_path(r)
  BY <1>3, <1>4, Constants, PathsAssumption
<1>6. /\ q \in ManagerState /\ q.handle = m.handle /\ q.starts = m.starts /\ q.child = m.child /\ q.lost = m.lost
      /\ q.status.controlPath = cp /\ q.status.control = c.control /\ q.status.revision = m.status.revision
      /\ q.status.state = m.status.state
      /\ \A p \in Paths : q.files[p] = IF p = cp THEN c ELSE m.files[p]
  <2> DEFINE w == WriteFile(m, cp, c)
  <2>1. w \in ManagerState /\ w = [[m EXCEPT !.files = [m.files EXCEPT ![cp] = c]] EXCEPT !.old = m.old \ {cp}]
    BY <1>1, <1>5 DEF ManagerState, WriteFile
  <2>2. /\ w.handle = m.handle /\ w.starts = m.starts /\ w.child = m.child /\ w.lost = m.lost /\ w.status = m.status
        /\ \A p \in Paths : w.files[p] = IF p = cp THEN c ELSE m.files[p]
    BY <1>1, <1>5, <2>1 DEF ManagerState
  <2> HIDE DEF w
  <2>3. q \in ManagerState
    BY <1>1, <2>1 DEF ManagerState, Status, w
  <2> QED BY <1>1, <2>1, <2>2, <2>3 DEF ManagerState, Status, w
<1> HIDE DEF q
<1>7. Holds(s, q.status, q.handle, q.child, q.starts)
  BY <1>2, <1>6 DEF Holds, is_active
<1>8. Reports(s, q.status, q.files, q.starts)
  BY <1>3, <1>5, <1>6 DEF Reports, is_active
<1>9. ASSUME NEW t \in Sessions \ {s} PROVE Reports(t, preview[t], q.files, q.starts)
  <2>1. preview[t].controlPath # cp /\ preview[t] \in Status
    BY <1>2, <1>5 DEF Types
  <2>2. preview[t].controlPath # None => q.files[preview[t].controlPath] = m.files[preview[t].controlPath]
    BY <1>6, <2>1 DEF Status
  <2> QED BY <1>2, <1>6, <2>2 DEF Reports
<1>10. FilesInv(q.files)
  <2>1. \A r \in 1 .. MaxRevision : preview_document_path(r) \in Paths
    BY Constants
  <2> QED BY <1>2, <1>5, <1>6, <2>1 DEF FilesInv
<1>11. Good(s, q)
  <2>1. /\ \A k \in ChildIds : k > m.starts => m.child[k] = Unborn
        /\ \A k \in ChildIds : m.child[k].phase \in Alive /\ k \notin m.lost =>
             /\ m.child[k].session \in Sessions
             /\ (IF m.child[k].session = s THEN m.handle ELSE handle[m.child[k].session]) = k
        /\ \A t, u \in Sessions \ {s} : t # u /\ preview[t].controlPath = preview[u].controlPath =>
                  preview[t].controlPath = None
    BY <1>1, GoodParts
  <2> QED BY <1>2, <1>6, <1>7, <1>8, <1>9, <1>10, <2>1, GoodParts
<1> QED BY <1>6, <1>11 DEF q

LEMMA UpdateGood ==
    ASSUME Types, NEW s \in Sessions, NEW m, Good(s, m),
           NEW c \in Context, Known(c), c.session = s, NEW q \in update_control_state(m, c)
    PROVE  Good(s, q) /\ q.handle \in {m.handle, None}
<1> DEFINE updated(p) == [WriteFile(p, p.status.controlPath, c) EXCEPT !.status.control = c.control]
<1>1. PICK p \in poll(m) : q = p \/ (is_active(p.status) /\ q = updated(p))
  BY DEF update_control_state
<1>2. Good(s, p) /\ p.handle \in {m.handle, None}
  BY PollGood
<1>3. CASE q = p
  BY <1>2, <1>3
<1>4. CASE is_active(p.status) /\ q = updated(p)
  <2>1. Good(s, updated(p)) /\ updated(p).handle = p.handle
    BY <1>2, <1>4, UpdatedGood
  <2> QED BY <1>2, <1>4, <2>1
<1> QED BY <1>1, <1>3, <1>4

-----------------------------------------------------------------------------
(* The steps.                                                              *)

\* Every step leaves a session where it was or takes it forward.
Forward(S, T) ==
    \A s \in Sessions :
      \/ S[s].revision < T[s].revision
      \/ S[s].revision = T[s].revision /\ S[s].doc = T[s].doc /\ S[s].control < T[s].control
      \/ /\ S[s].revision = T[s].revision /\ S[s].doc = T[s].doc
         /\ S[s].control = T[s].control /\ S[s].value = T[s].value

LEMMA KnownKept ==
    ASSUME NEW S \in [Sessions -> SessionView], NEW T \in [Sessions -> SessionView], Forward(S, T)
    PROVE  \A x \in Context : KnownIn(S, x) => KnownIn(T, x)
<1> SUFFICES ASSUME NEW x \in Context, KnownIn(S, x) PROVE KnownIn(T, x)
  OBVIOUS
<1>1. x.session \in Sessions
  BY DEF Context
<1> DEFINE s == S[x.session]
           z == T[x.session]
<1>2. /\ x.revision \in Nat /\ x.control \in Nat /\ s.revision \in Nat /\ s.control \in Nat
      /\ z.revision \in Nat /\ z.control \in Nat
  BY <1>1, Constants DEF Context, SessionView
<1>3. /\ x.revision <= s.revision
      /\ x.revision = s.revision => x.doc = s.doc /\ x.control <= s.control
      /\ x.revision = s.revision /\ x.control = s.control => x.value = s.value
  BY DEF KnownIn
<1>4. \/ s.revision < z.revision
      \/ s.revision = z.revision /\ s.doc = z.doc /\ s.control < z.control
      \/ s.revision = z.revision /\ s.doc = z.doc /\ s.control = z.control /\ s.value = z.value
  BY <1>1 DEF Forward
<1> HIDE DEF s, z
<1>5. /\ x.revision <= z.revision
      /\ x.revision = z.revision => x.doc = z.doc /\ x.control <= z.control
      /\ x.revision = z.revision /\ x.control = z.control => x.value = z.value
  BY <1>2, <1>3, <1>4
<1> QED BY <1>5 DEF KnownIn, z

\* The invariant of the processes, when the sessions go forward as well.
LEMMA PoolKept ==
    ASSUME Types, Types', PoolInv(preview', handle', child', files', starts', lost'),
           \A x \in Context : KnownIn(session, x) => KnownIn(session', x)
    PROVE  PoolInv(preview, handle, child, files, starts, lost)'
<1>1. (\A s \in Sessions : Holds(s, preview[s], handle[s], child, starts))'
  <2> SUFFICES ASSUME NEW s \in Sessions, handle'[s] # None
               PROVE  Holds(s, preview[s], handle[s], child, starts)'
    BY DEF Holds
  <2>1. Holds(s, preview'[s], handle'[s], child', starts')
    BY DEF PoolInv
  <2>2. handle'[s] \in ChildIds
    BY DEF Types
  <2>3. child'[handle'[s]] \in Process
    BY <2>2 DEF Types
  <2>4. child'[handle'[s]].document \in Context \cup {None}
    BY <2>3, UnbornDead DEF Process, Living
  <2> QED BY <2>1, <2>4 DEF Holds, Known
<1>2. FilesInv(files)'
  <2>1. FilesInv(files') /\ \A p \in Paths : files'[p] \in Context \cup {None}
    BY DEF PoolInv, Types
  <2> QED BY <2>1 DEF FilesInv, Known
<1>3. ProcessInv(handle, child, starts, lost)' /\ Apart(preview)'
  BY DEF PoolInv, ProcessInv, Apart
<1>4. (\A s \in Sessions : Reports(s, preview[s], files, starts))'
  BY DEF PoolInv, Reports
<1> QED BY <1>1, <1>2, <1>3, <1>4 DEF PoolInv

LEMMA RequestsKept ==
    ASSUME Types, RequestInv, \A x \in Context : KnownIn(session, x) => KnownIn(session', x),
           \A r \in Requests : request'[r] \in {request[r], None}
    PROVE  RequestInv'
<1> SUFFICES ASSUME NEW r \in Requests, request'[r] # None
             PROVE  request'[r].context # None \/ request'[r].op = "update" =>
                      /\ request'[r].context \in Context
                      /\ KnownIn(session', request'[r].context)
                      /\ request'[r].context.session = request'[r].session
  BY DEF RequestInv, Known
<1>1. request'[r] = request[r]
  OBVIOUS
<1> QED BY <1>1 DEF RequestInv, Known

\* Nothing undoes a clear but a load, or a start across it.
LEMMA ClearedKept ==
    ASSUME ClearedInv,
           \A s \in Sessions : s \notin raced' /\ (~session'[s].loaded \/ Under(s, "clear")') =>
             /\ s \notin raced /\ (~session[s].loaded \/ Under(s, "clear"))
             /\ handle'[s] \in {handle[s], None},
           \A r \in Requests : InFlight(r, "start")' => request'[r] = request[r]
    PROVE  ClearedInv'
<1> SUFFICES ASSUME NEW s \in Sessions, s \notin raced', ~session'[s].loaded \/ Under(s, "clear")'
             PROVE  /\ handle'[s] = None
                    /\ \A r \in Requests : InFlight(r, "start")' /\ request'[r].session = s =>
                         request'[r].context = None
  BY DEF ClearedInv
<1>1. /\ handle[s] = None /\ handle'[s] \in {handle[s], None}
      /\ \A r \in Requests : InFlight(r, "start") /\ request[r].session = s => request[r].context = None
  BY DEF ClearedInv
<1>2. \A r \in Requests : InFlight(r, "start")' => InFlight(r, "start")
  BY DEF InFlight
<1> QED BY <1>1, <1>2

LEMMA ManagerGood ==
    ASSUME Inv, NEW s \in Sessions
    PROVE  Good(s, Manager(s)) /\ Manager(s).handle = handle[s] /\ Manager(s).starts = starts
<1>1. [preview EXCEPT ![s] = preview[s]] = preview /\ [handle EXCEPT ![s] = handle[s]] = handle
  BY DEF Inv, Types
<1>2. Manager(s) \in ManagerState
  BY DEF Inv, Types, Manager, ManagerState
<1> QED BY <1>1, <1>2 DEF Inv, Good, Manager

\* What a method leaves behind.
LEMMA CommitGood ==
    ASSUME Types, NEW s \in Sessions, NEW m, Good(s, m), Commit(s, m), session' = session,
           \A r \in Requests : request'[r] # None => request'[r] \in Request, DOMAIN request' = Requests
    PROVE  /\ Types'
           /\ PoolInv(preview, handle, child, files, starts, lost)'
           /\ \A t \in Sessions : handle'[t] = IF t = s THEN m.handle ELSE handle[t]
<1>1. m \in ManagerState /\ m.status \in Status /\ m.handle \in ChildIds \cup {None}
  BY DEF Good, ManagerState
<1>2. \A t \in Sessions : handle'[t] = IF t = s THEN m.handle ELSE handle[t]
  BY DEF Commit, Types
<1>3. preview' \in [Sessions -> Status] /\ handle' \in [Sessions -> ChildIds \cup {None}]
  BY <1>1 DEF Commit, Types
<1>4. Types'
  BY <1>1, <1>3 DEF Types, Commit, ManagerState
<1>5. PoolInv(preview', handle', child', files', starts', lost')
  BY DEF Good, Commit
<1> QED BY <1>2, <1>4, <1>5, PoolKept

\* An edit of the session: nothing but the session changes.
LEMMA SessionStep ==
    ASSUME Inv, NEW s \in Sessions, NEW z \in SessionView, session' = [session EXCEPT ![s] = z],
           \/ session[s].revision < z.revision
           \/ /\ session[s].revision = z.revision /\ session[s].doc = z.doc
              /\ session[s].control = z.control /\ session[s].value = z.value,
           z.loaded => z.revision >= 1, z.loaded \/ ~session[s].loaded,
           UNCHANGED <<sessionVars, request, raced>>
    PROVE  Inv'
<1> USE DEF sessionVars
<1>1. session \in [Sessions -> SessionView] /\ session' \in [Sessions -> SessionView]
      /\ \A t \in Sessions : session'[t] = IF t = s THEN z ELSE session[t]
  BY DEF Inv, Types
<1>2. Types'
  BY <1>1 DEF Inv, Types
<1>3. \A x \in Context : KnownIn(session, x) => KnownIn(session', x)
  BY <1>1, KnownKept DEF Forward
<1>4. RequestInv'
  BY <1>3, RequestsKept DEF Inv
<1>5. PoolInv(preview', handle', child', files', starts', lost')
  BY DEF Inv
<1>6. PoolInv(preview, handle, child, files, starts, lost)'
  BY <1>2, <1>3, <1>5, PoolKept DEF Inv
<1>7. LoadedInv'
  BY <1>1 DEF Inv, LoadedInv
<1>8. ClearedInv'
  BY <1>1 DEF Inv, ClearedInv, Under, InFlight
<1> QED BY <1>2, <1>4, <1>6, <1>7, <1>8 DEF Inv

LEMMA ViewFields ==
    ASSUME Types, NEW s \in Sessions
    PROVE  /\ session[s] \in SessionView
           /\ session[s].revision \in Nat /\ session[s].control \in Nat /\ session[s].doc \in Nat
           /\ session[s].revision <= MaxRevision /\ session[s].value \in Values
           /\ session[s].loaded \in BOOLEAN /\ session[s].planned \in BOOLEAN
BY Constants DEF Types, SessionView

LEMMA InstallStep ==
    ASSUME Inv, NEW s \in Sessions, install_project(s)
    PROVE  Inv'
<1> DEFINE r == session[s].revision + 1
           z == [loaded |-> TRUE, planned |-> TRUE, revision |-> r, control |-> 0, doc |-> r, value |-> Default]
<1>1. session[s].revision \in Nat /\ session[s].revision < MaxRevision /\ r \in 0 .. MaxRevision /\ r \in Nat
      /\ session[s].revision < r /\ r >= 1
  BY Constants, ViewFields DEF install_project, Room, Inv
<1>2. session' = [session EXCEPT ![s] = z] /\ UNCHANGED <<sessionVars, request, raced>>
  BY DEF install_project
<1> HIDE DEF r
<1>3. z \in SessionView /\ z.revision = r /\ z.loaded = TRUE
  BY <1>1, Constants DEF SessionView
<1> HIDE DEF z
<1> QED BY <1>1, <1>2, <1>3, SessionStep

LEMMA ViewPatchStep ==
    ASSUME Inv, NEW s \in Sessions, apply_view_patch(s)
    PROVE  Inv'
<1> DEFINE z == [session[s] EXCEPT !.revision = @ + 1, !.planned = TRUE, !.value = Default]
<1>1. session[s].revision \in Nat /\ session[s].revision < MaxRevision /\ session[s] \in SessionView
      /\ session[s].loaded = TRUE
  BY ViewFields DEF apply_view_patch, Room, Inv
<1>2. session' = [session EXCEPT ![s] = z]
  <2>1. session' = [session EXCEPT ![s].revision = @ + 1, ![s].planned = TRUE, ![s].value = Default]
    BY DEF apply_view_patch
  <2>2. session \in [Sessions -> SessionView]
    BY DEF Inv, Types
  <2> QED BY <2>1, <2>2 DEF SessionView
<1>3. z \in SessionView /\ z.revision = session[s].revision + 1 /\ z.loaded = TRUE
  <2>1. session[s].revision + 1 \in 0 .. MaxRevision /\ Default \in Values
    BY <1>1, Constants
  <2> DEFINE n == session[s].revision + 1
             y == session[s]
  <2>2. y.revision + 1 = n /\ n \in 0 .. MaxRevision /\ y \in SessionView /\ y.loaded = TRUE
    BY <1>1, <2>1
  <2>3. z = [[[y EXCEPT !.revision = n] EXCEPT !.planned = TRUE] EXCEPT !.value = Default]
    OBVIOUS
  <2> HIDE DEF n, y, z
  <2>4. z \in SessionView /\ z.revision = n /\ z.loaded = TRUE
    BY <2>1, <2>2, <2>3 DEF SessionView
  <2> QED BY <2>4 DEF n
<1>4. UNCHANGED <<sessionVars, request, raced>>
  BY DEF apply_view_patch
<1>5. session[s].revision < z.revision /\ z.revision >= 1
  BY <1>1, <1>3
<1> HIDE DEF z
<1> QED BY <1>2, <1>3, <1>4, <1>5, SessionStep

LEMMA DropPlanStep ==
    ASSUME Inv, NEW s \in Sessions, drop_plan(s)
    PROVE  Inv'
<1> DEFINE z == [session[s] EXCEPT !.planned = FALSE]
<1>1. session[s] \in SessionView
  BY ViewFields DEF Inv
<1>2. session' = [session EXCEPT ![s] = z] /\ UNCHANGED <<sessionVars, request, raced>>
  BY DEF drop_plan
<1>3. /\ z \in SessionView /\ z.revision = session[s].revision /\ z.doc = session[s].doc
      /\ z.control = session[s].control /\ z.value = session[s].value /\ z.loaded = session[s].loaded
  BY <1>1 DEF SessionView
<1>4. z.loaded => z.revision >= 1
  BY <1>3 DEF Inv, LoadedInv
<1>5. z.loaded \/ ~session[s].loaded
  BY <1>3
<1> HIDE DEF z
<1> QED BY <1>2, <1>3, <1>4, <1>5, SessionStep

\* What a handler reads of a loaded session.
LEMMA CaptureFacts ==
    ASSUME NEW S \in [Sessions -> SessionView], NEW s \in Sessions, S[s].revision >= 1
    PROVE  LET x == [session |-> s, revision |-> S[s].revision, doc |-> S[s].doc,
                     control |-> S[s].control, value |-> S[s].value]
           IN x \in Context /\ KnownIn(S, x) /\ x.session = s
<1>1. S[s] \in SessionView /\ S[s].revision \in Nat /\ S[s].control \in Nat
  BY Constants DEF SessionView
<1>2. S[s].revision \in 1 .. MaxRevision
  BY <1>1 DEF SessionView
<1> QED BY <1>1, <1>2 DEF Context, KnownIn, SessionView

LEMMA ControlEventStep ==
    ASSUME Inv, NEW s \in Sessions, NEW r \in Requests, NEW v \in Values, apply_control_event(s, r, v)
    PROVE  Inv'
<1> DEFINE z == [session[s] EXCEPT !.value = v, !.control = @ + 1]
           x == [session |-> s, revision |-> session'[s].revision, doc |-> session'[s].doc,
                 control |-> session'[s].control, value |-> session'[s].value]
           q == [op |-> "update", session |-> s, restart |-> FALSE, context |-> x]
<1>1. session[s] \in SessionView /\ session[s].control \in Nat
  BY ViewFields DEF Inv
<1>2. session' = [session EXCEPT ![s] = z]
  <2>1. session' = [session EXCEPT ![s].value = v, ![s].control = @ + 1]
    BY DEF apply_control_event
  <2>2. session \in [Sessions -> SessionView]
    BY DEF Inv, Types
  <2> QED BY <2>1, <2>2 DEF SessionView
<1>3. /\ z \in SessionView /\ z.revision = session[s].revision /\ z.doc = session[s].doc
      /\ z.control = session[s].control + 1 /\ z.loaded = session[s].loaded
  <2> DEFINE n == session[s].control + 1
             y == session[s]
  <2>1. y \in SessionView /\ n \in Nat /\ z = [[y EXCEPT !.value = v] EXCEPT !.control = n]
    BY <1>1
  <2> HIDE DEF n, y, z
  <2>2. z \in SessionView /\ z.revision = y.revision /\ z.doc = y.doc /\ z.control = n /\ z.loaded = y.loaded
    BY <2>1 DEF SessionView
  <2> QED BY <2>2 DEF n, y
<1>4. session' \in [Sessions -> SessionView]
      /\ \A t \in Sessions : session'[t] = IF t = s THEN z ELSE session[t]
  BY <1>2, <1>3 DEF Inv, Types
<1> HIDE DEF z
<1>5. Forward(session, session')
  BY <1>1, <1>3, <1>4 DEF Forward
<1>6. \A y \in Context : KnownIn(session, y) => KnownIn(session', y)
  BY <1>4, <1>5, KnownKept DEF Inv, Types
<1>7. session'[s].revision >= 1
  BY <1>3, <1>4 DEF Inv, LoadedInv, apply_control_event
<1>8. x \in Context /\ KnownIn(session', x) /\ x.session = s
  BY <1>4, <1>7, CaptureFacts
<1>9. request[r] = None /\ request' = [request EXCEPT ![r] = q] /\ UNCHANGED <<sessionVars, raced>>
  BY DEF apply_control_event, Free, Capture
<1> HIDE DEF x
<1>10. q \in Request /\ q.op = "update" /\ q.context = x /\ q.session = s
  BY <1>8 DEF Request
<1> HIDE DEF q
<1>11. DOMAIN request' = Requests /\ \A j \in Requests : request'[j] = IF j = r THEN q ELSE request[j]
  BY <1>9 DEF Inv, Types
<1>12. Types'
  BY <1>4, <1>9, <1>10, <1>11 DEF Inv, Types, sessionVars
<1>13. RequestInv'
  <2> SUFFICES ASSUME NEW j \in Requests, request'[j] # None
               PROVE  request'[j].context # None \/ request'[j].op = "update" =>
                        /\ request'[j].context \in Context
                        /\ KnownIn(session', request'[j].context)
                        /\ request'[j].context.session = request'[j].session
    BY DEF RequestInv, Known
  <2>1. CASE j = r
    BY <1>8, <1>10, <1>11, <2>1
  <2>2. CASE j # r
    <3>1. request'[j] = request[j]
      BY <1>11, <2>2
    <3> QED BY <1>6, <3>1 DEF Inv, RequestInv, Known
  <2> QED BY <2>1, <2>2
<1>14. PoolInv(preview, handle, child, files, starts, lost)'
  <2>1. PoolInv(preview', handle', child', files', starts', lost')
    BY <1>9 DEF Inv, sessionVars
  <2> QED BY <1>6, <1>12, <2>1, PoolKept DEF Inv
<1>15. LoadedInv'
  BY <1>3, <1>4, <1>7 DEF Inv, LoadedInv
<1>16. ClearedInv'
  <2>1. \A t \in Sessions : session'[t].loaded = session[t].loaded
    BY <1>3, <1>4
  <2>2. \A t \in Sessions : Under(t, "clear")' => Under(t, "clear")
    BY <1>10, <1>11 DEF Under, InFlight
  <2>3. \A j \in Requests : InFlight(j, "start")' => request'[j] = request[j]
    BY <1>10, <1>11 DEF InFlight
  <2>4. raced' = raced /\ handle' = handle
    BY <1>9 DEF sessionVars
  <2> QED BY <2>1, <2>2, <2>3, <2>4, ClearedKept DEF Inv
<1> QED BY <1>12, <1>13, <1>14, <1>15, <1>16 DEF Inv

LEMMA BeginStartStep ==
    ASSUME Inv, NEW s \in Sessions, NEW r \in Requests, NEW restart \in BOOLEAN, BeginStart(s, r, restart)
    PROVE  Inv'
<1> DEFINE x == preview_context(s)
           q == [op |-> "start", session |-> s, restart |-> restart, context |-> x]
<1>1. /\ request[r] = None /\ request' = [request EXCEPT ![r] = q] /\ session' = session
      /\ raced' = (IF Under(s, "clear") THEN raced \cup {s} ELSE raced)
      /\ UNCHANGED sessionVars
  BY DEF BeginStart, Free
<1>2. /\ x = None \/ (x \in Context /\ Known(x) /\ x.session = s)
      /\ ~session[s].loaded => x = None
  <2>1. CASE session[s].loaded /\ session[s].planned
    <3>1. session[s].revision >= 1 /\ session \in [Sessions -> SessionView]
      BY <2>1 DEF Inv, LoadedInv, Types
    <3> QED BY <2>1, <3>1, CaptureFacts DEF preview_context, Capture, Known
  <2>2. CASE ~(session[s].loaded /\ session[s].planned)
    BY <2>2 DEF preview_context
  <2> QED BY <2>1, <2>2
<1> HIDE DEF x
<1>3. q \in Request /\ q.op = "start" /\ q.context = x /\ q.session = s
  BY <1>2 DEF Request
<1> HIDE DEF q
<1>4. DOMAIN request' = Requests /\ \A j \in Requests : request'[j] = IF j = r THEN q ELSE request[j]
  BY <1>1 DEF Inv, Types
<1>5. Types'
  BY <1>1, <1>3, <1>4 DEF Inv, Types, sessionVars
<1>6. RequestInv'
  BY <1>1, <1>2, <1>3, <1>4 DEF Inv, RequestInv, Known
<1>7. PoolInv(preview, handle, child, files, starts, lost)'
  <2>1. PoolInv(preview', handle', child', files', starts', lost')
    BY <1>1 DEF Inv, sessionVars
  <2> QED BY <1>1, <1>5, <2>1, PoolKept DEF Inv
<1>8. LoadedInv'
  BY <1>1 DEF Inv, LoadedInv
<1>9. ClearedInv'
  <2> SUFFICES ASSUME NEW t \in Sessions, t \notin raced', ~session'[t].loaded \/ Under(t, "clear")'
               PROVE  /\ handle'[t] = None
                      /\ \A j \in Requests : InFlight(j, "start")' /\ request'[j].session = t =>
                           request'[j].context = None
    BY DEF ClearedInv
  <2>1. Under(t, "clear")' => Under(t, "clear")
    BY <1>3, <1>4 DEF Under, InFlight
  <2>2. t \notin raced /\ (~session[t].loaded \/ Under(t, "clear"))
    BY <1>1, <2>1
  <2>3. /\ handle[t] = None
        /\ \A j \in Requests : InFlight(j, "start") /\ request[j].session = t => request[j].context = None
    BY <2>2 DEF Inv, ClearedInv
  <2>4. t = s => ~session[s].loaded
    BY <1>1, <2>2
  <2>5. \A j \in Requests : InFlight(j, "start")' /\ request'[j].session = t => request'[j].context = None
    BY <1>2, <1>3, <1>4, <2>3, <2>4 DEF InFlight
  <2> QED BY <1>1, <2>3, <2>5 DEF sessionVars
<1> QED BY <1>5, <1>6, <1>7, <1>8, <1>9 DEF Inv

LEMMA FinishStartStep ==
    ASSUME Inv, NEW r \in Requests, FinishStart(r)
    PROVE  Inv'
<1> DEFINE s == request[r].session
           c == request[r].context
<1>1. /\ InFlight(r, "start") /\ starts < MaxStarts /\ session' = session /\ raced' = raced
      /\ request' = [request EXCEPT ![r] = None]
  BY DEF FinishStart, Done
<1>2. request[r] # None /\ request[r].op = "start" /\ request[r] \in Request /\ s \in Sessions
  BY <1>1 DEF InFlight, Inv, Types, Request
<1>3. /\ request[r].restart \in BOOLEAN /\ c \in Context \cup {None}
      /\ c # None => c \in Context /\ Known(c) /\ c.session = s
  BY <1>2 DEF Inv, RequestInv, Request
<1>4. PICK m \in start(Manager(s), c, request[r].restart) : Commit(s, m)
  BY DEF FinishStart
<1>5. Good(s, m) /\ (c = None => m.handle \in {handle[s], None})
  <2>1. Good(s, Manager(s)) /\ Manager(s).handle = handle[s] /\ Manager(s).starts = starts
    BY <1>2, ManagerGood
  <2> HIDE DEF s, c
  <2> QED BY <1>1, <1>2, <1>3, <1>4, <2>1, StartGood DEF Inv
<1>6. DOMAIN request' = Requests /\ \A j \in Requests : request'[j] = IF j = r THEN None ELSE request[j]
  BY <1>1 DEF Inv, Types
<1>7. /\ Types'
      /\ PoolInv(preview, handle, child, files, starts, lost)'
      /\ \A t \in Sessions : handle'[t] = IF t = s THEN m.handle ELSE handle[t]
  BY <1>1, <1>2, <1>4, <1>5, <1>6, CommitGood DEF Inv, Types
<1>8. RequestInv'
  BY <1>1, <1>6, RequestsKept DEF Inv
<1>9. LoadedInv'
  BY <1>1 DEF Inv, LoadedInv
<1>10. ClearedInv'
  <2>1. \A t \in Sessions : Under(t, "clear")' => Under(t, "clear")
    BY <1>6 DEF Under, InFlight
  <2>2. \A j \in Requests : InFlight(j, "start")' => request'[j] = request[j]
    BY <1>6 DEF InFlight
  <2>3. ASSUME NEW t \in Sessions, t \notin raced', ~session'[t].loaded \/ Under(t, "clear")'
        PROVE  /\ t \notin raced /\ (~session[t].loaded \/ Under(t, "clear"))
               /\ handle'[t] \in {handle[t], None}
    <3>1. t \notin raced /\ (~session[t].loaded \/ Under(t, "clear"))
      BY <1>1, <2>1, <2>3
    <3>2. t = s => c = None
      BY <1>1, <3>1 DEF Inv, ClearedInv
    <3> QED BY <1>5, <1>7, <3>1, <3>2
  <2> QED BY <2>2, <2>3, ClearedKept DEF Inv
<1> QED BY <1>7, <1>8, <1>9, <1>10 DEF Inv

LEMMA FinishUpdateStep ==
    ASSUME Inv, NEW r \in Requests, FinishUpdate(r)
    PROVE  Inv'
<1> DEFINE s == request[r].session
           c == request[r].context
<1>1. /\ InFlight(r, "update") /\ session' = session /\ raced' = raced
      /\ request' = [request EXCEPT ![r] = None]
  BY DEF FinishUpdate, Done
<1>2. request[r] # None /\ request[r].op = "update" /\ request[r] \in Request /\ s \in Sessions
  BY <1>1 DEF InFlight, Inv, Types, Request
<1>3. c \in Context /\ Known(c) /\ c.session = s
  BY <1>2 DEF Inv, RequestInv
<1>4. PICK m \in update_control_state(Manager(s), c) : Commit(s, m)
  BY DEF FinishUpdate
<1>6. Good(s, m) /\ m.handle \in {handle[s], None}
  <2>1. Good(s, Manager(s)) /\ Manager(s).handle = handle[s]
    BY <1>2, ManagerGood
  <2> HIDE DEF s, c
  <2> QED BY <1>2, <1>3, <1>4, <2>1, UpdateGood DEF Inv
<1>7. DOMAIN request' = Requests /\ \A j \in Requests : request'[j] = IF j = r THEN None ELSE request[j]
  BY <1>1 DEF Inv, Types
<1>8. /\ Types'
      /\ PoolInv(preview, handle, child, files, starts, lost)'
      /\ \A t \in Sessions : handle'[t] = IF t = s THEN m.handle ELSE handle[t]
  BY <1>1, <1>2, <1>4, <1>6, <1>7, CommitGood DEF Inv, Types
<1>9. RequestInv'
  BY <1>1, <1>7, RequestsKept DEF Inv
<1>10. LoadedInv'
  BY <1>1 DEF Inv, LoadedInv
<1>11. ClearedInv'
  <2>1. \A t \in Sessions : Under(t, "clear")' => Under(t, "clear")
    BY <1>7 DEF Under, InFlight
  <2>2. \A j \in Requests : InFlight(j, "start")' => request'[j] = request[j]
    BY <1>7 DEF InFlight
  <2>3. \A t \in Sessions : handle'[t] \in {handle[t], None}
    BY <1>6, <1>8
  <2> QED BY <1>1, <2>1, <2>2, <2>3, ClearedKept DEF Inv
<1> QED BY <1>8, <1>9, <1>10, <1>11 DEF Inv

\* Stopping the preview and asking for its status.
LEMMA StatusStep ==
    ASSUME Inv, NEW s \in Sessions, stop_preview(s) \/ preview_status(s)
    PROVE  Inv'
<1>1. session' = session /\ request' = request /\ raced' = raced
  BY DEF stop_preview, preview_status
<1>2. PICK m \in stop_current(Manager(s)) \cup poll(Manager(s)) : Commit(s, m)
  BY DEF stop_preview, preview_status
<1>3. Good(s, m) /\ m.handle \in {handle[s], None}
  <2>1. Good(s, Manager(s)) /\ Manager(s).handle = handle[s]
    BY ManagerGood
  <2> QED BY <1>2, <2>1, StopGood, PollGood DEF Inv
<1>4. /\ Types'
      /\ PoolInv(preview, handle, child, files, starts, lost)'
      /\ \A t \in Sessions : handle'[t] = IF t = s THEN m.handle ELSE handle[t]
  BY <1>1, <1>2, <1>3, CommitGood DEF Inv, Types
<1>5. RequestInv' /\ LoadedInv'
  BY <1>1 DEF Inv, RequestInv, LoadedInv, Known
<1>6. ClearedInv'
  BY <1>1, <1>3, <1>4 DEF Inv, ClearedInv, Under, InFlight
<1> QED BY <1>4, <1>5, <1>6 DEF Inv

LEMMA BeginClearStep ==
    ASSUME Inv, NEW s \in Sessions, NEW r \in Requests, BeginClear(s, r)
    PROVE  Inv'
<1> DEFINE q == [op |-> "clear", session |-> s, restart |-> FALSE, context |-> None]
<1>1. /\ request[r] = None /\ request' = [request EXCEPT ![r] = q] /\ session' = session
      /\ raced' = (IF Under(s, "start") THEN raced \cup {s} ELSE raced \ {s})
  BY DEF BeginClear, Free
<1>2. PICK m \in stop_current(Manager(s)) : Commit(s, m)
  BY DEF BeginClear
<1>3. Good(s, m) /\ m.handle = None
  BY <1>2, ManagerGood, StopGood DEF Inv
<1>4. q \in Request /\ q.op = "clear" /\ q.context = None /\ q.session = s
  BY DEF Request
<1> HIDE DEF q
<1>5. DOMAIN request' = Requests /\ \A j \in Requests : request'[j] = IF j = r THEN q ELSE request[j]
  BY <1>1 DEF Inv, Types
<1>6. /\ Types'
      /\ PoolInv(preview, handle, child, files, starts, lost)'
      /\ \A t \in Sessions : handle'[t] = IF t = s THEN None ELSE handle[t]
  BY <1>1, <1>2, <1>3, <1>4, <1>5, CommitGood DEF Inv, Types
<1>7. RequestInv' /\ LoadedInv'
  BY <1>1, <1>4, <1>5 DEF Inv, RequestInv, LoadedInv, Known
<1>8. ClearedInv'
  <2> SUFFICES ASSUME NEW t \in Sessions, t \notin raced', ~session'[t].loaded \/ Under(t, "clear")'
               PROVE  /\ handle'[t] = None
                      /\ \A j \in Requests : InFlight(j, "start")' /\ request'[j].session = t =>
                           request'[j].context = None
    BY DEF ClearedInv
  <2>1. \A j \in Requests : InFlight(j, "start")' => InFlight(j, "start") /\ request'[j] = request[j]
    BY <1>4, <1>5 DEF InFlight
  <2>2. CASE t = s
    <3>1. ~Under(s, "start")
      BY <1>1, <2>2
    <3> QED BY <1>6, <2>1, <2>2, <3>1 DEF Under
  <2>3. CASE t # s
    <3>1. Under(t, "clear")' => Under(t, "clear")
      BY <1>4, <1>5, <2>3 DEF Under, InFlight
    <3>2. t \notin raced /\ (~session[t].loaded \/ Under(t, "clear"))
      BY <1>1, <2>3, <3>1
    <3> QED BY <1>6, <2>1, <2>3, <3>2 DEF Inv, ClearedInv
  <2> QED BY <2>2, <2>3
<1> QED BY <1>6, <1>7, <1>8 DEF Inv

LEMMA FinishClearStep ==
    ASSUME Inv, NEW r \in Requests, FinishClear(r)
    PROVE  Inv'
<1> DEFINE s == request[r].session
           z == [session[s] EXCEPT !.loaded = FALSE, !.planned = FALSE, !.revision = @ + 1,
                                   !.control = 0, !.value = Default]
<1>1. /\ InFlight(r, "clear") /\ session[s].revision < MaxRevision
      /\ request' = [request EXCEPT ![r] = None] /\ UNCHANGED <<sessionVars, raced>>
      /\ session' = [session EXCEPT ![s].loaded = FALSE, ![s].planned = FALSE, ![s].revision = @ + 1,
                                    ![s].control = 0, ![s].value = Default]
  BY DEF FinishClear, Room, Done
<1>2. request[r] # None /\ s \in Sessions
  BY <1>1 DEF InFlight, Inv, Types, Request
<1> HIDE DEF s
<1>3. z \in SessionView /\ z.revision = session[s].revision + 1 /\ z.loaded = FALSE
  <2> DEFINE n == session[s].revision + 1
             y == session[s]
  <2>1. y \in SessionView /\ n \in 0 .. MaxRevision /\ Default \in Values /\ y.revision + 1 = n
    BY <1>1, <1>2, ViewFields, Constants DEF Inv
  <2>2. z = [[[[[y EXCEPT !.loaded = FALSE] EXCEPT !.planned = FALSE] EXCEPT !.revision = n]
               EXCEPT !.control = 0] EXCEPT !.value = Default]
    OBVIOUS
  <2> HIDE DEF n, y, z
  <2>3. z \in SessionView /\ z.revision = n /\ z.loaded = FALSE
    BY <2>1, <2>2 DEF SessionView
  <2> QED BY <2>3 DEF n
<1> HIDE DEF z
<1>4. session' \in [Sessions -> SessionView]
      /\ \A t \in Sessions : session'[t] = IF t = s THEN z ELSE session[t]
  <2>1. session \in [Sessions -> SessionView]
    BY DEF Inv, Types
  <2>2. session' = [session EXCEPT ![s] = z]
    BY <1>1, <1>2, <2>1 DEF z, SessionView
  <2> QED BY <1>2, <1>3, <2>1, <2>2
<1>5. \A x \in Context : KnownIn(session, x) => KnownIn(session', x)
  <2>1. session[s].revision < z.revision
    BY <1>2, <1>3, ViewFields DEF Inv
  <2>2. Forward(session, session')
    BY <1>4, <2>1 DEF Forward
  <2> QED BY <1>4, <2>2, KnownKept DEF Inv, Types
<1>6. DOMAIN request' = Requests /\ \A j \in Requests : request'[j] = IF j = r THEN None ELSE request[j]
  BY <1>1 DEF Inv, Types
<1>7. Types'
  BY <1>1, <1>4, <1>6 DEF Inv, Types, sessionVars
<1>8. RequestInv'
  BY <1>5, <1>6, RequestsKept DEF Inv
<1>9. PoolInv(preview, handle, child, files, starts, lost)'
  <2>1. PoolInv(preview', handle', child', files', starts', lost')
    BY <1>1 DEF Inv, sessionVars
  <2> QED BY <1>5, <1>7, <2>1, PoolKept DEF Inv
<1>10. LoadedInv'
  BY <1>3, <1>4 DEF Inv, LoadedInv
<1>11. ClearedInv'
  <2>1. \A t \in Sessions : Under(t, "clear")' => Under(t, "clear")
    BY <1>6 DEF Under, InFlight
  <2>2. \A j \in Requests : InFlight(j, "start")' => request'[j] = request[j]
    BY <1>6 DEF InFlight
  <2>3. raced' = raced /\ handle' = handle
    BY <1>1 DEF sessionVars
  <2>4. Under(s, "clear")
    BY <1>1 DEF Under, s
  <2>5. \A t \in Sessions : t # s => session'[t] = session[t]
    BY <1>4
  <2> QED BY <2>1, <2>2, <2>3, <2>4, <2>5, ClearedKept DEF Inv
<1> QED BY <1>7, <1>8, <1>9, <1>10, <1>11 DEF Inv

-----------------------------------------------------------------------------
(* The child process.                                                      *)

\* A living process that reads a file goes on with the same files, or dies.
LEMMA ChildStep ==
    ASSUME Inv, NEW c \in ChildIds, child[c].phase \in Alive, NEW k \in Process,
           child' = [child EXCEPT ![c] = k], UNCHANGED childVars,
           \/ k = Dead
           \/ /\ k.session = child[c].session /\ k.documentPath = child[c].documentPath
              /\ \/ k.document = child[c].document
                 \/ /\ k.document # None => Known(k.document)
                    /\ \A r \in 1 .. MaxRevision : (child[c].documentPath = preview_document_path(r) /\ k.document # None)
                         => k.document.revision = r
    PROVE  Inv'
<1> USE DEF childVars
<1>1. \A j \in ChildIds : child'[j] = IF j = c THEN k ELSE child[j]
  BY DEF Inv, Types
<1>2. Types'
  BY DEF Inv, Types
<1>3. child[c] # Unborn /\ child[c] # Dead
  BY UnbornDead
<1>4. ProcessInv(handle', child', starts', lost')
  <2>1. Dead.phase \notin Alive
    BY UnbornDead
  <2>2. \A j \in ChildIds : j > starts => child'[j] = Unborn
    BY <1>1, <1>3 DEF Inv, PoolInv, ProcessInv
  <2>3. \A j \in ChildIds : child'[j].phase \in Alive /\ j \notin lost =>
          child'[j].session \in Sessions /\ handle[child'[j].session] = j
    BY <1>1, <2>1 DEF Inv, PoolInv, ProcessInv
  <2> QED BY <2>2, <2>3 DEF ProcessInv
<1>5. ASSUME NEW t \in Sessions PROVE Holds(t, preview[t], handle[t], child', starts)
  <2>1. Holds(t, preview[t], handle[t], child, starts)
    BY DEF Inv, PoolInv
  <2>2. CASE handle[t] # c
    <3>1. handle[t] # None => child'[handle[t]] = child[handle[t]]
      BY <1>1, <2>2 DEF Inv, Types
    <3> QED BY <2>1, <3>1 DEF Holds
  <2>3. CASE handle[t] = c /\ k = Dead
    BY <1>1, <2>1, <2>3 DEF Holds
  <2>4. CASE handle[t] = c /\ k # Dead /\ c # None
    <3>1. child'[c] = k
      BY <1>1
    <3>2. /\ is_active(preview[t]) /\ c \in 1 .. starts
          /\ child[c].session = t /\ preview[t].revision \in 1 .. MaxRevision
          /\ child[c].documentPath = preview_document_path(preview[t].revision)
          /\ child[c].document # None =>
               Known(child[c].document) /\ child[c].document.revision = preview[t].revision
      BY <1>3, <2>1, <2>4 DEF Holds
    <3>3. k.session = t /\ k.documentPath = preview_document_path(preview[t].revision)
      BY <2>4, <3>2
    <3>4. k.document # None => Known(k.document) /\ k.document.revision = preview[t].revision
      BY <2>4, <3>2
    <3> QED BY <2>4, <3>1, <3>2, <3>3, <3>4 DEF Holds
  <2> QED BY <2>2, <2>3, <2>4, Constants
<1>6. PoolInv(preview', handle', child', files', starts', lost')
  BY <1>4, <1>5 DEF Inv, PoolInv
<1>7. PoolInv(preview, handle, child, files, starts, lost)'
  BY <1>2, <1>6, PoolKept DEF Inv
<1>8. RequestInv' /\ LoadedInv' /\ ClearedInv'
  BY DEF Inv, RequestInv, LoadedInv, ClearedInv, Known, Under, InFlight
<1> QED BY <1>2, <1>7, <1>8 DEF Inv

LEMMA ReadDocumentStep ==
    ASSUME Inv, NEW c \in ChildIds, read_document(c)
    PROVE  Inv'
<1> DEFINE d == files[child[c].documentPath]
           k == [child[c] EXCEPT !.phase = "reading", !.document = d]
<1>1. child[c].phase = "spawned" /\ child[c].phase \in Alive /\ UNCHANGED childVars
      /\ child' = [child EXCEPT ![c] = IF d = None THEN Dead ELSE k]
  BY DEF read_document, Alive
<1>2. child[c] \in Living
  BY <1>1, UnbornDead DEF Inv, Types, Process
<1>3. CASE d = None
  <2>1. child' = [child EXCEPT ![c] = Dead] /\ Dead \in Process
    BY <1>1, <1>3, UnbornDead
  <2> QED BY <1>1, <2>1, ChildStep
<1>4. CASE d # None
  <2>1. child[c].documentPath \in Paths
    BY <1>2 DEF Living
  <2>2. d \in Context /\ Known(d)
    BY <1>4, <2>1 DEF Inv, Types, PoolInv, FilesInv
  <2>3. \A r \in 1 .. MaxRevision : child[c].documentPath = preview_document_path(r) => d.revision = r
    BY <1>4 DEF Inv, PoolInv, FilesInv
  <2> HIDE DEF d
  <2>4. k \in Living /\ k.session = child[c].session /\ k.documentPath = child[c].documentPath /\ k.document = d
    BY <1>2, <2>2 DEF Living, Alive
  <2>5. child' = [child EXCEPT ![c] = k] /\ k \in Process
    BY <1>1, <1>4, <2>4 DEF Process
  <2> HIDE DEF k
  <2> QED BY <1>1, <2>2, <2>3, <2>4, <2>5, ChildStep
<1> QED BY <1>3, <1>4

LEMMA ReadControlStep ==
    ASSUME Inv, NEW c \in ChildIds, read_control_state(c) \/ reload_control_state(c)
    PROVE  Inv'
<1> DEFINE d == files[child[c].controlPath]
<1>1. child[c].phase \in {"reading", "showing"} /\ child[c].phase \in Alive /\ UNCHANGED childVars
  BY DEF read_control_state, reload_control_state, Alive
<1>2. child[c] \in Living
  BY <1>1, UnbornDead DEF Inv, Types, Process
<1>3. d \in Context \cup {None}
  BY <1>2 DEF Inv, Types, Living
<1> HIDE DEF d
<1>4. d # None => d.control \in Nat
  BY <1>3 DEF Context
<1>5. PICK n, x : child' = [child EXCEPT ![c] = [child[c] EXCEPT !.phase = "showing", !.control = n, !.shown = x]]
                  /\ n \in Nat \cup {None} /\ x \in Context \cup {None}
  <2>1. CASE read_control_state(c)
    <3>1. child' = [child EXCEPT ![c] = [child[c] EXCEPT !.phase = "showing",
                      !.control = IF d = None THEN None ELSE d.control,
                      !.shown = IF d = None THEN child[c].document ELSE d]]
      BY <1>2, <2>1 DEF read_control_state, d, Living, Inv, Types
    <3>2. (IF d = None THEN None ELSE d.control) \in Nat \cup {None}
          /\ (IF d = None THEN child[c].document ELSE d) \in Context \cup {None}
      BY <1>2, <1>3, <1>4 DEF Living
    <3> QED BY <3>1, <3>2
  <2>2. CASE reload_control_state(c)
    <3>1. d # None /\ child[c].phase = "showing"
      BY <2>2 DEF reload_control_state, d
    <3>2. child' = [child EXCEPT ![c] = [child[c] EXCEPT !.control = d.control, !.shown = d]]
      BY <1>2, <2>2 DEF reload_control_state, d, Living, Inv, Types
    <3>3. [child[c] EXCEPT !.control = d.control, !.shown = d]
            = [child[c] EXCEPT !.phase = "showing", !.control = d.control, !.shown = d]
      BY <1>2, <3>1 DEF Living
    <3> QED BY <1>3, <1>4, <3>1, <3>2, <3>3
  <2> QED BY <2>1, <2>2
<1> DEFINE k == [child[c] EXCEPT !.phase = "showing", !.control = n, !.shown = x]
<1>6. /\ k \in Living /\ k.session = child[c].session /\ k.documentPath = child[c].documentPath
      /\ k.document = child[c].document
  BY <1>2, <1>5 DEF Living, Alive
<1>7. child' = [child EXCEPT ![c] = k] /\ k \in Process
  BY <1>5, <1>6 DEF Process
<1> HIDE DEF k
<1> QED BY <1>1, <1>6, <1>7, ChildStep

LEMMA ExitStep ==
    ASSUME Inv, NEW c \in ChildIds, Exit(c)
    PROVE  Inv'
BY UnbornDead, ChildStep DEF Exit

LEMMA DayStep ==
    ASSUME Inv, DayPasses
    PROVE  Inv'
<1>1. Types'
  BY DEF Inv, Types, DayPasses
<1>2. PoolInv(preview', handle', child', files', starts', lost')
  BY DEF Inv, DayPasses
<1>3. PoolInv(preview, handle, child, files, starts, lost)'
  BY <1>1, <1>2, PoolKept DEF Inv, DayPasses
<1>4. RequestInv' /\ LoadedInv' /\ ClearedInv'
  BY DEF Inv, RequestInv, LoadedInv, ClearedInv, Known, Under, InFlight, DayPasses
<1> QED BY <1>1, <1>3, <1>4 DEF Inv

LEMMA StutterStep ==
    ASSUME Inv, UNCHANGED vars
    PROVE  Inv'
<1> USE DEF vars
<1>1. Types'
  BY DEF Inv, Types
<1>2. PoolInv(preview', handle', child', files', starts', lost')
  BY DEF Inv
<1>3. PoolInv(preview, handle, child, files, starts, lost)'
  BY <1>1, <1>2, PoolKept DEF Inv
<1>4. RequestInv' /\ LoadedInv' /\ ClearedInv'
  BY DEF Inv, RequestInv, LoadedInv, ClearedInv, Known, Under, InFlight
<1> QED BY <1>1, <1>3, <1>4 DEF Inv

LEMMA InitInv == Init => Inv
<1> SUFFICES ASSUME Init PROVE Inv
  OBVIOUS
<1>1. /\ \A s \in Sessions : session[s] = [loaded |-> FALSE, planned |-> FALSE, revision |-> 0,
                                           control |-> 0, doc |-> 0, value |-> Default]
      /\ \A s \in Sessions : preview[s] = Stopped /\ handle[s] = None
      /\ \A c \in ChildIds : child[c] = Unborn
      /\ \A p \in Paths : files[p] = None
      /\ \A r \in Requests : request[r] = None
      /\ starts = 0
  BY DEF Init
<1>2. Types
  <2>1. [loaded |-> FALSE, planned |-> FALSE, revision |-> 0, control |-> 0, doc |-> 0, value |-> Default]
          \in SessionView
    BY Constants DEF SessionView
  <2>2. session \in [Sessions -> SessionView] /\ preview \in [Sessions -> Status]
    BY <2>1, UnbornDead DEF Init
  <2>3. handle \in [Sessions -> ChildIds \cup {None}] /\ child \in [ChildIds -> Process]
    BY UnbornDead DEF Init
  <2>4. files \in [Paths -> Context \cup {None}] /\ old \in SUBSET Paths /\ starts \in 0 .. MaxStarts
        /\ lost \in SUBSET (ChildIds \cup {None}) /\ overwritten \in SUBSET ChildIds
        /\ DOMAIN request = Requests
    BY Constants DEF Init
  <2> QED BY <1>1, <2>2, <2>3, <2>4 DEF Types
<1>3. LoadedInv /\ RequestInv /\ ClearedInv
  BY <1>1 DEF LoadedInv, RequestInv, ClearedInv, InFlight
<1>4. PoolInv(preview, handle, child, files, starts, lost)
  <2>1. ProcessInv(handle, child, starts, lost)
    BY <1>1, UnbornDead DEF ProcessInv
  <2>2. \A s \in Sessions : Holds(s, preview[s], handle[s], child, starts) /\ Reports(s, preview[s], files, starts)
    BY <1>1, UnbornDead DEF Holds, Reports
  <2>3. Apart(preview)
    BY <1>1, UnbornDead DEF Apart
  <2>4. FilesInv(files)
    BY <1>1, Constants DEF FilesInv
  <2> QED BY <2>1, <2>2, <2>3, <2>4 DEF PoolInv
<1> QED BY <1>2, <1>3, <1>4 DEF Inv

-----------------------------------------------------------------------------
(* Whose document a process reads.                                         *)

\* Session t's process, unless overwritten, finds and has the document of t.
Own(t, h, C, F, O) ==
    h # None /\ h \notin O =>
      /\ C[h].phase = "spawned" /\ F[C[h].documentPath] # None => F[C[h].documentPath].session = t
      /\ C[h].document # None => C[h].document.session = t

OwnInv == \A t \in Sessions : Own(t, handle[t], child, files, overwritten)

\* The same of the state a method of the manager of s works on.
Owned(s, m) ==
    /\ Own(s, m.handle, m.child, m.files, m.overwritten)
    /\ \A t \in Sessions \ {s} : Own(t, handle[t], m.child, m.files, m.overwritten)

LEMMA SpawnedReads ==
    ASSUME NEW k \in Process, k.phase = "spawned"
    PROVE  k.documentPath \in Paths
BY UnbornDead DEF Process, Living

\* Processes that end, files that go and handles that are given up leave the
\* others with their own.
LEMMA OwnedFades ==
    ASSUME Types, NEW s \in Sessions, NEW m \in ManagerState, Owned(s, m), NEW q,
           q.handle \in {m.handle, None}, q.overwritten = m.overwritten,
           \A p \in Paths : q.files[p] \in {m.files[p], None},
           \A c \in ChildIds : q.child[c] \in {m.child[c], Dead}
    PROVE  Owned(s, q)
<1>1. ASSUME NEW t \in Sessions, NEW h \in ChildIds \cup {None}, Own(t, h, m.child, m.files, m.overwritten)
      PROVE  Own(t, h, q.child, q.files, q.overwritten)
  <2> SUFFICES ASSUME h \in ChildIds, h \notin m.overwritten
               PROVE  Own(t, h, q.child, q.files, q.overwritten)
    BY DEF Own
  <2>1. CASE q.child[h] = Dead
    BY <2>1, UnbornDead DEF Own
  <2>2. CASE q.child[h] = m.child[h]
    <3>1. m.child[h] \in Process
      BY DEF ManagerState
    <3>2. m.child[h].phase = "spawned" => q.files[m.child[h].documentPath] \in {m.files[m.child[h].documentPath], None}
      BY <3>1, SpawnedReads
    <3> QED BY <1>1, <2>2, <3>2, Constants DEF Own
  <2> QED BY <2>1, <2>2
<1>2. m.handle \in ChildIds \cup {None} /\ \A t \in Sessions : handle[t] \in ChildIds \cup {None}
  BY DEF ManagerState, Types
<1>3. Own(s, None, q.child, q.files, q.overwritten)
  BY DEF Own
<1> QED BY <1>1, <1>2, <1>3 DEF Owned

LEMMA PollOwned ==
    ASSUME Types, NEW s \in Sessions, NEW m \in ManagerState, Owned(s, m), NEW q \in poll(m)
    PROVE  Owned(s, q)
<1>1. /\ q.handle \in {m.handle, None} /\ q.overwritten = m.overwritten
      /\ q.files = m.files /\ q.child = m.child
  BY DEF poll, Failures, Failed, ManagerState
<1> QED BY <1>1, OwnedFades

LEMMA RemoveOwned ==
    ASSUME Types, NEW s \in Sessions, NEW m \in ManagerState, Owned(s, m), NEW paths
    PROVE  Owned(s, RemoveFiles(m, paths))
<1> DEFINE q == RemoveFiles(m, paths)
<1>1. /\ q.handle = m.handle /\ q.overwritten = m.overwritten /\ q.child = m.child
      /\ \A p \in Paths : q.files[p] \in {m.files[p], None}
  BY DEF RemoveFiles, ManagerState
<1> HIDE DEF q
<1>2. Owned(s, q)
  BY <1>1, OwnedFades
<1> QED BY <1>2 DEF q

LEMMA StopOwned ==
    ASSUME Types, NEW s \in Sessions, NEW m, Good(s, m), Owned(s, m), NEW q \in stop_current(m)
    PROVE  Owned(s, q)
<1> DEFINE gone(p) == RemoveFiles(p, {p.status.controlPath, p.status.documentPath})
           removed(p) == [gone(p) EXCEPT !.status = Stopped, !.handle = None]
<1>1. PICK p \in poll(m) : IF p.handle = None THEN q = removed(p)
                           ELSE q = removed(Kill(p)) \/ q = Failed(p) \/ q = Failed(Kill(p))
  BY DEF stop_current, Failures
<1>2. p \in ManagerState /\ Owned(s, p) /\ Good(s, p)
  BY PollGood, PollOwned DEF Good
<1>3. ASSUME NEW k \in ManagerState, Owned(s, k) PROVE Owned(s, removed(k)) /\ Owned(s, Failed(k))
  <2>1. /\ removed(k).handle = None /\ removed(k).overwritten = k.overwritten /\ removed(k).child = k.child
        /\ \A x \in Paths : removed(k).files[x] \in {k.files[x], None}
    BY DEF RemoveFiles, ManagerState
  <2>2. /\ Failed(k).handle = None /\ Failed(k).overwritten = k.overwritten /\ Failed(k).child = k.child
        /\ Failed(k).files = k.files
    BY DEF Failed, ManagerState
  <2> HIDE DEF removed
  <2>3. Owned(s, removed(k))
    BY <1>3, <2>1, OwnedFades
  <2>4. Owned(s, Failed(k))
    BY <1>3, <2>2, OwnedFades
  <2> QED BY <2>3, <2>4
<1> HIDE DEF removed
<1>4. ASSUME p.handle # None PROVE Kill(p) \in ManagerState /\ Owned(s, Kill(p))
  <2>1. Good(s, Kill(p))
    BY <1>2, <1>4, KillGood
  <2>2. /\ Kill(p).handle = p.handle /\ Kill(p).overwritten = p.overwritten /\ Kill(p).files = p.files
        /\ \A c \in ChildIds : Kill(p).child[c] \in {p.child[c], Dead}
    BY <1>2 DEF Kill, ManagerState
  <2>3. Owned(s, Kill(p))
    BY <1>2, <2>2, OwnedFades
  <2> QED BY <2>1, <2>3 DEF Good
<1> QED BY <1>1, <1>2, <1>3, <1>4

\* A start writes the document of its own session; a process of another one
\* that was about to read that file counts as overwritten.
LEMMA LaunchOwned ==
    ASSUME Types, NEW s \in Sessions, NEW m, Good(s, m), Owned(s, m), m.handle = None, m.starts < MaxStarts,
           NEW c \in Context, c.session = s, NEW q \in launch(m, c)
    PROVE  Owned(s, q)
<1> DEFINE n == m.starts + 1
           cp == preview_control_state_path(n)
           dp == preview_document_path(c.revision)
           F1 == [m.files EXCEPT ![cp] = c]
           F2 == [F1 EXCEPT ![dp] = c]
           replaced == {k \in ChildIds : /\ m.child[k].phase = "spawned"
                                         /\ m.child[k].documentPath = dp
                                         /\ m.child[k].session # c.session}
           process == [Unborn EXCEPT !.phase = "spawned", !.session = c.session,
                                     !.controlPath = cp, !.documentPath = dp]
<1>1. m \in ManagerState /\ c.revision \in 1 .. MaxRevision
  BY DEF Good, Context
<1>2. n \in 1 .. MaxStarts /\ n \in ChildIds /\ n # None /\ m.starts < n /\ m.starts \in Nat
  BY <1>1, Constants DEF ManagerState, ChildIds
<1>3. cp \in Paths /\ dp \in Paths /\ cp # dp
  BY <1>1, <1>2, Constants
<1>4. \/ /\ q.handle = None /\ q.child = m.child
         /\ \/ q.files \in {m.files, F1} /\ q.overwritten = m.overwritten
            \/ q.files = F2 /\ q.overwritten = m.overwritten \cup replaced
      \/ /\ q.handle = n /\ q.child = [m.child EXCEPT ![n] = process]
         /\ q.files = F2 /\ q.overwritten = m.overwritten \cup replaced
  <2> DEFINE begun == [m EXCEPT !.starts = n, !.status = starting_status(c, cp)]
             written == WriteFile(begun, cp, c)
             documented == [WriteFile(written, dp, c) EXCEPT !.overwritten = @ \cup replaced]
             spawned == [documented EXCEPT !.status.state = "running", !.handle = n,
                                           !.status.documentPath = dp, !.child[n] = process]
  <2>1. q = spawned \/ \E w \in {begun, written, documented} : q = [w EXCEPT !.status.state = "error"]
    BY DEF launch
  <2> HIDE DEF n, cp, dp, replaced, process
  <2>2. begun.handle = None /\ begun.child = m.child /\ begun.files = m.files /\ begun.overwritten = m.overwritten
    BY <1>1 DEF ManagerState
  <2>3. written.handle = None /\ written.child = m.child /\ written.files = F1 /\ written.overwritten = m.overwritten
    BY <1>1 DEF ManagerState, WriteFile
  <2>4. /\ documented.handle = None /\ documented.child = m.child
        /\ documented.files = F2 /\ documented.overwritten = m.overwritten \cup replaced
    BY <1>1 DEF ManagerState, WriteFile
  <2>5. /\ spawned.handle = n /\ spawned.child = [m.child EXCEPT ![n] = process]
        /\ spawned.files = F2 /\ spawned.overwritten = m.overwritten \cup replaced
    BY <1>1 DEF ManagerState, WriteFile
  <2>6. ASSUME NEW w \in {begun, written, documented}, q = [w EXCEPT !.status.state = "error"]
        PROVE  q.handle = w.handle /\ q.child = w.child /\ q.files = w.files /\ q.overwritten = w.overwritten
    BY <1>1, <2>6 DEF ManagerState, WriteFile
  <2> HIDE DEF begun, written, documented, spawned
  <2> QED BY <2>1, <2>2, <2>3, <2>4, <2>5, <2>6
<1> HIDE DEF n, process
<1>5. /\ \A p \in Paths : F2[p] = IF p \in {cp, dp} THEN c ELSE m.files[p]
      /\ \A p \in Paths : F1[p] = IF p = cp THEN c ELSE m.files[p]
  <2> HIDE DEF cp, dp
  <2> QED BY <1>1, <1>3 DEF ManagerState
<1> HIDE DEF F1, F2, replaced
<1>6. ASSUME NEW t \in Sessions \ {s}, handle[t] # None
      PROVE  /\ handle[t] \in ChildIds /\ handle[t] # n /\ m.child[handle[t]] \in Process
             /\ Own(t, handle[t], m.child, m.files, m.overwritten)
             /\ m.child[handle[t]].phase = "spawned" =>
                  /\ m.child[handle[t]].session = t
                  /\ m.child[handle[t]].documentPath \in Paths \ {cp}
  <2>1. Holds(t, preview[t], handle[t], m.child, m.starts)
    BY <1>1, GoodParts
  <2>2. handle[t] \in 1 .. m.starts /\ handle[t] \in ChildIds /\ m.child[handle[t]] \in Process
    BY <1>1, <1>6, <2>1 DEF Holds, ManagerState, Types
  <2>3. ASSUME m.child[handle[t]].phase = "spawned"
        PROVE  m.child[handle[t]].session = t /\ m.child[handle[t]].documentPath \in Paths \ {cp}
    <3>1. m.child[handle[t]] # Dead
      BY <2>3, UnbornDead
    <3> QED BY <1>6, <2>1, <2>2, <2>3, <3>1, SpawnedReads, Constants DEF Holds
  <2> QED BY <1>2, <2>2, <2>3 DEF Owned
<1>7. ASSUME NEW t \in Sessions \ {s} PROVE Own(t, handle[t], q.child, q.files, q.overwritten)
  <2> SUFFICES ASSUME handle[t] # None, handle[t] \notin q.overwritten
               PROVE  Own(t, handle[t], q.child, q.files, q.overwritten)
    BY DEF Own
  <2> DEFINE k == m.child[handle[t]]
  <2>1. q.child[handle[t]] = k /\ handle[t] \notin m.overwritten
    BY <1>1, <1>4, <1>6 DEF ManagerState
  <2>2. Own(t, handle[t], m.child, m.files, m.overwritten)
    BY <1>6
  <2>3. ASSUME k.phase = "spawned" PROVE q.files[k.documentPath] = m.files[k.documentPath]
    <3>1. k.session = t /\ k.documentPath \in Paths \ {cp} /\ handle[t] \in ChildIds /\ t # c.session
      BY <1>6, <2>3
    <3>2. handle[t] \in m.overwritten \cup replaced \/ k.documentPath # dp
      BY <2>3, <3>1 DEF replaced
    <3>3. q.files \in {m.files, F1} \/ (q.files = F2 /\ k.documentPath # dp)
      BY <1>4, <3>2
    <3> HIDE DEF k
    <3> QED BY <1>5, <3>1, <3>3
  <2> QED BY <2>1, <2>2, <2>3 DEF Own
<1>8. Own(s, q.handle, q.child, q.files, q.overwritten)
  <2>1. CASE q.handle = None
    BY <2>1 DEF Own
  <2>2. CASE q.handle = n /\ q.child = [m.child EXCEPT ![n] = process] /\ q.files = F2
    <3>1. q.child[n] = process
      BY <1>1, <1>2, <2>2 DEF ManagerState
    <3>2. process.documentPath = dp /\ process.document = None
      BY DEF process, Unborn
    <3>3. F2[dp] = c
      BY <1>3, <1>5
    <3> QED BY <2>2, <3>1, <3>2, <3>3 DEF Own
  <2> QED BY <1>4, <2>1, <2>2
<1> QED BY <1>7, <1>8 DEF Owned

LEMMA StartOwned ==
    ASSUME Types, NEW s \in Sessions, NEW m, Good(s, m), Owned(s, m), m.starts < MaxStarts,
           NEW c, c # None => c \in Context /\ Known(c) /\ c.session = s,
           NEW restart \in BOOLEAN, NEW q \in start(m, c, restart)
    PROVE  Owned(s, q)
<1> DEFINE clean(p) == cleanup_stale_preview_files(p)
<1>1. PICK p \in poll(m) :
        IF is_active(p.status) /\ ~restart THEN q = p
        ELSE \E w \in IF restart THEN stop_current(clean(p)) ELSE {clean(p)} :
               IF c = None THEN q = w ELSE q \in launch(w, c)
  BY DEF start
<1>2. Good(s, p) /\ p.starts = m.starts /\ p \in ManagerState /\ Owned(s, p)
  BY PollGood, PollOwned DEF Good
<1>3. CASE is_active(p.status) /\ ~restart
  BY <1>1, <1>2, <1>3
<1>4. CASE ~(is_active(p.status) /\ ~restart)
  <2>1. PICK w \in IF restart THEN stop_current(clean(p)) ELSE {clean(p)} :
               IF c = None THEN q = w ELSE q \in launch(w, c)
    BY <1>1, <1>4
  <2>2. /\ Good(s, clean(p)) /\ clean(p).handle = p.handle /\ clean(p).starts = p.starts
        /\ clean(p).status = p.status /\ Owned(s, clean(p))
    BY <1>2, RemoveGood, RemoveOwned DEF cleanup_stale_preview_files
  <2> HIDE DEF clean
  <2>3. Good(s, w) /\ w.handle = None /\ w.starts = m.starts /\ Owned(s, w)
    <3>1. CASE restart
      BY <1>2, <2>1, <2>2, <3>1, StopGood, StopOwned
    <3>2. CASE ~restart
      <4>1. w = clean(p) /\ ~is_active(p.status)
        BY <1>4, <2>1, <3>2
      <4>2. Holds(s, p.status, p.handle, p.child, p.starts)
        BY <1>2, GoodParts DEF Good
      <4> QED BY <1>2, <2>2, <4>1, <4>2 DEF Holds
    <3> QED BY <3>1, <3>2
  <2>4. CASE c = None
    BY <2>1, <2>3, <2>4
  <2>5. CASE c # None
    BY <2>1, <2>3, <2>5, LaunchOwned
  <2> QED BY <2>4, <2>5
<1> QED BY <1>3, <1>4

\* A control snapshot goes to a control-state file, which is no document.
LEMMA UpdateOwned ==
    ASSUME Types, NEW s \in Sessions, NEW m, Good(s, m), Owned(s, m),
           NEW c \in Context, NEW q \in update_control_state(m, c)
    PROVE  Owned(s, q)
<1> DEFINE updated(p) == [WriteFile(p, p.status.controlPath, c) EXCEPT !.status.control = c.control]
<1>1. PICK p \in poll(m) : q = p \/ (is_active(p.status) /\ q = updated(p))
  BY DEF update_control_state
<1>2. Good(s, p) /\ p \in ManagerState /\ Owned(s, p)
  BY PollGood, PollOwned DEF Good
<1>3. CASE q = p
  BY <1>2, <1>3
<1>4. CASE is_active(p.status) /\ q = updated(p)
  <2> DEFINE cp == p.status.controlPath
  <2>1. /\ q.handle = p.handle /\ q.child = p.child /\ q.overwritten = p.overwritten
        /\ \A x \in Paths : x # cp => q.files[x] = p.files[x]
    BY <1>2, <1>4 DEF WriteFile, ManagerState
  <2>2. PICK i \in 1 .. p.starts : cp = preview_control_state_path(i)
    <3>1. Reports(s, p.status, p.files, p.starts)
      BY <1>2, GoodParts
    <3> QED BY <1>4, <3>1 DEF Reports
  <2>3. ASSUME NEW t \in Sessions, NEW h \in ChildIds \cup {None}, Own(t, h, p.child, p.files, p.overwritten),
               h # None => \/ p.child[h] = Dead
                          \/ \E r \in 1 .. MaxRevision : p.child[h].documentPath = preview_document_path(r)
        PROVE  Own(t, h, q.child, q.files, q.overwritten)
    <3>1. h # None /\ p.child[h].phase = "spawned" => q.files[p.child[h].documentPath] = p.files[p.child[h].documentPath]
      BY <2>1, <2>2, <2>3, Constants, UnbornDead
    <3> QED BY <2>1, <2>3, <3>1 DEF Own
  <2>4. /\ Holds(s, p.status, p.handle, p.child, p.starts)
        /\ \A t \in Sessions \ {s} : Holds(t, preview[t], handle[t], p.child, p.starts)
    BY <1>2, GoodParts
  <2>5. p.handle \in ChildIds \cup {None} /\ \A t \in Sessions : handle[t] \in ChildIds \cup {None}
    BY <1>2 DEF ManagerState, Types
  <2> QED BY <1>2, <2>1, <2>3, <2>4, <2>5 DEF Owned, Holds
<1> QED BY <1>1, <1>3, <1>4

LEMMA ManagerOwned ==
    ASSUME Inv, OwnInv, NEW s \in Sessions
    PROVE  Owned(s, Manager(s))
BY DEF OwnInv, Owned, Manager

LEMMA CommitOwned ==
    ASSUME Types, NEW s \in Sessions, NEW m, Owned(s, m), Commit(s, m)
    PROVE  OwnInv'
<1>1. \A t \in Sessions : handle'[t] = IF t = s THEN m.handle ELSE handle[t]
  BY DEF Commit, Types
<1>2. child' = m.child /\ files' = m.files /\ overwritten' = m.overwritten
  BY DEF Commit
<1> QED BY <1>1, <1>2 DEF OwnInv, Owned

\* Every step leaves each process with the document of its own session.
LEMMA OwnStep ==
    ASSUME Inv, OwnInv, [Next]_vars
    PROVE  OwnInv'
<1> USE DEF sessionVars, childVars
<1>1. ASSUME NEW s \in Sessions, stop_preview(s) \/ preview_status(s) \/ \E r \in Requests : BeginClear(s, r)
      PROVE  OwnInv'
  <2>1. PICK m \in stop_current(Manager(s)) \cup poll(Manager(s)) : Commit(s, m)
    BY <1>1 DEF stop_preview, preview_status, BeginClear
  <2>2. Good(s, Manager(s)) /\ Owned(s, Manager(s)) /\ Manager(s) \in ManagerState
    BY ManagerGood, ManagerOwned DEF Good
  <2>3. Owned(s, m)
    BY <2>1, <2>2, StopOwned, PollOwned DEF Inv
  <2> QED BY <2>1, <2>3, CommitOwned DEF Inv
<1>2. ASSUME NEW r \in Requests, FinishStart(r) PROVE OwnInv'
  <2> DEFINE s == request[r].session
             c == request[r].context
  <2>1. PICK m \in start(Manager(s), c, request[r].restart) : Commit(s, m)
    BY <1>2 DEF FinishStart
  <2>2. /\ request[r] # None /\ request[r].op = "start" /\ request[r] \in Request /\ s \in Sessions
        /\ starts < MaxStarts
    BY <1>2 DEF FinishStart, InFlight, Inv, Types, Request
  <2>3. request[r].restart \in BOOLEAN /\ (c # None => c \in Context /\ Known(c) /\ c.session = s)
    BY <2>2 DEF Inv, RequestInv, Request
  <2>4. Good(s, Manager(s)) /\ Owned(s, Manager(s)) /\ Manager(s).starts = starts
    BY <2>2, ManagerGood, ManagerOwned
  <2> HIDE DEF s, c
  <2>5. Owned(s, m)
    BY <2>1, <2>2, <2>3, <2>4, StartOwned DEF Inv
  <2> QED BY <2>1, <2>2, <2>5, CommitOwned DEF Inv
<1>3. ASSUME NEW r \in Requests, FinishUpdate(r) PROVE OwnInv'
  <2> DEFINE s == request[r].session
             c == request[r].context
  <2>1. PICK m \in update_control_state(Manager(s), c) : Commit(s, m)
    BY <1>3 DEF FinishUpdate
  <2>2. request[r] # None /\ request[r].op = "update" /\ request[r] \in Request /\ s \in Sessions
    BY <1>3 DEF FinishUpdate, InFlight, Inv, Types, Request
  <2>3. c \in Context
    BY <2>2 DEF Inv, RequestInv
  <2>4. Good(s, Manager(s)) /\ Owned(s, Manager(s))
    BY <2>2, ManagerGood, ManagerOwned
  <2> HIDE DEF s, c
  <2>5. Owned(s, m)
    BY <2>1, <2>2, <2>3, <2>4, UpdateOwned DEF Inv
  <2> QED BY <2>1, <2>2, <2>5, CommitOwned DEF Inv
<1>4. ASSUME NEW c \in ChildIds,
             read_document(c) \/ read_control_state(c) \/ reload_control_state(c) \/ Exit(c)
      PROVE  OwnInv'
  <2>1. handle' = handle /\ files' = files /\ overwritten' = overwritten
    BY <1>4 DEF read_document, read_control_state, reload_control_state, Exit
  <2>2. /\ \A k \in ChildIds \ {c} : child'[k] = child[k]
        /\ \/ child'[c] = Dead
           \/ child'[c].phase # "spawned" /\ child'[c].document = child[c].document
           \/ /\ child'[c].phase # "spawned" /\ child[c].phase = "spawned"
              /\ child'[c].document = files[child[c].documentPath]
    <3>1. child \in [ChildIds -> Process] /\ \A k \in {"reading", "showing"} : k # "spawned"
      BY DEF Inv, Types
    <3>2. child[c].phase \in Alive => child[c] \in Living
      BY <3>1, UnbornDead DEF Process
    <3>3. CASE read_document(c)
      BY <3>1, <3>2, <3>3 DEF read_document, Living, Alive
    <3>4. CASE read_control_state(c)
      BY <3>1, <3>2, <3>4 DEF read_control_state, Living, Alive
    <3>5. CASE reload_control_state(c)
      BY <3>1, <3>2, <3>5 DEF reload_control_state, Living, Alive
    <3>6. CASE Exit(c)
      BY <3>1, <3>6 DEF Exit
    <3> QED BY <1>4, <3>3, <3>4, <3>5, <3>6
  <2>3. ASSUME NEW t \in Sessions PROVE Own(t, handle[t], child', files, overwritten)
    <3>1. Own(t, handle[t], child, files, overwritten) /\ handle[t] \in ChildIds \cup {None}
      BY DEF OwnInv, Inv, Types
    <3>2. CASE handle[t] = c
      BY <2>2, <3>1, <3>2, UnbornDead DEF Own
    <3>3. CASE handle[t] # c
      BY <2>2, <3>1, <3>3 DEF Own
    <3> QED BY <3>2, <3>3
  <2> QED BY <2>1, <2>3 DEF OwnInv
<1>5. ASSUME UNCHANGED <<handle, child, files, overwritten>> PROVE OwnInv'
  BY <1>5 DEF OwnInv
<1>6. ASSUME NEW s \in Sessions,
             \/ install_project(s) \/ apply_view_patch(s) \/ drop_plan(s)
             \/ \E r \in Requests : \/ \E v \in Values : apply_control_event(s, r, v)
                                   \/ \E restart \in BOOLEAN : BeginStart(s, r, restart)
      PROVE  UNCHANGED <<handle, child, files, overwritten>>
  BY <1>6 DEF install_project, apply_view_patch, drop_plan, apply_control_event, BeginStart
<1>7. ASSUME DayPasses \/ UNCHANGED vars \/ \E r \in Requests : FinishClear(r)
      PROVE  UNCHANGED <<handle, child, files, overwritten>>
  BY <1>7 DEF DayPasses, vars, FinishClear
<1> QED BY <1>1, <1>2, <1>3, <1>4, <1>5, <1>6, <1>7 DEF Next

-----------------------------------------------------------------------------
(* The theorems.                                                           *)

\* The inductive invariant holds of every run.
THEOREM PreviewInvariant == Spec => []Inv
<1>1. Inv /\ [Next]_vars => Inv'
  <2> SUFFICES ASSUME Inv, [Next]_vars PROVE Inv'
    OBVIOUS
  <2>1. ASSUME NEW s \in Sessions, install_project(s) PROVE Inv'
    BY <2>1, InstallStep
  <2>2. ASSUME NEW s \in Sessions, apply_view_patch(s) PROVE Inv'
    BY <2>2, ViewPatchStep
  <2>3. ASSUME NEW s \in Sessions, drop_plan(s) PROVE Inv'
    BY <2>3, DropPlanStep
  <2>4. ASSUME NEW s \in Sessions, stop_preview(s) \/ preview_status(s) PROVE Inv'
    BY <2>4, StatusStep
  <2>5. ASSUME NEW s \in Sessions, NEW r \in Requests, NEW v \in Values, apply_control_event(s, r, v) PROVE Inv'
    BY <2>5, ControlEventStep
  <2>6. ASSUME NEW s \in Sessions, NEW r \in Requests, NEW restart \in BOOLEAN, BeginStart(s, r, restart)
        PROVE  Inv'
    BY <2>6, BeginStartStep
  <2>7. ASSUME NEW s \in Sessions, NEW r \in Requests, BeginClear(s, r) PROVE Inv'
    BY <2>7, BeginClearStep
  <2>8. ASSUME NEW r \in Requests, FinishStart(r) PROVE Inv'
    BY <2>8, FinishStartStep
  <2>9. ASSUME NEW r \in Requests, FinishUpdate(r) PROVE Inv'
    BY <2>9, FinishUpdateStep
  <2>10. ASSUME NEW r \in Requests, FinishClear(r) PROVE Inv'
    BY <2>10, FinishClearStep
  <2>11. ASSUME NEW c \in ChildIds, read_document(c) PROVE Inv'
    BY <2>11, ReadDocumentStep
  <2>12. ASSUME NEW c \in ChildIds, read_control_state(c) \/ reload_control_state(c) PROVE Inv'
    BY <2>12, ReadControlStep
  <2>13. ASSUME NEW c \in ChildIds, Exit(c) PROVE Inv'
    BY <2>13, ExitStep
  <2>14. CASE DayPasses
    BY <2>14, DayStep
  <2>15. CASE UNCHANGED vars
    BY <2>15, StutterStep
  <2> QED BY <2>1, <2>2, <2>3, <2>4, <2>5, <2>6, <2>7, <2>8, <2>9, <2>10, <2>11, <2>12, <2>13, <2>14, <2>15
          DEF Next
<1> QED BY InitInv, <1>1, PTL DEF Spec

\* No preview process is left running that its session's manager has forgotten.
THEOREM PreviewsAreKnown == Spec => []NoUnknownChild
<1>1. Inv => NoUnknownChild
  BY DEF Inv, PoolInv, ProcessInv, NoUnknownChild
<1> QED BY <1>1, PreviewInvariant, PTL

\* What the status of an active preview says of its control state is so.
THEOREM PreviewStatusIsTrue == Spec => []ControlStatusIsTrue
<1>1. Inv => StatusMatchesFile
  BY DEF Inv, PoolInv, Reports, StatusMatchesFile
<1>2. Inv => LiveMeansDelivered
  <2> SUFFICES ASSUME Inv, NEW s \in Sessions,
                      is_active(preview[s]), preview[s].control = session[s].control,
                      files[preview[s].controlPath] # None,
                      files[preview[s].controlPath].revision = session[s].revision
               PROVE  files[preview[s].controlPath] = Capture(s)
    BY DEF LiveMeansDelivered
  <2> DEFINE x == files[preview[s].controlPath]
  <2>1. x.control = preview[s].control /\ x.session = s
    BY DEF Inv, PoolInv, Reports
  <2>2. x \in Context /\ Known(x)
    <3>1. preview[s].controlPath \in Paths
      <4>1. preview[s] \in Status /\ preview[s].controlPath # None
        BY DEF Inv, Types, PoolInv, Reports
      <4> QED BY <4>1 DEF Status
    <3> QED BY <3>1 DEF Inv, Types, PoolInv, FilesInv
  <2>3. x.revision = session[s].revision
    OBVIOUS
  <2> HIDE DEF x
  <2>4. /\ x.session = s /\ x.revision = session[s].revision /\ x.control = session[s].control
        /\ x.doc = session[s].doc /\ x.value = session[s].value
    BY <2>1, <2>2, <2>3 DEF Known, KnownIn
  <2>5. x = Capture(s)
    BY <2>2, <2>4 DEF Capture, Context
  <2> QED BY <2>5 DEF x
<1> QED BY <1>1, <1>2, PreviewInvariant, PTL DEF ControlStatusIsTrue

\* A cleared session's preview does not run, unless a start overlapped the clear.
THEOREM ClearedSessionHasNoPreview == Spec => []ClearStopsPreview
<1>1. Inv => ClearStopsPreview
  BY DEF Inv, ClearedInv, ClearStopsPreview
<1> QED BY <1>1, PreviewInvariant, PTL

\* For any sessions in one process, a preview that is not reported stale
\* renders the document its session has, unless another session's start at the
\* same revision replaced the document file before the process had read it.
THEOREM PreviewRendersPlan == Spec => []RendersSessionPlan
<1>1. Init => OwnInv
  BY DEF Init, OwnInv, Own
<1>2. Inv /\ OwnInv => RendersSessionPlan
  <2> SUFFICES ASSUME Inv, OwnInv, NEW s \in Sessions, handle[s] # None, handle[s] \notin overwritten,
                      child[handle[s]].document # None, preview[s].revision = session[s].revision
               PROVE  /\ child[handle[s]].document.session = s
                      /\ child[handle[s]].document.doc = session[s].doc
    BY DEF RendersSessionPlan
  <2> DEFINE x == child[handle[s]].document
  <2>1. Known(x) /\ x.revision = preview[s].revision
    BY UnbornDead DEF Inv, PoolInv, Holds
  <2>2. x.session = s
    BY DEF OwnInv, Own
  <2> QED BY <2>1, <2>2 DEF Known, KnownIn
<1>3. Inv /\ OwnInv /\ [Next]_vars => OwnInv'
  BY OwnStep
<1> QED BY <1>1, <1>2, <1>3, PreviewInvariant, PTL DEF Spec
=============================================================================
