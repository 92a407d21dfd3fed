--------------------------- MODULE WorkspacesProofs ---------------------------
(* Theorems about persistent workspaces for any set of Pods and Runs, however *)
(* often Pods are replaced and the workspace is created again, and whichever  *)
(* caches lag.                                                                *)
EXTENDS Workspaces, TLAPS

\* Where a leaf names no prover it is Zenon's.
USE Zenon

\* The type invariant, and what it needs to be inductive.
Assignments == \A r \in Runs : runs[r].phase \in {"Scheduled", "Running"} =>
                   runs[r].pod \in Pods /\ runs[r].gen \in Gens
Shaped == /\ TypeOK /\ env \in Scenario /\ Assignments
          /\ ctl.pc = "cleanup" => ctl.ws.alive /\ ctl.ws.pod # NoPod

\* A copy of the object is of this or an earlier workspace of the name. In a copy
\* of this one, a binding is the stored binding and a deletion the stored deletion.
Agreeing(w) ==
    /\ w.gen <= ws.gen
    /\ w.gen = ws.gen /\ ws.alive => /\ w.pod # NoPod => w.pod = ws.pod /\ w.uid = ws.uid
                                     /\ w.deleting => ws.deleting
Copies == /\ \A c \in Components : Agreeing(seen[c])
          /\ \A p \in Pods : Agreeing(cleaner[p].ws)

\* A placed Run has the binding of its workspace.
PlacedAt(r) ==
    /\ runs[r].gen <= ws.gen
    /\ runs[r].phase \in {"Scheduled", "Running"} /\ ws.alive /\ runs[r].gen = ws.gen =>
           runs[r].pod = ws.pod /\ runs[r].uid = ws.uid
Placed == \A r \in Runs : PlacedAt(r)

\* A binding is to an incarnation that exists or existed, and is lost for good.
Bindings == ws.pod # NoPod => /\ ws.uid <= pods[ws.pod].uid
                              /\ ws.phase = "Lost" => ~Live(ws.pod, ws.uid)

\* Files are where the Runs of their workspace were placed, or left by a Run that
\* started after the deletion was requested.
FilesAt(p) ==
    \A g \in dirs[p] :
        /\ g <= ws.gen /\ pods[p].state # "absent"
        /\ g = ws.gen /\ ws.alive /\ g \notin overrun => p = ws.pod /\ pods[p].uid = ws.uid
Files == \A p \in Pods : FilesAt(p)

\* A cleanup is of a deleted workspace of the Pod, which then has no files but
\* those of a late Run.
CleaningAt(p) ==
    cleaner[p].pc # "idle" =>
        /\ cleaner[p].ws.deleting /\ cleaner[p].ws.pod = p
        /\ cleaner[p].pc = "remove" => cleaner[p].visible = {}
        /\ cleaner[p].pc = "release" /\ ws.alive /\ ws.gen = cleaner[p].ws.gen =>
               ws.gen \notin dirs[p] \ overrun
Cleaning == \A p \in Pods : CleaningAt(p)

-------------------------------------------------------------------------------
(* Types. *)

\* A new object and what is left of one that is gone have the shape of an object.
LEMMA FreshTypes ==
    /\ \A g \in Gens : /\ Fresh(g) \in Workspace /\ Fresh(g).gen = g /\ Fresh(g).pod = NoPod
                       /\ Fresh(g).uid = 0 /\ Fresh(g).phase = "" /\ ~Fresh(g).deleting
                       /\ ~Fresh(g).finalizer /\ Fresh(g).alive
    /\ \A w \in Workspace : /\ Gone(w) \in Workspace /\ Gone(w).gen = w.gen /\ Gone(w).pod = NoPod
                            /\ Gone(w).uid = 0 /\ Gone(w).phase = "" /\ ~Gone(w).deleting
                            /\ ~Gone(w).alive
<1>1. /\ 0 \in 0 .. MaxUid /\ 0 \in 0 .. MaxTime + 1
  BY WorkspaceAssumption, SMT
<1>2. \A g \in Gens : Fresh(g) \in Workspace
  BY <1>1 DEF Fresh, Workspace
<1> QED
  BY <1>2 DEF Fresh, Gone, Workspace

\* Whatever cache a component reads, it sees an object of the right shape.
LEMMA ViewTypes ==
    ASSUME TypeOK
    PROVE  /\ \A c \in Components : View(c) \in Workspace
           /\ \A c \in {"controller", "runtimed"} : RunsView(c) \in [Runs -> RunRecord]
BY DEF TypeOK, View, RunsView

\* Events wake the controller and runtimeds.
LEMMA WokenType ==
    ASSUME TypeOK, NEW w \in Workspace, NEW rs \in [Runs -> RunRecord]
    PROVE  /\ Woken(w, rs) \subseteq {"controller"} \cup Pods
           /\ \A c \in Components : Watching(c, w) \subseteq {"controller"} \cup Pods
           /\ \A c, old : WatchingRuns(c, old, rs) \subseteq {"controller"} \cup Pods
<1>1. \A c : Watching(c, w) \subseteq {"controller"} \cup Pods
  BY DEF Watching, Workspace
<1>2. \A c, old : WatchingRuns(c, old, rs) \subseteq {"controller"} \cup Pods
  BY DEF WatchingRuns, RunRecord
<1>3. Woken(w, rs) \subseteq {"controller"} \cup Pods
  BY <1>1, <1>2 DEF Woken
<1> QED
  BY <1>1, <1>2, <1>3

\* What a reconcile makes of a workspace: it keeps a binding, or binds an unbound
\* workspace to a Pod as it is, and finds it lost only where its Pod is.
Revises(w, s) ==
    /\ s \in Workspace /\ s.gen = w.gen /\ s.alive = w.alive
    /\ w.deleting => s.deleting
    /\ IF w.pod # NoPod THEN s.pod = w.pod /\ s.uid = w.uid
       ELSE \/ s.pod = NoPod /\ s.uid = w.uid
            \/ s.pod \in Pods /\ s.uid = pods[s.pod].uid
    /\ s.phase = "Lost" => w.phase = "Lost" \/ ~Live(s.pod, s.uid)

\* An object without a Pod has no UID and is not Bound, Lost or Released.
Consistent(w) == /\ (w.pod = NoPod) <=> (w.uid = 0)
                 /\ w.phase \in {"Bound", "Lost", "Released"} => w.pod # NoPod

\* What Reconcile makes of the status is such a revision.
LEMMA ReconciledRevises ==
    ASSUME TypeOK, NEW w \in Workspace, NEW s \in Reconciled(w)
    PROVE  /\ Revises(w, s) /\ s.deleting = w.deleting
           /\ Consistent(w) => Consistent(s)
<1> DEFINE base == IF w.phase = "" THEN [w EXCEPT !.phase = "Pending"] ELSE w
           bound == reconcileBoundWorkspace(base)
<1>1. /\ base \in Workspace /\ base.gen = w.gen /\ base.alive = w.alive /\ base.pod = w.pod
      /\ base.uid = w.uid /\ base.deleting = w.deleting
      /\ base.phase \in {"Bound", "Lost", "Released"} => base.phase = w.phase
  BY DEF Workspace
<1>2. \/ s = base
      \/ base.pod = NoPod /\ s \in bindPendingWorkspace(base)
      \/ base.pod # NoPod /\ s \in {bound, reconcileWorkspaceUsage(bound)}
  BY DEF Reconciled
<1> HIDE DEF base
<1>3. CASE s = base
  BY <1>1, <1>3 DEF Revises, Consistent
<1>4. CASE base.pod = NoPod /\ s \in bindPendingWorkspace(base)
  <2>1. CASE s = [base EXCEPT !.phase = "Pending"]
    <3>1. /\ s \in Workspace /\ s.gen = base.gen /\ s.alive = base.alive /\ s.deleting = base.deleting
          /\ s.pod = base.pod /\ s.uid = base.uid /\ s.phase = "Pending"
      BY <1>1, <2>1 DEF Workspace
    <3> QED
      BY <1>1, <3>1 DEF Revises, Consistent
  <2>2. ASSUME NEW p \in Pods, s = [base EXCEPT !.phase = "Bound", !.pod = p, !.uid = pods[p].uid]
        PROVE  Revises(w, s) /\ s.deleting = w.deleting /\ Consistent(s)
    <3>1. pods[p].uid \in 1 .. MaxUid
      BY DEF TypeOK
    <3>2. pods[p].uid \in 0 .. MaxUid /\ pods[p].uid # 0
      BY <3>1, WorkspaceAssumption, SMT
    <3>3. /\ s \in Workspace /\ s.gen = base.gen /\ s.alive = base.alive /\ s.deleting = base.deleting
          /\ s.pod = p /\ s.uid = pods[p].uid /\ s.phase = "Bound"
      BY <1>1, <2>2, <3>2 DEF Workspace
    <3> QED
      BY <1>1, <1>4, <3>2, <3>3, WorkspaceAssumption DEF Revises, Consistent
  <2> QED
    BY <1>4, <2>1, <2>2 DEF bindPendingWorkspace, readyRuntimePods
<1>5. CASE base.pod # NoPod /\ s \in {bound, reconcileWorkspaceUsage(bound)}
  <2>1. /\ bound \in Workspace /\ bound.gen = base.gen /\ bound.alive = base.alive
        /\ bound.deleting = base.deleting /\ bound.pod = base.pod /\ bound.uid = base.uid
        /\ bound.phase = "Lost" => ~Live(bound.pod, bound.uid)
    BY <1>1 DEF Workspace, reconcileBoundWorkspace
  <2> HIDE DEF bound
  <2>2. elapsed + 1 \in 0 .. MaxTime + 1
    BY WorkspaceAssumption, SMT DEF TypeOK
  <2>3. /\ s \in Workspace /\ s.gen = bound.gen /\ s.alive = bound.alive
        /\ s.deleting = bound.deleting /\ s.pod = bound.pod /\ s.uid = bound.uid /\ s.phase = bound.phase
    <3>1. \/ s = bound \/ s = [bound EXCEPT !.inUse = "True"]
          \/ s = [bound EXCEPT !.inUse = "False", !.used = elapsed + 1]
      BY <1>5 DEF reconcileWorkspaceUsage
    <3>2. CASE s = bound
      BY <2>1, <3>2
    <3>3. CASE s = [bound EXCEPT !.inUse = "True"]
      BY <2>1, <3>3 DEF Workspace
    <3>4. CASE s = [bound EXCEPT !.inUse = "False", !.used = elapsed + 1]
      BY <2>1, <2>2, <3>4, ZenonT(30) DEF Workspace
    <3> QED
      BY <3>1, <3>2, <3>3, <3>4
  <2> QED
    BY <1>1, <1>5, <2>1, <2>3 DEF Revises, Consistent
<1> QED
  BY <1>2, <1>3, <1>4, <1>5

-------------------------------------------------------------------------------
(* How the stored object changes. *)

\* A reconcile or a user revises it.
Revised == /\ ws.alive /\ Revises(ws, ws') /\ Consistent(ws')
           /\ UNCHANGED <<pods, seen, runs, seenRuns, cleaner, dirs, unguarded, overrun>>

\* It goes: its Pod is lost, its runtimed is done with it, or it is unguarded.
Removed == /\ ws' = Gone(ws) /\ UNCHANGED <<pods, seen, runs, seenRuns, dirs, overrun>>
           /\ \/ ws.phase = "Lost" \/ boundWorkspacePodLost(ws)
              \/ ws.gen \in unguarded'
              \/ \E p \in Pods : cleaner[p].pc = "release" /\ cleaner[p].ws = ws
           /\ unguarded \subseteq unguarded'
           /\ \A p \in Pods : cleaner'[p] \in {cleaner[p], NoCleanup}

\* It is created again.
Renewed == /\ ~ws.alive /\ ws.gen + 1 \in Gens /\ ws' = Fresh(ws.gen + 1)
           /\ UNCHANGED <<pods, seen, runs, seenRuns, cleaner, dirs, unguarded, overrun>>

\* Requesting the deletion marks a workspace with the finalizer.
LEMMA DeletedForms ==
    ASSUME TypeOK, NEW u, u = (IF ws.alive /\ ~ws.finalizer THEN unguarded \cup {ws.gen} ELSE unguarded)
    PROVE  \/ Deleted(ws) = ws
           \/ ws.alive /\ Revises(ws, Deleted(ws)) /\ Consistent(Deleted(ws)) /\ u = unguarded
           \/ Deleted(ws) = Gone(ws) /\ ws.gen \in u /\ unguarded \subseteq u
<1>1. ws \in Workspace /\ Consistent(ws)
  BY DEF TypeOK, Consistent
<1>2. CASE ws.alive /\ ws.finalizer
  <2>1. Deleted(ws) = [ws EXCEPT !.deleting = TRUE]
    BY <1>2 DEF Deleted
  <2> DEFINE s == Deleted(ws)
  <2>2. /\ s \in Workspace /\ s.gen = ws.gen /\ s.alive = ws.alive /\ s.deleting /\ s.pod = ws.pod
        /\ s.uid = ws.uid /\ s.phase = ws.phase
    BY <1>1, <2>1 DEF Workspace
  <2> HIDE DEF s
  <2>3. Revises(ws, s) /\ Consistent(s)
    BY <1>1, <2>2 DEF Revises, Consistent
  <2> QED
    BY <1>2, <2>3 DEF s
<1> QED
  BY <1>2 DEF Deleted

\* A status update or a cleanup update revises the object it was read from.
LEMMA CleanedRevises ==
    ASSUME NEW h \in Workspace, h.pod # NoPod, Consistent(h)
    PROVE  /\ Revises(h, Cleaned(h)) /\ Consistent(Cleaned(h)) /\ Cleaned(h) \in Workspace
<1> DEFINE c == Cleaned(h)
<1>1. /\ c \in Workspace /\ c.gen = h.gen /\ c.alive = h.alive /\ c.deleting = h.deleting /\ c.pod = h.pod
      /\ c.uid = h.uid /\ c.phase \in {h.phase, "Released"}
  BY DEF Cleaned, Workspace
<1> HIDE DEF c
<1>2. Revises(h, c) /\ Consistent(c)
  BY <1>1 DEF Revises, Consistent
<1> QED
  BY <1>1, <1>2 DEF c

\* Every step leaves the object alone, revises it, removes it or creates it again.
LEMMA StoredStep ==
    ASSUME Shaped, [Next]_vars
    PROVE  ws' = ws \/ Revised \/ Removed \/ Renewed
<1>a. TypeOK /\ ws \in Workspace /\ Consistent(ws) /\ env \in Scenario
  BY DEF Shaped, TypeOK, Consistent
<1>1. CASE ControllerReconcile
  <2>1. PICK w \in {View("controller")} :
           \/ UNCHANGED ws
           \/ ReconcileDeleting(w)
           \/ RequestDeletion
           \/ w.alive /\ ~w.deleting /\ \E s \in Reconciled(w) : WriteStatus(w, s)
    BY <1>1 DEF ControllerReconcile
  <2>2. w \in Workspace
    BY <1>a, <2>1, ViewTypes DEF Components
  <2>3. UNCHANGED <<pods, seen, runs, seenRuns, cleaner, dirs, overrun>>
    BY <1>1 DEF ControllerReconcile
  <2>4. CASE ReconcileDeleting(w)
    BY <2>3, <2>4 DEF ReconcileDeleting, Current, Removed
  <2>5. CASE RequestDeletion
    <3>1. ws' = Deleted(ws) /\ unguarded' = IF ws.alive /\ ~ws.finalizer THEN unguarded \cup {ws.gen} ELSE unguarded
      BY <2>5 DEF RequestDeletion
    <3> QED
      BY <1>a, <2>3, <3>1, DeletedForms DEF Revised, Removed
  <2>6. ASSUME NEW s \in Reconciled(w), w.alive, WriteStatus(w, s) PROVE ws' = ws \/ Revised
    <3>1. Revises(w, s) /\ (Consistent(w) => Consistent(s))
      BY <1>a, <2>2, <2>6, ReconciledRevises
    <3>2. ws' = ws \/ (w = ws /\ ws' = s /\ UNCHANGED unguarded)
      BY <2>6 DEF WriteStatus, Current
    <3> QED
      BY <1>a, <2>3, <2>6, <3>1, <3>2 DEF Revised
  <2> QED
    BY <2>1, <2>4, <2>5, <2>6
<1>2. CASE ControllerCleanup
  <2>1. /\ ws' = ws \/ (ctl.ws = ws /\ ws' = Cleaned(ws))
        /\ ctl.pc = "cleanup"
        /\ UNCHANGED <<pods, seen, runs, seenRuns, cleaner, dirs, unguarded, overrun>>
    BY <1>2 DEF ControllerCleanup, Current
  <2>2. ctl.ws = ws => ws.pod # NoPod /\ ws.alive
    BY <2>1 DEF Shaped
  <2> QED
    BY <1>a, <2>1, <2>2, CleanedRevises DEF Revised
<1>3. ASSUME NEW p \in Pods, Cleanup(p) PROVE ws' = ws \/ Removed
  <2>1. CASE RemoveFinalizer(p)
    <3>1. \A q \in Pods : cleaner'[q] \in {cleaner[q], NoCleanup}
      BY <1>a, <2>1 DEF RemoveFinalizer, TypeOK
    <3> QED
      BY <1>3, <2>1, <3>1 DEF RemoveFinalizer, Current, Removed
  <2> QED
    BY <1>3, <2>1 DEF Cleanup, CleanupCheck, removePersistentWorkspaceDirectory
<1>4. CASE DeleteWorkspace
  <2>1. /\ ws' = Deleted(ws)
        /\ unguarded' = IF ws.alive /\ ~ws.finalizer THEN unguarded \cup {ws.gen} ELSE unguarded
        /\ UNCHANGED <<pods, seen, runs, seenRuns, cleaner, dirs, overrun>>
    <3>1. CASE ws.finalizer
      BY <1>4, <3>1 DEF DeleteWorkspace
    <3>2. CASE ~ws.finalizer
      BY <1>4, <3>2 DEF DeleteWorkspace
    <3> QED
      BY <3>1, <3>2
  <2>2. \/ ws' = ws
        \/ ws.alive /\ Revises(ws, ws') /\ Consistent(ws') /\ unguarded' = unguarded
        \/ ws' = Gone(ws) /\ ws.gen \in unguarded' /\ unguarded \subseteq unguarded'
    BY <1>a, <2>1, DeletedForms
  <2> QED
    BY <2>1, <2>2 DEF Revised, Removed
<1>5. CASE RecreateWorkspace
  <2>1. ws.gen + 1 \in Gens
    <3>1. ws.gen \in 1 .. MaxGen /\ env.gens \in 1 .. MaxGen
      BY <1>a DEF Scenario, Workspace, Gens
    <3>2. ws.gen < env.gens
      BY <1>5 DEF RecreateWorkspace
    <3> QED
      BY <3>1, <3>2, WorkspaceAssumption, SMT DEF Gens
  <2> QED
    BY <1>5, <2>1 DEF RecreateWorkspace, Renewed
<1>6. ASSUME NEW r \in Runs, CreateRun(r) \/ RunSteps(r) \/ EndRun(r) PROVE ws' = ws
  BY <1>6 DEF CreateRun, RunSteps, EndRun, ScheduleRun, StartRun, FinishRun, SetRun
<1>7. ASSUME NEW p \in Pods, PodReady(p) \/ PodUnready(p) \/ PodStops(p) \/ PodGone(p) \/ PodReplaced(p)
      PROVE  ws' = ws
  BY <1>7 DEF PodReady, PodUnready, PodStops, PodGone, PodReplaced, PodEvent
<1>8. CASE Observe \/ RuntimeDeleted \/ TimePasses
  BY <1>8 DEF Observe, ObserveWorkspace, ObserveRuns, RuntimeDeleted, TimePasses
<1>9. CASE UNCHANGED vars
  BY <1>9 DEF vars
<1> QED
  BY <1>1, <1>2, <1>3, <1>4, <1>5, <1>6, <1>7, <1>8, <1>9 DEF Next

-------------------------------------------------------------------------------
(* The type invariant. *)

\* The stored object keeps its shape.
LEMMA StoredType ==
    ASSUME Shaped, [Next]_vars
    PROVE  ws' \in Workspace /\ Consistent(ws')
<1>1. ws \in Workspace /\ Consistent(ws)
  BY DEF Shaped, TypeOK, Consistent
<1>2. ASSUME Removed PROVE ws' \in Workspace /\ Consistent(ws')
  BY <1>1, <1>2, FreshTypes DEF Removed, Consistent
<1>3. ASSUME Renewed PROVE ws' \in Workspace /\ Consistent(ws')
  BY <1>3, FreshTypes DEF Renewed, Consistent
<1> QED
  BY <1>1, <1>2, <1>3, StoredStep DEF Revised, Revises

\* What the steps do not touch, and the stored object, keep their shapes.
Rest == /\ runtime \in BOOLEAN
        /\ pods \in [Pods -> [uid : 1..MaxUid, state : {"ready", "unready", "deleting", "absent"}]]
        /\ seen \in [Components -> Workspace]
        /\ runs \in [Runs -> RunRecord]
        /\ seenRuns \in [{"controller", "runtimed"} -> [Runs -> RunRecord]]
        /\ cleaner \in [Pods -> [pc : {"idle", "remove", "release"}, ws : Workspace, visible : SUBSET Runs]]
        /\ due \subseteq {"controller"} \cup Pods
        /\ dirs \in [Pods -> SUBSET Gens]
        /\ elapsed \in 0..MaxTime
        /\ unguarded \subseteq Gens /\ overrun \subseteq Gens
Control == /\ ctl \in [pc : {"idle", "cleanup"}, ws : Workspace]
           /\ ctl.pc = "cleanup" => ctl.ws.alive /\ ctl.ws.pod # NoPod

\* The parts make up the invariant.
LEMMA ShapedParts ==
    /\ Shaped => env \in Scenario /\ Rest /\ Control /\ Assignments /\ ws \in Workspace /\ Consistent(ws)
    /\ env \in Scenario /\ Rest /\ Control /\ Assignments /\ ws \in Workspace /\ Consistent(ws) => Shaped
<1>1. Shaped => env \in Scenario /\ Rest /\ Control /\ Assignments /\ ws \in Workspace /\ Consistent(ws)
  BY DEF Shaped, TypeOK, Rest, Control, Consistent
<1>2. env \in Scenario /\ Rest /\ Control /\ Assignments /\ ws \in Workspace /\ Consistent(ws) => Shaped
  BY DEF Shaped, TypeOK, Rest, Control, Consistent
<1> QED
  BY <1>1, <1>2

\* A controller at rest.
LEMMA IdleType == Idle \in [pc : {"idle", "cleanup"}, ws : Workspace] /\ Idle.pc = "idle"
<1>1. 1 \in Gens
  BY WorkspaceAssumption, SMT DEF Gens
<1>2. Fresh(1) \in Workspace
  BY <1>1, FreshTypes
<1> QED
  BY <1>2 DEF Idle

\* A step of the controller keeps the shapes.
LEMMA ControllerShaped ==
    ASSUME Shaped, [Next]_vars, ControllerReconcile \/ ControllerCleanup
    PROVE  Rest' /\ Control' /\ UNCHANGED env
<1>a. TypeOK /\ Rest /\ Control /\ ws \in Workspace /\ ws' \in Workspace
  BY ShapedParts, StoredType DEF Shaped
<1>b. \A w \in Workspace : Woken(w, runs) \subseteq {"controller"} \cup Pods
  BY <1>a, WokenType DEF Rest
<1>1. CASE ControllerReconcile
  <2>0. UNCHANGED <<env, runtime, pods, seen, runs, seenRuns, cleaner, dirs, elapsed, overrun>>
    BY <1>1 DEF ControllerReconcile
  <2>1. PICK w \in {View("controller")} :
           \/ due' = due \ {"controller"} /\ UNCHANGED <<ws, ctl, unguarded>>
           \/ ReconcileDeleting(w)
           \/ RequestDeletion
           \/ w.alive /\ ~w.deleting /\ \E s \in Reconciled(w) : WriteStatus(w, s)
           \/ UNCHANGED <<ws, ctl, due, unguarded>>
    BY <1>1 DEF ControllerReconcile
  <2>2. w \in Workspace
    BY <1>a, <2>1, ViewTypes DEF Components
  <2>3. Deleted(ws) \in Workspace
    BY <1>a, FreshTypes DEF Deleted, Workspace
  <2>4. CASE ReconcileDeleting(w)
    <3>1. /\ ctl' = Idle /\ UNCHANGED unguarded
          /\ due' \in {(due \ {"controller"}) \cup Woken(Gone(ws), runs), due, due \ {"controller"}}
      BY <2>4 DEF ReconcileDeleting
    <3>2. due' \subseteq {"controller"} \cup Pods
      BY <1>a, <1>b, <3>1, FreshTypes DEF Rest
    <3> QED
      BY <1>a, <2>0, <3>1, <3>2, IdleType DEF Rest, Control
  <2>5. CASE RequestDeletion
    <3>1. /\ ctl' = Idle /\ unguarded' \in {unguarded, unguarded \cup {ws.gen}}
          /\ due' = (due \ {"controller"}) \cup Woken(Deleted(ws), runs)
      BY <2>5 DEF RequestDeletion
    <3>2. ws.gen \in Gens
      BY <1>a DEF Workspace
    <3>3. due' \subseteq {"controller"} \cup Pods /\ unguarded' \subseteq Gens
      BY <1>a, <1>b, <2>3, <3>1, <3>2 DEF Rest
    <3> QED
      BY <1>a, <2>0, <3>1, <3>3, IdleType DEF Rest, Control
  <2>6. ASSUME NEW s \in Reconciled(w), w.alive, WriteStatus(w, s) PROVE Rest' /\ Control'
    <3>1. s \in Workspace /\ s.alive = w.alive
      BY <1>a, <2>2, <2>6, ReconciledRevises DEF Revises
    <3>2. /\ \/ ctl' = Idle
             \/ s.pod # NoPod /\ ctl' = [pc |-> "cleanup", ws |-> s]
          /\ UNCHANGED unguarded
          /\ due' = (due \ {"controller"}) \cup Woken(ws', runs)
      BY <2>6 DEF WriteStatus
    <3>3. due' \subseteq {"controller"} \cup Pods
      BY <1>a, <1>b, <3>2 DEF Rest
    <3>4. Rest'
      BY <1>a, <2>0, <3>2, <3>3 DEF Rest
    <3>5. CASE ctl' = Idle
      BY <3>4, <3>5, IdleType DEF Control
    <3>6. CASE s.pod # NoPod /\ ctl' = [pc |-> "cleanup", ws |-> s]
      BY <2>6, <3>1, <3>4, <3>6 DEF Control
    <3> QED
      BY <3>2, <3>5, <3>6
  <2>7. due' = due \ {"controller"} /\ UNCHANGED <<ws, ctl, unguarded>> => Rest' /\ Control'
    BY <1>a, <2>0 DEF Rest, Control
  <2>8. UNCHANGED <<ws, ctl, due, unguarded>> => Rest' /\ Control'
    BY <1>a, <2>0 DEF Rest, Control
  <2> QED
    BY <2>0, <2>1, <2>4, <2>5, <2>6, <2>7, <2>8
<1>2. CASE ControllerCleanup
  <2>1. /\ ctl' = Idle /\ due' \in {due \cup {"controller"}, due \cup Woken(ws', runs)}
        /\ UNCHANGED <<env, runtime, pods, seen, runs, seenRuns, cleaner, dirs, elapsed, unguarded, overrun>>
    BY <1>2 DEF ControllerCleanup
  <2>2. due' \subseteq {"controller"} \cup Pods
    BY <1>a, <1>b, <2>1 DEF Rest
  <2> QED
    BY <1>a, <2>1, <2>2, IdleType DEF Rest, Control
<1> QED
  BY <1>1, <1>2

\* A step of a runtimed's cleanup keeps the shapes.
LEMMA CleanupShaped ==
    ASSUME Shaped, NEW p \in Pods, Cleanup(p)
    PROVE  Rest' /\ UNCHANGED <<env, ctl>>
<1> DEFINE Passes == [pc : {"idle", "remove", "release"}, ws : Workspace, visible : SUBSET Runs]
<1>a. TypeOK /\ Rest /\ ws \in Workspace /\ Gone(ws) \in Workspace
  BY ShapedParts, FreshTypes DEF Shaped
<1>b. Woken(Gone(ws), runs) \subseteq {"controller"} \cup Pods
  BY <1>a, WokenType DEF Rest
<1>c. cleaner \in [Pods -> Passes]
  BY <1>a DEF Rest
<1>d. NoCleanup \in Passes
  BY IdleType, FreshTypes, WorkspaceAssumption DEF NoCleanup, Idle, Gens
<1>e. /\ \A k \in Passes : [cleaner EXCEPT ![p] = k] \in [Pods -> Passes]
      /\ [cleaner EXCEPT ![p].pc = "release"] \in [Pods -> Passes]
  BY <1>c
<1>f. cleaner' \in [Pods -> Passes] =>
        cleaner' \in [Pods -> [pc : {"idle", "remove", "release"}, ws : Workspace, visible : SUBSET Runs]]
  OBVIOUS
<1> HIDE DEF Passes
<1>1. CASE CleanupCheck(p)
  <2>1. View("runtimed") \in Workspace
    BY <1>a, ViewTypes DEF Components
  <2>2. [pc |-> "remove", ws |-> View("runtimed"), visible |-> LocalRuns(p)] \in Passes
    BY <2>1 DEF LocalRuns, Passes
  <2>3. cleaner' \in [Pods -> Passes]
    BY <1>1, <1>c, <1>e, <2>2 DEF CleanupCheck
  <2>4. due' \subseteq {"controller"} \cup Pods
    BY <1>a, <1>1 DEF CleanupCheck, Rest
  <2>5. UNCHANGED <<env, runtime, pods, seen, runs, seenRuns, ctl, dirs, elapsed, unguarded, overrun>>
    BY <1>1 DEF CleanupCheck
  <2> QED
    BY <1>a, <1>f, <2>3, <2>4, <2>5 DEF Rest
<1>2. CASE removePersistentWorkspaceDirectory(p)
  <2>1. cleaner' \in [Pods -> Passes]
    BY <1>2, <1>e DEF removePersistentWorkspaceDirectory
  <2>2. dirs' \in [Pods -> SUBSET Gens]
    BY <1>2, <1>a DEF removePersistentWorkspaceDirectory, Rest
  <2>3. UNCHANGED <<env, runtime, pods, seen, runs, seenRuns, ctl, due, elapsed, unguarded, overrun>>
    BY <1>2 DEF removePersistentWorkspaceDirectory
  <2> QED
    BY <1>a, <1>f, <2>1, <2>2, <2>3 DEF Rest
<1>3. CASE RemoveFinalizer(p)
  <2>1. cleaner' \in [Pods -> Passes]
    BY <1>3, <1>d, <1>e DEF RemoveFinalizer
  <2>2. due' \subseteq {"controller"} \cup Pods
    BY <1>a, <1>b, <1>3 DEF RemoveFinalizer, Rest
  <2>3. UNCHANGED <<env, runtime, pods, seen, runs, seenRuns, ctl, dirs, elapsed, unguarded, overrun>>
    BY <1>3 DEF RemoveFinalizer
  <2> QED
    BY <1>a, <1>f, <2>1, <2>2, <2>3 DEF Rest
<1> QED
  BY <1>1, <1>2, <1>3 DEF Cleanup

\* A step of a Run keeps the shapes; only a start touches files.
LEMMA RunShaped ==
    ASSUME Shaped, NEW r \in Runs, CreateRun(r) \/ RunSteps(r) \/ EndRun(r)
    PROVE  Rest' /\ Assignments' /\ UNCHANGED <<env, ctl>>
<1>a. TypeOK /\ Rest /\ ws \in Workspace /\ runs[r] \in RunRecord /\ Assignments
  BY ShapedParts DEF Shaped, Rest
<1>1. ASSUME NEW rec \in RunRecord, SetRun(r, rec), dirs' \in [Pods -> SUBSET Gens], overrun' \subseteq Gens,
             rec.phase \in {"Scheduled", "Running"} => rec.pod \in Pods /\ rec.gen \in Gens
      PROVE  Rest' /\ Assignments' /\ UNCHANGED <<env, ctl>>
  <2>1. runs' \in [Runs -> RunRecord]
    BY <1>a, <1>1 DEF SetRun, Rest
  <2>2. due' \subseteq {"controller"} \cup Pods
    BY <1>a, <1>1, <2>1, WokenType DEF SetRun, Rest
  <2>3. UNCHANGED <<env, runtime, pods, seen, seenRuns, ctl, cleaner, elapsed, unguarded>>
    BY <1>1 DEF SetRun
  <2>4. Assignments'
    BY <1>a, <1>1 DEF SetRun, Rest, Assignments
  <2> QED
    BY <1>a, <1>1, <2>1, <2>2, <2>3, <2>4 DEF Rest
<1>2. \A phase \in {"Pending", "Running", "Done"} :
          LET rec == [runs[r] EXCEPT !.phase = phase]
          IN rec \in RunRecord /\ rec.phase = phase /\ rec.pod = runs[r].pod /\ rec.gen = runs[r].gen
  BY <1>a DEF RunRecord
<1>3. dirs \in [Pods -> SUBSET Gens] /\ overrun \subseteq Gens
  BY <1>a DEF Rest
<1>4. CASE CreateRun(r) \/ FinishRun(r) \/ EndRun(r)
  BY <1>1, <1>2, <1>3, <1>4 DEF CreateRun, FinishRun, EndRun
<1>5. CASE ScheduleRun(r)
  <2>1. PICK p \in readyRuntimePods :
           SetRun(r, [phase |-> "Scheduled", pod |-> p, uid |-> pods[p].uid, gen |-> View("scheduler").gen])
    BY <1>5 DEF ScheduleRun
  <2>2. p \in Pods /\ pods[p].uid \in 1 .. MaxUid /\ View("scheduler") \in Workspace
    BY <1>a, ViewTypes DEF readyRuntimePods, Rest, Components
  <2>3. pods[p].uid \in 0 .. MaxUid /\ View("scheduler").gen \in 0 .. MaxGen
    <3>1. View("scheduler").gen \in 1 .. MaxGen
      BY <2>2 DEF Workspace, Gens
    <3> QED
      BY <2>2, <3>1, WorkspaceAssumption, SMT
  <2>4. [phase |-> "Scheduled", pod |-> p, uid |-> pods[p].uid, gen |-> View("scheduler").gen] \in RunRecord
    BY <2>2, <2>3 DEF RunRecord
  <2> QED
    <3>1. View("scheduler").gen \in Gens
      BY <2>2 DEF Workspace
    <3> QED
      BY <1>1, <1>3, <1>5, <2>1, <2>2, <2>4, <3>1 DEF ScheduleRun
<1>6. CASE StartRun(r)
  <2>1. runs[r].pod \in Pods /\ runs[r].gen \in Gens
    BY <1>a, <1>6 DEF StartRun, Assignments
  <2>2. /\ dirs' = [dirs EXCEPT ![runs[r].pod] = @ \cup {runs[r].gen}]
        /\ overrun' \in {overrun, overrun \cup {runs[r].gen}}
    BY <1>6 DEF StartRun
  <2>3. dirs' \in [Pods -> SUBSET Gens] /\ overrun' \subseteq Gens
    BY <1>3, <2>1, <2>2
  <2>4. SetRun(r, [runs[r] EXCEPT !.phase = "Running"])
    BY <1>6 DEF StartRun
  <2> QED
    BY <1>1, <1>2, <2>1, <2>3, <2>4
<1> QED
  BY <1>4, <1>5, <1>6 DEF RunSteps

\* An event of a Pod keeps the shapes.
LEMMA PodShaped ==
    ASSUME Shaped, NEW p \in Pods,
           PodReady(p) \/ PodUnready(p) \/ PodStops(p) \/ PodGone(p) \/ PodReplaced(p)
    PROVE  Rest' /\ UNCHANGED <<env, ctl, runs>>
<1>a. Rest /\ pods[p] \in [uid : 1..MaxUid, state : {"ready", "unready", "deleting", "absent"}]
  BY ShapedParts DEF Rest
<1>b. /\ \A state \in {"ready", "unready", "deleting", "absent"} :
           [pods[p] EXCEPT !.state = state] \in [uid : 1..MaxUid, state : {"ready", "unready", "deleting", "absent"}]
      /\ pods[p].uid < MaxUid =>
           [uid |-> pods[p].uid + 1, state |-> "ready"]
              \in [uid : 1..MaxUid, state : {"ready", "unready", "deleting", "absent"}]
  BY <1>a, WorkspaceAssumption, SMT
<1>c. NoCleanup \in [pc : {"idle", "remove", "release"}, ws : Workspace, visible : SUBSET Runs]
  BY IdleType DEF NoCleanup, Idle
<1>1. PICK rec \in [uid : 1..MaxUid, state : {"ready", "unready", "deleting", "absent"}] : PodEvent(p, rec)
  BY <1>b DEF PodReady, PodUnready, PodStops, PodGone, PodReplaced
<1>2. /\ due' \in {due \cup {"controller"}, (due \ {p}) \cup {"controller"}, due \cup {"controller"} \cup {p}}
      /\ \/ cleaner' = cleaner \/ cleaner' = [cleaner EXCEPT ![p] = NoCleanup]
      /\ \/ dirs' = dirs \/ dirs' = [dirs EXCEPT ![p] = {}]
  BY DEF PodReady, PodUnready, PodStops, PodGone, PodReplaced, workspacesForRuntimePod
<1>3. pods' \in [Pods -> [uid : 1..MaxUid, state : {"ready", "unready", "deleting", "absent"}]]
  BY <1>a, <1>1 DEF PodEvent, Rest
<1>4. cleaner' \in [Pods -> [pc : {"idle", "remove", "release"}, ws : Workspace, visible : SUBSET Runs]]
  BY <1>a, <1>c, <1>2, SMTT(30) DEF Rest
<1>5. dirs' \in [Pods -> SUBSET Gens] /\ due' \subseteq {"controller"} \cup Pods
  BY <1>a, <1>2 DEF Rest
<1> QED
  BY <1>a, <1>1, <1>3, <1>4, <1>5 DEF Rest, PodEvent

\* Every step keeps the shapes.
LEMMA ShapedStep ==
    ASSUME Shaped, [Next]_vars
    PROVE  Shaped' /\ UNCHANGED env
<1>a. TypeOK /\ Rest /\ Control /\ Assignments /\ ws \in Workspace /\ env \in Scenario
  BY ShapedParts DEF Shaped
<1>b. UNCHANGED ctl => Control'
  BY <1>a DEF Control
<1>c. UNCHANGED runs => Assignments'
  BY <1>a DEF Assignments
<1> SUFFICES Rest' /\ Control' /\ Assignments' /\ UNCHANGED env
  <2>1. Rest' /\ Control' /\ Assignments' /\ (env \in Scenario)' /\ (ws \in Workspace)' /\ Consistent(ws)' => Shaped'
    BY ShapedParts, PTL
  <2>2. Consistent(ws') => Consistent(ws)'
    BY DEF Consistent
  <2> QED
    BY <1>a, <2>1, <2>2, StoredType
<1>1. CASE ControllerReconcile \/ ControllerCleanup
  <2>1. UNCHANGED runs
    BY <1>1 DEF ControllerReconcile, ControllerCleanup
  <2> QED
    BY <1>1, <1>c, <2>1, ControllerShaped
<1>2. ASSUME NEW p \in Pods, Cleanup(p) PROVE Rest' /\ Control' /\ Assignments' /\ UNCHANGED env
  <2>1. UNCHANGED runs
    BY <1>2 DEF Cleanup, CleanupCheck, removePersistentWorkspaceDirectory, RemoveFinalizer
  <2> QED
    BY <1>2, <1>b, <1>c, <2>1, CleanupShaped
<1>3. ASSUME NEW r \in Runs, CreateRun(r) \/ RunSteps(r) \/ EndRun(r)
      PROVE  Rest' /\ Control' /\ Assignments' /\ UNCHANGED env
  BY <1>3, <1>b, RunShaped
<1>4. ASSUME NEW p \in Pods, PodReady(p) \/ PodUnready(p) \/ PodStops(p) \/ PodGone(p) \/ PodReplaced(p)
      PROVE  Rest' /\ Control' /\ Assignments' /\ UNCHANGED env
  BY <1>4, <1>b, <1>c, PodShaped
<1>5. CASE Observe
  <2>0. UNCHANGED <<env, runtime, pods, ws, runs, ctl, cleaner, dirs, elapsed, unguarded, overrun>>
    BY <1>5 DEF Observe, ObserveWorkspace, ObserveRuns
  <2>1. ASSUME NEW c \in Components, ObserveWorkspace(c) PROVE Rest'
    <3>1. seen' \in [Components -> Workspace] /\ due' \subseteq {"controller"} \cup Pods
      BY <1>a, <2>1, WokenType DEF ObserveWorkspace, Rest
    <3> QED
      BY <1>a, <2>0, <2>1, <3>1 DEF Rest, ObserveWorkspace
  <2>2. ASSUME NEW c \in {"controller", "runtimed"}, ObserveRuns(c) PROVE Rest'
    <3>1. /\ seenRuns' \in [{"controller", "runtimed"} -> [Runs -> RunRecord]]
          /\ due' \subseteq {"controller"} \cup Pods
      BY <1>a, <2>2, WokenType DEF ObserveRuns, Rest
    <3> QED
      BY <1>a, <2>0, <2>2, <3>1 DEF Rest, ObserveRuns
  <2> QED
    BY <1>5, <1>b, <1>c, <2>0, <2>1, <2>2 DEF Observe
<1>6. CASE DeleteWorkspace
  <2>1. Deleted(ws) \in Workspace /\ ws.gen \in Gens
    BY <1>a, FreshTypes DEF Deleted, Workspace
  <2>2. Woken(Deleted(ws), runs) \subseteq {"controller"} \cup Pods
    BY <1>a, <2>1, WokenType DEF Rest
  <2>3. due' \subseteq {"controller"} \cup Pods /\ unguarded' \subseteq Gens
    BY <1>a, <1>6, <2>1, <2>2 DEF DeleteWorkspace, Rest
  <2> QED
    BY <1>6, <1>a, <1>b, <1>c, <2>3 DEF DeleteWorkspace, Rest
<1>7. CASE RecreateWorkspace
  <2>1. Woken(ws', runs) \subseteq {"controller"} \cup Pods
    BY <1>a, WokenType, StoredType DEF Rest
  <2>2. due' \subseteq {"controller"} \cup Pods
    BY <1>a, <1>7, <2>1 DEF RecreateWorkspace, Rest
  <2> QED
    BY <1>7, <1>a, <1>b, <1>c, <2>2 DEF RecreateWorkspace, Rest
<1>8. CASE RuntimeDeleted
  BY <1>8, <1>a, <1>b, <1>c DEF RuntimeDeleted, Rest
<1>9. CASE TimePasses
  <2>1. elapsed' \in 0 .. MaxTime
    BY <1>9, <1>a, WorkspaceAssumption, SMT DEF TimePasses, Rest
  <2> QED
    BY <1>9, <1>a, <1>b, <1>c, <2>1 DEF TimePasses, Rest
<1>10. CASE UNCHANGED vars
  BY <1>10, <1>a, <1>b, <1>c DEF vars, Rest
<1> QED
  BY <1>1, <1>2, <1>3, <1>4, <1>5, <1>6, <1>7, <1>8, <1>9, <1>10 DEF Next

-------------------------------------------------------------------------------
(* Copies, placements, bindings, files and cleanups. *)

Quietly == UNCHANGED <<pods, ws, seen, runs, cleaner, dirs, overrun>>
PodSteps(p) == PodReady(p) \/ PodUnready(p) \/ PodStops(p) \/ PodGone(p) \/ PodReplaced(p)

\* The steps, by what they may disturb.
LEMMA StepKinds ==
    ASSUME Shaped, [Next]_vars
    PROVE  \/ Revised \/ Removed \/ Renewed \/ Quietly
           \/ /\ ws' = ws
              /\ \/ \E c \in Components : ObserveWorkspace(c)
                 \/ \E p \in Pods : Cleanup(p) \/ PodSteps(p)
                 \/ \E r \in Runs : CreateRun(r) \/ RunSteps(r) \/ EndRun(r)
<1>1. CASE Revised \/ Removed \/ Renewed
  BY <1>1
<1>2. CASE ws' = ws
  <2>1. ASSUME NEW c \in {"controller", "runtimed"}, ObserveRuns(c) PROVE Quietly
    BY <2>1 DEF ObserveRuns, Quietly
  <2>2. ASSUME ControllerReconcile \/ ControllerCleanup PROVE Quietly
    BY <1>2, <2>2 DEF ControllerReconcile, ControllerCleanup, Quietly
  <2>3. ASSUME DeleteWorkspace \/ RecreateWorkspace \/ RuntimeDeleted \/ TimePasses \/ UNCHANGED vars
        PROVE  Quietly
    BY <1>2, <2>3 DEF DeleteWorkspace, RecreateWorkspace, RuntimeDeleted, TimePasses, vars, Quietly
  <2> QED
    BY <1>2, <2>1, <2>2, <2>3 DEF Next, Observe, PodSteps
<1> QED
  BY <1>1, <1>2, StoredStep

\* A copy that agrees with the stored object agrees with what becomes of it.
LEMMA AgreementKept ==
    ASSUME Shaped, [Next]_vars, NEW w \in Workspace, Agreeing(w)
    PROVE  /\ w.gen <= ws'.gen
           /\ w.gen = ws'.gen /\ ws'.alive => /\ w.pod # NoPod => w.pod = ws'.pod /\ w.uid = ws'.uid
                                              /\ w.deleting => ws'.deleting
<1>a. ws \in Workspace /\ ws.gen \in Nat /\ w.gen \in Nat
  <2>1. ws \in Workspace
    BY ShapedParts
  <2>2. ws.gen \in 1 .. MaxGen /\ w.gen \in 1 .. MaxGen
    BY <2>1 DEF Workspace, Gens
  <2> QED
    BY <2>1, <2>2, WorkspaceAssumption, SMT
<1>1. CASE Revised
  BY <1>1 DEF Revised, Revises, Agreeing
<1>2. CASE Removed
  BY <1>a, <1>2, FreshTypes DEF Removed, Agreeing
<1>3. CASE Renewed
  <2>1. ws'.gen = ws.gen + 1
    BY <1>3, FreshTypes DEF Renewed
  <2> QED
    BY <1>a, <2>1, SMT DEF Agreeing
<1> QED
  BY <1>1, <1>2, <1>3, StoredStep DEF Agreeing

\* What a component reads, the object itself and the empty pass agree with it.
LEMMA Agreements ==
    ASSUME Shaped, Copies
    PROVE  /\ Agreeing(ws) /\ Agreeing(Fresh(1)) /\ \A c \in Components : Agreeing(View(c))
           /\ Fresh(1) \in Workspace
<1>a. ws \in Workspace /\ 1 \in Gens /\ ws.gen \in Nat /\ 1 <= ws.gen
  <2>1. ws \in Workspace
    BY ShapedParts
  <2>2. ws.gen \in 1 .. MaxGen
    BY <2>1 DEF Workspace, Gens
  <2> QED
    BY <2>1, <2>2, WorkspaceAssumption, SMT DEF Gens
<1>1. Agreeing(ws)
  BY <1>a, SMT DEF Agreeing
<1>2. Agreeing(Fresh(1)) /\ Fresh(1) \in Workspace
  BY <1>a, FreshTypes DEF Agreeing
<1> QED
  BY <1>1, <1>2 DEF Copies, View

\* What a cleanup may do to the pass of its Pod.
LEMMA CleanupEffect ==
    ASSUME Shaped, NEW p \in Pods, Cleanup(p)
    PROVE  /\ UNCHANGED <<pods, seen, runs, overrun>>
           /\ \A q \in Pods \ {p} : cleaner'[q] = cleaner[q] /\ dirs'[q] = dirs[q]
           /\ \/ cleaner'[p] \in {cleaner[p], NoCleanup} /\ dirs'[p] = dirs[p]
              \/ /\ cleaner'[p] = [pc |-> "remove", ws |-> View("runtimed"), visible |-> {}]
                 /\ View("runtimed").deleting /\ View("runtimed").pod = p /\ dirs'[p] = dirs[p]
              \/ /\ cleaner[p].pc = "remove" /\ cleaner'[p] = [cleaner[p] EXCEPT !.pc = "release"]
                 /\ dirs'[p] = {}
<1>a. Rest
  BY ShapedParts
<1>1. CASE CleanupCheck(p)
  <2>1. /\ \/ cleaner' = cleaner
           \/ /\ CleanupWanted(View("runtimed")) /\ boundRuntimePod(p, View("runtimed"))
              /\ LocalRuns(p) = {}
              /\ cleaner' = [cleaner EXCEPT ![p] = [pc |-> "remove", ws |-> View("runtimed"),
                                                    visible |-> LocalRuns(p)]]
        /\ UNCHANGED <<pods, ws, seen, runs, dirs, overrun>>
    BY <1>1 DEF CleanupCheck, hasActiveLocalRuns
  <2> QED
    BY <1>a, <2>1, ZenonT(30) DEF Rest, CleanupWanted, boundRuntimePod
<1>2. CASE removePersistentWorkspaceDirectory(p)
  BY <1>a, <1>2 DEF removePersistentWorkspaceDirectory, Rest
<1>3. CASE RemoveFinalizer(p)
  BY <1>a, <1>3 DEF RemoveFinalizer, Rest
<1> QED
  BY <1>1, <1>2, <1>3 DEF Cleanup

\* Every step keeps the copies in agreement with the stored object.
LEMMA CopiesStep ==
    ASSUME Shaped, Copies, [Next]_vars
    PROVE  Copies'
<1>a. Rest /\ \A c \in Components : View(c) \in Workspace
  BY ShapedParts, ViewTypes DEF Shaped
<1>1. ASSUME NEW c \in Components PROVE Agreeing(seen[c])'
  <2>1. seen'[c] \in {seen[c], ws}
    <3>1. UNCHANGED seen \/ \E d \in Components : ObserveWorkspace(d)
      BY StepKinds, CleanupEffect, PodShaped
          DEF Revised, Removed, Renewed, Quietly, PodSteps, PodReady, PodUnready, PodStops, PodGone,
              PodReplaced, PodEvent, CreateRun, RunSteps, EndRun, ScheduleRun, StartRun, FinishRun, SetRun
    <3> QED
      BY <1>a, <3>1 DEF ObserveWorkspace, Rest
  <2>2. seen[c] \in Workspace /\ ws \in Workspace /\ Agreeing(seen[c]) /\ Agreeing(ws)
    BY <1>a, ShapedParts, Agreements DEF Rest, Copies
  <2> QED
    BY <2>1, <2>2, AgreementKept DEF Agreeing
<1>2. ASSUME NEW p \in Pods PROVE Agreeing(cleaner[p].ws)'
  <2>1. cleaner'[p].ws \in {cleaner[p].ws, Fresh(1), View("runtimed")}
    <3>1. ASSUME NEW q \in Pods, Cleanup(q) PROVE cleaner'[p].ws \in {cleaner[p].ws, Fresh(1), View("runtimed")}
      <4>1. cleaner[p] \in [pc : {"idle", "remove", "release"}, ws : Workspace, visible : SUBSET Runs]
        BY <1>a DEF Rest
      <4> QED
        <5>1. /\ NoCleanup.ws = Fresh(1) /\ [cleaner[p] EXCEPT !.pc = "release"].ws = cleaner[p].ws
              /\ [pc |-> "remove", ws |-> View("runtimed"), visible |-> {}].ws = View("runtimed")
          BY <4>1 DEF NoCleanup
        <5>2. CASE p = q
          BY <3>1, <5>1, <5>2, CleanupEffect
        <5>3. CASE p # q
          BY <3>1, <5>3, CleanupEffect
        <5> QED
          BY <5>2, <5>3
    <3>2. ASSUME NEW q \in Pods, PodSteps(q) PROVE cleaner'[p] \in {cleaner[p], NoCleanup}
      BY <1>a, <3>2 DEF Rest, PodSteps, PodReady, PodUnready, PodStops, PodGone, PodReplaced
    <3>3. ASSUME NEW r \in Runs, CreateRun(r) \/ RunSteps(r) \/ EndRun(r) PROVE UNCHANGED cleaner
      BY <3>3 DEF CreateRun, RunSteps, EndRun, ScheduleRun, StartRun, FinishRun, SetRun
    <3>4. ASSUME NEW c \in Components, ObserveWorkspace(c) PROVE UNCHANGED cleaner
      BY <3>4 DEF ObserveWorkspace
    <3> QED
      BY <3>1, <3>2, <3>3, <3>4, StepKinds, SMTT(30) DEF Revised, Removed, Renewed, Quietly, NoCleanup
  <2>2. /\ cleaner[p].ws \in Workspace /\ Fresh(1) \in Workspace /\ View("runtimed") \in Workspace
        /\ Agreeing(cleaner[p].ws) /\ Agreeing(Fresh(1)) /\ Agreeing(View("runtimed"))
    BY <1>a, Agreements DEF Rest, Copies, Components
  <2> QED
    BY <2>1, <2>2, AgreementKept, SMTT(30) DEF Agreeing
<1> QED
  BY <1>1, <1>2 DEF Copies

\* What the life of a Run does to it and to the files of its Pod.
Moved(r) == \/ /\ runs'[r].gen = runs[r].gen /\ runs'[r].phase \notin {"Scheduled", "Running"}
               /\ UNCHANGED <<dirs, overrun>>
            \/ /\ runs'[r].gen = View("scheduler").gen /\ runs'[r].pod = View("scheduler").pod
               /\ runs'[r].uid = View("scheduler").uid /\ View("scheduler").pod \in Pods
               /\ UNCHANGED <<dirs, overrun>>
            \/ /\ runs'[r].gen = runs[r].gen /\ runs'[r].pod = runs[r].pod /\ runs'[r].uid = runs[r].uid
               /\ runs[r].phase = "Scheduled" /\ Live(runs[r].pod, runs[r].uid)
               /\ dirs' = [dirs EXCEPT ![runs[r].pod] = @ \cup {runs[r].gen}]
               /\ overrun' = IF ws.gen = runs[r].gen /\ ws.alive /\ ~ws.deleting THEN overrun
                             ELSE overrun \cup {runs[r].gen}

LEMMA RunEffect ==
    ASSUME Shaped, NEW r \in Runs, CreateRun(r) \/ RunSteps(r) \/ EndRun(r)
    PROVE  /\ UNCHANGED <<pods, ws, seen, cleaner>>
           /\ \A s \in Runs \ {r} : runs'[s] = runs[s]
           /\ Moved(r)
<1>a. runs \in [Runs -> RunRecord] /\ runs[r] \in RunRecord
  BY ShapedParts DEF Rest
<1>1. ASSUME NEW rec, SetRun(r, rec)
      PROVE  /\ UNCHANGED <<pods, ws, seen, cleaner>> /\ runs'[r] = rec
             /\ \A s \in Runs \ {r} : runs'[s] = runs[s]
  BY <1>a, <1>1 DEF SetRun
<1>2. ASSUME NEW phase, SetRun(r, [runs[r] EXCEPT !.phase = phase])
      PROVE  /\ UNCHANGED <<pods, ws, seen, cleaner>>
             /\ \A s \in Runs \ {r} : runs'[s] = runs[s]
             /\ runs'[r].phase = phase /\ runs'[r].pod = runs[r].pod
             /\ runs'[r].uid = runs[r].uid /\ runs'[r].gen = runs[r].gen
  <2>1. runs'[r] = [runs[r] EXCEPT !.phase = phase]
    BY <1>1, <1>2
  <2>2. runs'[r].phase = phase /\ runs'[r].pod = runs[r].pod
        /\ runs'[r].uid = runs[r].uid /\ runs'[r].gen = runs[r].gen
    BY <1>a, <2>1 DEF RunRecord
  <2> QED
    BY <1>1, <1>2, <2>2
<1>3. CASE CreateRun(r)
  <2>1. SetRun(r, [runs[r] EXCEPT !.phase = "Pending"]) /\ UNCHANGED <<dirs, overrun>>
    BY <1>3 DEF CreateRun
  <2> QED
    BY <1>2, <2>1, SMT DEF Moved
<1>4. CASE FinishRun(r) \/ EndRun(r)
  <2>1. SetRun(r, [runs[r] EXCEPT !.phase = "Done"]) /\ UNCHANGED <<dirs, overrun>>
    BY <1>4 DEF FinishRun, EndRun
  <2> QED
    BY <1>2, <2>1, SMT DEF Moved
<1>5. CASE ScheduleRun(r)
  <2>1. PICK p \in readyRuntimePods :
           /\ workspaceFilter(View("scheduler"), p)
           /\ SetRun(r, [phase |-> "Scheduled", pod |-> p, uid |-> pods[p].uid, gen |-> View("scheduler").gen])
    BY <1>5 DEF ScheduleRun
  <2>2. p \in Pods /\ View("scheduler").pod = p /\ View("scheduler").uid = pods[p].uid
    BY <2>1 DEF workspaceFilter, readyRuntimePods
  <2>3. UNCHANGED <<dirs, overrun>>
    BY <1>5 DEF ScheduleRun
  <2> QED
    BY <1>1, <2>1, <2>2, <2>3, SMTT(30) DEF Moved
<1>6. CASE StartRun(r)
  <2>1. SetRun(r, [runs[r] EXCEPT !.phase = "Running"])
    BY <1>6 DEF StartRun
  <2> QED
    BY <1>2, <1>6, <2>1 DEF Moved, StartRun
<1> QED
  BY <1>3, <1>4, <1>5, <1>6 DEF RunSteps

\* What an event of a Pod does to it, its files and its runtimed.
LEMMA PodEffect ==
    ASSUME Shaped, NEW p \in Pods, PodSteps(p)
    PROVE  /\ UNCHANGED <<ws, seen, runs, overrun>>
           /\ \A q \in Pods \ {p} : pods'[q] = pods[q] /\ dirs'[q] = dirs[q] /\ cleaner'[q] = cleaner[q]
           /\ \/ /\ pods[p].state \in {"ready", "unready"} /\ pods'[p].state # "absent"
                 /\ pods'[p].uid = pods[p].uid /\ dirs'[p] = dirs[p] /\ cleaner'[p] = cleaner[p]
              \/ /\ pods[p].state = "deleting" /\ pods'[p].state = "absent"
                 /\ pods'[p].uid = pods[p].uid /\ dirs'[p] = {} /\ cleaner'[p] = NoCleanup
              \/ /\ pods[p].state = "absent" /\ pods'[p].uid = pods[p].uid + 1
                 /\ dirs'[p] = dirs[p] /\ cleaner'[p] = cleaner[p]
<1>a. /\ pods \in [Pods -> [uid : 1..MaxUid, state : {"ready", "unready", "deleting", "absent"}]]
      /\ DOMAIN dirs = Pods /\ DOMAIN cleaner = Pods /\ dirs = [q \in Pods |-> dirs[q]]
      /\ cleaner = [q \in Pods |-> cleaner[q]]
  BY ShapedParts DEF Rest
<1>1. UNCHANGED <<ws, seen, runs, overrun>>
  BY DEF PodSteps, PodReady, PodUnready, PodStops, PodGone, PodReplaced, PodEvent
<1>2. CASE PodReady(p) \/ PodUnready(p) \/ PodStops(p)
  BY <1>a, <1>1, <1>2, SMT DEF PodReady, PodUnready, PodStops, PodEvent
<1>3. CASE PodGone(p)
  BY <1>a, <1>1, <1>3 DEF PodGone, PodEvent
<1>4. CASE PodReplaced(p)
  BY <1>a, <1>1, <1>4 DEF PodReplaced, PodEvent
<1> QED
  BY <1>2, <1>3, <1>4 DEF PodSteps

\* Every step keeps the Runs where their workspace is bound.
LEMMA PlacedStep ==
    ASSUME Shaped, Copies, Placed, [Next]_vars
    PROVE  Placed'
<1>a. Rest /\ Assignments /\ ws \in Workspace /\ ws.gen \in Nat
  <2>1. ws \in Workspace
    BY ShapedParts
  <2>2. ws.gen \in 1 .. MaxGen
    BY <2>1 DEF Workspace, Gens
  <2> QED
    BY <2>1, <2>2, ShapedParts, WorkspaceAssumption, SMT
<1> SUFFICES ASSUME NEW r \in Runs PROVE PlacedAt(r)'
  BY DEF Placed
<1>b. PlacedAt(r) /\ runs[r].gen \in 0 .. MaxGen /\ runs[r] \in RunRecord
  BY <1>a DEF Placed, Rest, RunRecord
<1>c. runs[r].phase \in {"Scheduled", "Running"} => runs[r].pod # NoPod
  BY <1>a, WorkspaceAssumption DEF Assignments
<1>1. CASE Revised
  BY <1>1, <1>b, <1>c DEF Revised, Revises, PlacedAt
<1>2. CASE Removed
  BY <1>2, <1>a, <1>b, FreshTypes DEF Removed, PlacedAt
<1>3. CASE Renewed
  <2>1. ws'.gen = ws.gen + 1 /\ runs'[r] = runs[r]
    BY <1>3, FreshTypes DEF Renewed
  <2> QED
    BY <1>a, <1>b, <2>1, SMTT(30) DEF PlacedAt
<1>4. CASE ws' = ws /\ runs'[r] = runs[r]
  BY <1>4, <1>b DEF PlacedAt
<1>5. ASSUME NEW s \in Runs, CreateRun(s) \/ RunSteps(s) \/ EndRun(s) PROVE PlacedAt(r)'
  <2>1. CASE s # r
    BY <1>4, <1>5, <2>1, RunEffect
  <2>2. CASE s = r
    <3>1. Moved(r) /\ ws' = ws
      BY <1>5, <2>2, RunEffect
    <3>2. Agreeing(View("scheduler")) /\ View("scheduler") \in Workspace
      BY ViewTypes, Agreements DEF Components, Shaped
    <3> QED
      BY <1>b, <3>1, <3>2, WorkspaceAssumption DEF Moved, PlacedAt, Agreeing
  <2> QED
    BY <2>1, <2>2
<1>6. ASSUME NEW p \in Pods, Cleanup(p) \/ PodSteps(p) PROVE UNCHANGED runs
  BY <1>6, CleanupEffect, PodEffect
<1>7. ASSUME NEW c \in Components, ObserveWorkspace(c) PROVE UNCHANGED runs
  BY <1>7 DEF ObserveWorkspace
<1> QED
  BY <1>1, <1>2, <1>3, <1>4, <1>5, <1>6, <1>7, StepKinds DEF Quietly

\* Every step keeps bindings to incarnations that exist or existed, and losses final.
LEMMA BindingsStep ==
    ASSUME Shaped, Bindings, [Next]_vars
    PROVE  Bindings'
<1>a. Rest /\ ws \in Workspace
  BY ShapedParts
<1>b. \A p \in Pods : pods[p].uid \in Nat
  <2>1. \A p \in Pods : pods[p].uid \in 1 .. MaxUid
    BY <1>a DEF Rest
  <2> QED
    BY <2>1, WorkspaceAssumption, SMT
<1>c. ws.pod # NoPod => ws.pod \in Pods
  BY <1>a DEF Workspace
<1>d. ws.uid \in Nat
  <2>1. ws.uid \in 0 .. MaxUid
    BY <1>a DEF Workspace
  <2> QED
    BY <2>1, WorkspaceAssumption, SMT
<1>1. CASE Revised
  <2>1. pods' = pods /\ Revises(ws, ws')
    BY <1>1 DEF Revised
  <2>2. ws.phase = "Lost" => ws.pod # NoPod
    BY DEF Shaped, TypeOK
  <2>3. ws'.pod # NoPod => ws'.uid <= pods[ws'.pod].uid
    BY <1>b, <2>1, SMT DEF Revises, Bindings
  <2>4. ws'.phase = "Lost" => ~Live(ws'.pod, ws'.uid)
    BY <2>1, <2>2 DEF Revises, Bindings
  <2> QED
    BY <2>1, <2>3, <2>4 DEF Bindings, Live
<1>2. CASE Removed
  BY <1>2, <1>a, FreshTypes DEF Removed, Bindings
<1>3. CASE Renewed
  BY <1>3, FreshTypes DEF Renewed, Bindings
<1>4. CASE UNCHANGED <<ws, pods>>
  BY <1>4 DEF Bindings, Live
<1>5. ASSUME NEW r \in Runs, CreateRun(r) \/ RunSteps(r) \/ EndRun(r) PROVE UNCHANGED pods
  BY <1>5, RunEffect
<1>6. ASSUME NEW p \in Pods, PodSteps(p), ws' = ws PROVE Bindings'
  <2>1. CASE ws.pod = p
    BY <1>b, <1>c, <1>d, <1>6, <2>1, PodEffect, SMTT(30) DEF Bindings, Live
  <2>2. CASE ws.pod # p
    BY <1>c, <1>6, <2>2, PodEffect DEF Bindings, Live
  <2> QED
    BY <2>1, <2>2
<1>7. ASSUME NEW p \in Pods, Cleanup(p) PROVE UNCHANGED pods
  BY <1>7, CleanupEffect
<1>8. ASSUME NEW c \in Components, ObserveWorkspace(c) PROVE UNCHANGED pods
  BY <1>8 DEF ObserveWorkspace
<1> QED
  BY <1>1, <1>2, <1>3, <1>4, <1>5, <1>6, <1>7, <1>8, StepKinds DEF Quietly

\* The numbers of generations are numbers.
LEMMA Generations ==
    ASSUME Shaped
    PROVE  /\ ws.gen \in Nat /\ \A r \in Runs : runs[r].gen \in Nat
           /\ \A p \in Pods : cleaner[p].ws.gen \in Nat /\ \A g \in dirs[p] : g \in Nat
<1>a. Rest /\ ws \in Workspace
  BY ShapedParts
<1>1. ws.gen \in 1 .. MaxGen /\ \A p \in Pods : cleaner[p].ws.gen \in 1 .. MaxGen
  BY <1>a DEF Rest, Workspace, Gens
<1>2. \A r \in Runs : runs[r].gen \in 0 .. MaxGen
  BY <1>a DEF Rest, RunRecord
<1>3. \A p \in Pods : \A g \in dirs[p] : g \in 1 .. MaxGen
  BY <1>a DEF Rest, Gens
<1> QED
  BY <1>1, <1>2, <1>3, WorkspaceAssumption, SMT

\* A Run that starts leaves files only where it was placed; where they are not of
\* a workspace in use, it started late.
LEMMA StartEffect ==
    ASSUME Shaped, Placed, NEW r \in Runs, CreateRun(r) \/ RunSteps(r) \/ EndRun(r), NEW p \in Pods
    PROVE  /\ overrun \subseteq overrun'
           /\ \A g \in dirs'[p] \ dirs[p] :
                 /\ g <= ws.gen /\ pods[p].state \in {"ready", "unready"}
                 /\ \/ g \in overrun'
                    \/ ws.gen = g /\ ws.alive /\ ~ws.deleting /\ p = ws.pod /\ pods[p].uid = ws.uid
<1>a. Rest /\ Assignments
  BY ShapedParts
<1>1. Moved(r) /\ PlacedAt(r)
  BY RunEffect DEF Placed
<1>2. CASE UNCHANGED <<dirs, overrun>>
  BY <1>2
<1>3. CASE /\ runs[r].phase = "Scheduled" /\ Live(runs[r].pod, runs[r].uid)
           /\ dirs' = [dirs EXCEPT ![runs[r].pod] = @ \cup {runs[r].gen}]
           /\ overrun' = IF ws.gen = runs[r].gen /\ ws.alive /\ ~ws.deleting THEN overrun
                         ELSE overrun \cup {runs[r].gen}
  <2>1. dirs'[p] = IF p = runs[r].pod THEN dirs[p] \cup {runs[r].gen} ELSE dirs[p]
    BY <1>a, <1>3 DEF Rest
  <2>2. \A g \in dirs'[p] \ dirs[p] : g = runs[r].gen /\ p = runs[r].pod
    BY <2>1
  <2>3. overrun \subseteq overrun'
    BY <1>3
  <2>4. runs[r].gen \in overrun' \/ (ws.gen = runs[r].gen /\ ws.alive /\ ~ws.deleting)
    BY <1>3
  <2> QED
    BY <1>1, <1>3, <2>2, <2>3, <2>4 DEF PlacedAt, Live
<1> QED
  BY <1>1, <1>2, <1>3 DEF Moved

\* Every step keeps files where the Runs of their workspace were placed.
LEMMA FilesStep ==
    ASSUME Shaped, Placed, Files, [Next]_vars
    PROVE  Files'
<1>a. Rest /\ ws \in Workspace
  BY ShapedParts
<1> SUFFICES ASSUME NEW p \in Pods PROVE FilesAt(p)'
  BY DEF Files
<1>b. FilesAt(p) /\ p # NoPod
  BY WorkspaceAssumption DEF Files
<1>1. CASE Revised
  BY <1>1, <1>b DEF Revised, Revises, FilesAt
<1>2. CASE Removed
  BY <1>2, <1>a, <1>b, FreshTypes DEF Removed, FilesAt
<1>3. CASE Renewed
  <2>1. ws'.gen = ws.gen + 1 /\ UNCHANGED <<pods, dirs>>
    BY <1>3, FreshTypes DEF Renewed
  <2> QED
    BY <1>b, <2>1, Generations, SMTT(30) DEF FilesAt
<1>4. CASE /\ ws' = ws /\ dirs'[p] \subseteq dirs[p] /\ pods'[p] = pods[p] /\ overrun \subseteq overrun'
  BY <1>4, <1>b DEF FilesAt
<1>5. ASSUME NEW r \in Runs, CreateRun(r) \/ RunSteps(r) \/ EndRun(r), ws' = ws PROVE FilesAt(p)'
  <2>1. pods' = pods
    BY <1>5, RunEffect
  <2> QED
    BY <1>5, <1>b, <2>1, StartEffect DEF FilesAt
<1>6. ASSUME NEW q \in Pods, PodSteps(q), ws' = ws PROVE FilesAt(p)'
  <2>1. CASE q # p
    BY <1>4, <1>6, <2>1, PodEffect
  <2>2. CASE q = p
    BY <1>b, <1>6, <2>2, PodEffect DEF FilesAt
  <2> QED
    BY <2>1, <2>2
<1>7. ASSUME NEW q \in Pods, Cleanup(q), ws' = ws PROVE FilesAt(p)'
  <2>1. dirs'[p] \subseteq dirs[p] /\ UNCHANGED <<pods, overrun>>
    BY <1>7, CleanupEffect
  <2> QED
    BY <1>4, <1>7, <2>1
<1>8. ASSUME NEW c \in Components, ObserveWorkspace(c) PROVE UNCHANGED <<dirs, pods, overrun>>
  BY <1>8 DEF ObserveWorkspace
<1> QED
  BY <1>1, <1>2, <1>3, <1>4, <1>5, <1>6, <1>7, <1>8, StepKinds DEF Quietly

\* Every step keeps the cleanups to deleted workspaces.
LEMMA CleaningStep ==
    ASSUME Shaped, Copies, Placed, Cleaning, [Next]_vars
    PROVE  Cleaning'
<1>a. Rest /\ ws \in Workspace
  BY ShapedParts
<1> SUFFICES ASSUME NEW p \in Pods PROVE CleaningAt(p)'
  BY DEF Cleaning
<1>b. CleaningAt(p) /\ Agreeing(cleaner[p].ws)
  BY DEF Cleaning, Copies
<1>c. cleaner[p] \in [pc : {"idle", "remove", "release"}, ws : Workspace, visible : SUBSET Runs]
  BY <1>a DEF Rest
<1>d. NoCleanup.pc = "idle"
  BY DEF NoCleanup
<1>1. CASE Revised
  BY <1>1, <1>b DEF Revised, Revises, CleaningAt
<1>2. CASE Removed
  BY <1>2, <1>a, <1>b, <1>d, FreshTypes DEF Removed, CleaningAt
<1>3. CASE Renewed
  <2>1. ws'.gen = ws.gen + 1 /\ UNCHANGED cleaner
    BY <1>3, FreshTypes DEF Renewed
  <2> QED
    BY <1>b, <2>1, Generations, SMTT(30) DEF CleaningAt, Agreeing
<1>4. CASE /\ ws' = ws /\ dirs'[p] \subseteq dirs[p] /\ cleaner'[p] \in {cleaner[p], NoCleanup}
           /\ overrun \subseteq overrun'
  BY <1>4, <1>b, <1>d DEF CleaningAt
<1>5. ASSUME NEW r \in Runs, CreateRun(r) \/ RunSteps(r) \/ EndRun(r), ws' = ws PROVE CleaningAt(p)'
  <2>1. cleaner' = cleaner
    BY <1>5, RunEffect
  <2> QED
    BY <1>5, <1>b, <2>1, StartEffect DEF CleaningAt, Agreeing
<1>6. ASSUME NEW q \in Pods, PodSteps(q), ws' = ws PROVE CleaningAt(p)'
  <2>1. CASE q # p
    BY <1>4, <1>6, <2>1, PodEffect
  <2>2. CASE q = p
    BY <1>4, <1>6, <2>2, PodEffect
  <2> QED
    BY <2>1, <2>2
<1>7. ASSUME NEW q \in Pods, Cleanup(q), ws' = ws PROVE CleaningAt(p)'
  <2>1. CASE q # p
    BY <1>4, <1>7, <2>1, CleanupEffect
  <2>2. CASE q = p
    <3>1. CASE cleaner'[p] \in {cleaner[p], NoCleanup} /\ dirs'[p] = dirs[p]
      BY <1>4, <1>7, <2>2, <3>1, CleanupEffect
    <3>2. CASE /\ cleaner'[p] = [pc |-> "remove", ws |-> View("runtimed"), visible |-> {}]
               /\ View("runtimed").deleting /\ View("runtimed").pod = p
      BY <3>2, SMT DEF CleaningAt
    <3>3. CASE /\ cleaner[p].pc = "remove" /\ cleaner'[p] = [cleaner[p] EXCEPT !.pc = "release"]
               /\ dirs'[p] = {}
      <4>1. cleaner'[p].pc = "release" /\ cleaner'[p].ws = cleaner[p].ws
        BY <1>c, <3>3
      <4> QED
        BY <1>b, <3>3, <4>1 DEF CleaningAt
    <3> QED
      BY <1>7, <2>2, <3>1, <3>2, <3>3, CleanupEffect
  <2> QED
    BY <2>1, <2>2
<1>8. ASSUME NEW c \in Components, ObserveWorkspace(c) PROVE UNCHANGED <<dirs, cleaner, overrun>>
  BY <1>8 DEF ObserveWorkspace
<1> QED
  BY <1>1, <1>2, <1>3, <1>4, <1>5, <1>6, <1>7, <1>8, StepKinds DEF Quietly

\* A workspace deleted without the finalizer stays known as such.
LEMMA UnguardedGrows ==
    ASSUME [Next]_vars
    PROVE  unguarded \subseteq unguarded'
<1>1. ASSUME NEW r \in Runs, CreateRun(r) \/ RunSteps(r) \/ EndRun(r) PROVE UNCHANGED unguarded
  BY <1>1 DEF CreateRun, RunSteps, EndRun, ScheduleRun, StartRun, FinishRun, SetRun
<1>2. ASSUME NEW p \in Pods, Cleanup(p) \/ PodSteps(p) PROVE UNCHANGED unguarded
  BY <1>2 DEF Cleanup, CleanupCheck, removePersistentWorkspaceDirectory, RemoveFinalizer,
              PodSteps, PodReady, PodUnready, PodStops, PodGone, PodReplaced, PodEvent
<1>3. CASE Observe \/ ControllerCleanup \/ RecreateWorkspace \/ RuntimeDeleted \/ TimePasses \/ UNCHANGED vars
  BY <1>3 DEF Observe, ObserveWorkspace, ObserveRuns, ControllerCleanup, RecreateWorkspace,
              RuntimeDeleted, TimePasses, vars
<1>4. CASE ControllerReconcile \/ DeleteWorkspace
  BY <1>4 DEF ControllerReconcile, ReconcileDeleting, RequestDeletion, WriteStatus, DeleteWorkspace
<1> QED
  BY <1>1, <1>2, <1>3, <1>4 DEF Next, PodSteps

\* What NothingLeft says of the files of one Pod.
NothingAt(p) == \A g \in dirs[p] : \/ ws.alive /\ ws.gen = g
                                   \/ g \in unguarded \cup overrun
                                   \/ pods[p].state = "deleting"

\* Every step leaves nothing behind.
LEMMA NothingLeftStep ==
    ASSUME Shaped, Placed, Bindings, Files, Cleaning, NothingLeft, [Next]_vars
    PROVE  NothingLeft'
<1>a. Rest /\ ws \in Workspace
  BY ShapedParts
<1> SUFFICES ASSUME NEW p \in Pods PROVE NothingAt(p)'
  BY DEF NothingLeft, NothingAt
<1>b. NothingAt(p) /\ FilesAt(p) /\ p # NoPod /\ unguarded \subseteq unguarded'
  BY UnguardedGrows, WorkspaceAssumption DEF NothingLeft, NothingAt, Files
<1>1. CASE Revised
  BY <1>1, <1>b DEF Revised, Revises, NothingAt
<1>2. CASE Removed
  <2>1. SUFFICES ASSUME ws.alive, ws.gen \in dirs[p], ws.gen \notin unguarded', ws.gen \notin overrun,
                        pods[p].state # "deleting"
                 PROVE  FALSE
    BY <1>2, <1>b DEF Removed, NothingAt
  <2>2. p = ws.pod /\ pods[p].uid = ws.uid /\ pods[p].state # "absent"
    BY <1>b, <2>1 DEF FilesAt
  <2>3. pods[p].state \in {"ready", "unready", "deleting", "absent"} /\ pods[p].uid # 0
    BY <1>a, WorkspaceAssumption, SMT DEF Rest
  <2>4. Live(ws.pod, ws.uid)
    BY <2>1, <2>2, <2>3 DEF Live
  <2>5. ws.phase # "Lost" /\ ~boundWorkspacePodLost(ws)
    BY <1>b, <2>2, <2>3, <2>4 DEF Bindings, boundWorkspacePodLost
  <2>6. ASSUME NEW q \in Pods, cleaner[q].pc = "release", cleaner[q].ws = ws PROVE FALSE
    <3>1. CleaningAt(q)
      BY DEF Cleaning
    <3>2. ws.pod = q /\ ws.gen \notin dirs[q] \ overrun
      BY <2>1, <2>6, <3>1 DEF CleaningAt
    <3> QED
      BY <2>1, <2>2, <3>2
  <2> QED
    BY <1>2, <2>1, <2>5, <2>6 DEF Removed
<1>3. CASE Renewed
  BY <1>3, <1>b DEF Renewed, NothingAt
<1>4. CASE /\ ws' = ws /\ dirs'[p] \subseteq dirs[p] /\ pods'[p] = pods[p] /\ overrun \subseteq overrun'
  BY <1>4, <1>b DEF NothingAt
<1>5. ASSUME NEW r \in Runs, CreateRun(r) \/ RunSteps(r) \/ EndRun(r), ws' = ws PROVE NothingAt(p)'
  <2>1. pods' = pods
    BY <1>5, RunEffect
  <2> QED
    BY <1>5, <1>b, <2>1, StartEffect DEF NothingAt
<1>6. ASSUME NEW q \in Pods, PodSteps(q), ws' = ws PROVE NothingAt(p)'
  <2>1. CASE q # p
    BY <1>4, <1>6, <2>1, PodEffect
  <2>2. CASE q = p
    BY <1>b, <1>6, <2>2, PodEffect DEF FilesAt, NothingAt
  <2> QED
    BY <2>1, <2>2
<1>7. ASSUME NEW q \in Pods, Cleanup(q), ws' = ws PROVE NothingAt(p)'
  <2>1. dirs'[p] \subseteq dirs[p] /\ UNCHANGED <<pods, overrun>>
    BY <1>7, CleanupEffect
  <2> QED
    BY <1>4, <1>7, <2>1
<1>8. ASSUME NEW c \in Components, ObserveWorkspace(c) PROVE UNCHANGED <<dirs, pods, overrun>>
  BY <1>8 DEF ObserveWorkspace
<1> QED
  BY <1>1, <1>2, <1>3, <1>4, <1>5, <1>6, <1>7, <1>8, StepKinds DEF Quietly

-------------------------------------------------------------------------------
(* The theorems. *)

Everything == Shaped /\ Copies /\ Placed /\ Bindings /\ Files /\ Cleaning /\ NothingLeft

\* A workspace that was just created, nothing placed, nothing stored.
LEMMA EverythingInit == Init => Everything
<1> SUFFICES ASSUME Init PROVE Everything
  OBVIOUS
<1>a. /\ 1 \in Gens /\ 0 \in 0 .. MaxUid /\ 0 \in 0 .. MaxGen /\ 1 \in 1 .. MaxUid /\ 0 \in 0 .. MaxTime
      /\ env \in Scenario
  BY WorkspaceAssumption, SMTT(30) DEF Init, Gens
<1>b. /\ Fresh(1) \in Workspace /\ Fresh(1).gen = 1 /\ Fresh(1).pod = NoPod /\ Fresh(1).uid = 0
      /\ Fresh(1).phase = "" /\ ~Fresh(1).deleting
  BY <1>a, FreshTypes
<1>c. \A r \in Runs : runs[r] = [phase |-> "None", pod |-> NoPod, uid |-> 0, gen |-> 0]
  BY DEF Init
<1>d. runs \in [Runs -> RunRecord]
  BY <1>a DEF Init, RunRecord
<1>e. \A p \in Pods : cleaner[p] = NoCleanup /\ dirs[p] = {} /\ NoCleanup.ws = Fresh(1) /\ NoCleanup.pc = "idle"
  BY DEF Init, NoCleanup
<1>1. Shaped
  <2>1. pods \in [Pods -> [uid : 1..MaxUid, state : {"ready", "unready", "deleting", "absent"}]]
    BY <1>a DEF Init, Scenario
  <2>2. cleaner \in [Pods -> [pc : {"idle", "remove", "release"}, ws : Workspace, visible : SUBSET Runs]]
    BY <1>b DEF Init, NoCleanup
  <2>3. Rest
    BY <1>a, <1>b, <1>d, <2>1, <2>2 DEF Init, Rest
  <2>4. Control
    BY <1>b DEF Init, Control, Idle
  <2>5. Assignments
    BY <1>c, SMTT(30) DEF Assignments
  <2> QED
    BY <1>a, <1>b, <2>3, <2>4, <2>5, ShapedParts DEF Init, Consistent
<1>f. ws = Fresh(1) /\ \A c \in Components : seen[c] = Fresh(1)
  BY DEF Init
<1>g. /\ ws.gen = 1 /\ ws.pod = NoPod /\ ws.uid = 0
      /\ Fresh(1).gen = 1 /\ Fresh(1).pod = NoPod /\ ~Fresh(1).deleting
  BY <1>b, <1>f
<1>2. Copies
  <2>1. Agreeing(Fresh(1))
    BY <1>g, SMT DEF Agreeing
  <2> QED
    BY <1>e, <1>f, <2>1 DEF Copies
<1>3. Placed
  <2>1. \A r \in Runs : runs[r].gen = 0 /\ runs[r].phase = "None"
    BY <1>c, SMTT(30)
  <2> QED
    BY <1>g, <2>1, SMT DEF Placed, PlacedAt
<1>4. Bindings
  BY <1>b DEF Init, Bindings
<1>5. Files /\ Cleaning /\ NothingLeft
  BY <1>e DEF Files, FilesAt, Cleaning, CleaningAt, NothingLeft
<1> QED
  BY <1>1, <1>2, <1>3, <1>4, <1>5 DEF Everything

\* The inductive invariant holds in every reachable state.
LEMMA EverythingAlways == Spec => []Everything
<1>1. Everything /\ [Next]_vars => Everything'
  BY ShapedStep, CopiesStep, PlacedStep, BindingsStep, FilesStep, CleaningStep, NothingLeftStep DEF Everything
<1> QED
  BY <1>1, EverythingInit, PTL DEF Spec

\* A Run works in its own workspace's files: it is placed and runs on the very
\* incarnation of the Pod its workspace is bound to, and every record, cache and
\* queue keeps its type, whatever the scheduler's cache shows when it binds.
THEOREM RunsStayWhereBound == Spec => []RunsWhereBound
<1>1. Everything => RunsWhereBound
  BY DEF Everything, Shaped, Placed, PlacedAt, RunsWhereBound
<1> QED
  BY <1>1, EverythingAlways, PTL

\* Once a workspace is gone no live Pod holds files of it, unless it was deleted
\* before the controller had added the finalizer or a Run of it started after its
\* deletion was requested.
THEOREM NothingIsLeft == Spec => []NothingLeft
<1>1. Everything => NothingLeft
  BY DEF Everything
<1> QED
  BY <1>1, EverythingAlways, PTL

\* A workspace keeps its place and its files while it is in use: the controller
\* never moves a binding, and runtimed removes the directory neither before the
\* deletion was requested nor under a Run its cache shows.
THEOREM FilesStayKept == Spec => FilesKept
<1> DEFINE Sticks == Bound /\ ws'.gen = ws.gen /\ ws'.alive => ws'.pod = ws.pod /\ ws'.uid = ws.uid
           Sweeps == \A p \in Pods :
                        cleaner[p].pc = "remove" /\ cleaner'[p].pc = "release" =>
                            \A r \in cleaner[p].visible : ~(runs[r].phase = "Running" /\ Live(p, runs[r].uid))
           Keeps == \A p \in Pods : \A g \in dirs[p] \ dirs'[p] :
                        \/ pods[p].state = "deleting"
                        \/ ~ws.alive \/ ws.gen # g \/ ws.deleting
                        \/ cleaner[p].ws.gen # g
<1>1. Everything /\ [Next]_vars => Sticks
  <2> SUFFICES ASSUME Everything, [Next]_vars PROVE Sticks
    OBVIOUS
  <2>1. ws \in Workspace /\ Shaped
    BY ShapedParts DEF Everything
  <2>2. CASE Removed
    BY <2>1, <2>2, FreshTypes DEF Removed
  <2> QED
    BY <2>1, <2>2, StoredStep DEF Revised, Revises, Renewed, Bound
<1>2. Everything => Sweeps
  BY DEF Everything, Cleaning, CleaningAt
<1>3. Everything /\ [Next]_vars => Keeps
  <2> SUFFICES ASSUME Everything, [Next]_vars, NEW p \in Pods, NEW g \in dirs[p], g \notin dirs'[p]
               PROVE  \/ pods[p].state = "deleting"
                      \/ ~ws.alive \/ ws.gen # g \/ ws.deleting
                      \/ cleaner[p].ws.gen # g
    OBVIOUS
  <2>a. Shaped /\ Placed /\ CleaningAt(p) /\ Agreeing(cleaner[p].ws)
    BY DEF Everything, Cleaning, Copies
  <2>1. ASSUME NEW r \in Runs, CreateRun(r) \/ RunSteps(r) \/ EndRun(r) PROVE g \in dirs'[p]
    <3>1. Moved(r) /\ Rest
      BY <2>a, <2>1, RunEffect, ShapedParts
    <3> QED
      BY <3>1, SMTT(30) DEF Moved, Rest
  <2>2. ASSUME NEW q \in Pods, PodSteps(q) PROVE pods[p].state = "deleting"
    BY <2>a, <2>2, PodEffect
  <2>3. ASSUME NEW q \in Pods, Cleanup(q) PROVE cleaner[p].pc = "remove"
    BY <2>a, <2>3, CleanupEffect
  <2>4. ASSUME NEW c \in Components, ObserveWorkspace(c) PROVE UNCHANGED dirs
    BY <2>4 DEF ObserveWorkspace
  <2>5. pods[p].state = "deleting" \/ cleaner[p].pc = "remove"
    BY <2>a, <2>1, <2>2, <2>3, <2>4, StepKinds DEF Revised, Removed, Renewed, Quietly
  <2> QED
    BY <2>a, <2>5 DEF CleaningAt, Agreeing
<1>4. Everything /\ [Next]_vars => Sticks /\ Sweeps /\ Keeps
  BY <1>1, <1>2, <1>3
<1>5. Spec => [][Sticks]_vars /\ [][Sweeps]_vars /\ [][Keeps]_vars
  <2> HIDE DEF Sticks, Sweeps, Keeps
  <2> QED
    BY <1>4, EverythingAlways, PTL DEF Spec
<1> QED
  BY <1>5 DEF FilesKept, BindingSticks, SweepsUnseenOnly, KeptUntilDeleted
==============================================================================
