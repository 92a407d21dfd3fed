------------------------------ MODULE Workspaces ------------------------------
(* A PersistentWorkspace: a directory of one Runtime Pod that outlives the   *)
(* Runs using it.  Four programs act on it.  The PersistentWorkspace          *)
(* controller binds it to a Pod, stamps when it fell out of use, releases it  *)
(* after its TTL and deletes it; the scheduler places the Runs that name it   *)
(* on its Pod; the bound Pod's runtimed runs them and, once the object is     *)
(* being deleted, removes the directory and then the finalizer; users create  *)
(* and delete it.  The directory is named after the workspace, not after its  *)
(* UID, so a second workspace of the same name finds the same path.           *)
EXTENDS Naturals, FiniteSets

CONSTANTS
    Pods,       \* Pod names of the Runtime
    NoPod,
    Runs,       \* Runs that name the workspace
    MaxUid,     \* incarnations of a Pod name
    MaxGen,     \* times a workspace of this name is created
    MaxTime,    \* unused TTLs that elapse
    Scenarios   \* what the environment does in a behaviour

Components == {"controller", "scheduler", "runtimed"}

Scenario == [lag : SUBSET Components, runLag : SUBSET {"controller", "runtimed"},
             ttl : BOOLEAN, delete : BOOLEAN, gens : 1..MaxGen, dies : SUBSET Pods, unready : BOOLEAN,
             runtimeGoes : BOOLEAN, start : {"ready", "unready"}, pods : SUBSET Pods,
             runs : SUBSET Runs]

ASSUME WorkspaceAssumption ==
    /\ NoPod \notin Pods /\ "controller" \notin Pods
    /\ MaxUid \in Nat \ {0} /\ MaxGen \in Nat \ {0} /\ MaxTime \in Nat
    /\ Scenarios \subseteq Scenario

VARIABLES
    env,        \* the scenario
    runtime,    \* the Runtime object exists
    pods,       \* Pod name -> its incarnation and state
    ws,         \* the stored object
    seen,       \* component -> its cached object
    runs,       \* the stored Runs
    seenRuns,   \* component -> its cached Runs
    ctl,        \* the controller's reconcile between two of its writes
    cleaner,    \* Pod -> its runtimed's cleanup reconcile
    due,        \* reconcile queues with work
    dirs,       \* Pod -> generations with files in the directory
    elapsed,    \* the last LastUsedTime whose TTL has elapsed
    unguarded,  \* generations deleted before they had the finalizer
    overrun     \* generations in which a Run started once deletion was requested

vars == <<env, runtime, pods, ws, seen, runs, seenRuns, ctl, cleaner, due, dirs, elapsed,
          unguarded, overrun>>

Gens == 1..MaxGen
Terminal(r) == r.phase = "Done"

Fresh(g) == [gen |-> g, alive |-> TRUE, phase |-> "", pod |-> NoPod, uid |-> 0, used |-> 0,
             inUse |-> "Unknown", finalizer |-> FALSE, deleting |-> FALSE]

Gone(w) == [Fresh(w.gen) EXCEPT !.alive = FALSE]

Workspace == [gen : Gens, alive : BOOLEAN, phase : {"", "Pending", "Bound", "Lost", "Released"},
              pod : Pods \cup {NoPod}, uid : 0..MaxUid, used : 0..MaxTime + 1,
              inUse : {"Unknown", "True", "False"}, finalizer : BOOLEAN, deleting : BOOLEAN]

RunRecord == [phase : {"None", "Pending", "Scheduled", "Running", "Done"},
              pod : Pods \cup {NoPod}, uid : 0..MaxUid, gen : 0..MaxGen]

-------------------------------------------------------------------------------
(* Caches and queues.  A cache lags only where the scenario says so; a change *)
(* a cache shows wakes the reconcilers that watch the object.                 *)

View(c) == IF c \in env.lag THEN seen[c] ELSE ws
RunsView(c) == IF c \in env.runLag THEN seenRuns[c] ELSE runs

(* Events of the object: its controller, and the runtimed it is bound to. *)
Watching(c, w) == IF c = "controller" THEN {"controller"}
                  ELSE IF c = "runtimed" /\ w.pod # NoPod THEN {w.pod} ELSE {}

(* workspacesForRun: the controller always, a runtimed for Runs assigned to it. *)
WatchingRuns(c, old, new) ==
    IF old = new THEN {}
    ELSE IF c = "controller" THEN {"controller"}
    ELSE {new[r].pod : r \in {q \in Runs : new[q] # old[q]}} \ {NoPod}

Woken(w, rs) ==
    LET byObject(c) == IF w = ws \/ c \in env.lag THEN {} ELSE Watching(c, w)
        byRuns(c) == IF c \in env.runLag THEN {} ELSE WatchingRuns(c, runs, rs)
    IN UNION {byObject(c) \cup byRuns(c) : c \in {"controller", "runtimed"}}

ObserveWorkspace(c) ==
    /\ c \in env.lag
    /\ seen[c] # ws
    /\ seen' = [seen EXCEPT ![c] = ws]
    /\ due' = due \cup Watching(c, ws)
    /\ UNCHANGED <<env, runtime, pods, ws, runs, seenRuns, ctl, cleaner, dirs, elapsed, unguarded,
                   overrun>>

ObserveRuns(c) ==
    /\ c \in env.runLag
    /\ seenRuns[c] # runs
    /\ seenRuns' = [seenRuns EXCEPT ![c] = runs]
    /\ due' = due \cup WatchingRuns(c, seenRuns[c], runs)
    /\ UNCHANGED <<env, runtime, pods, ws, seen, runs, ctl, cleaner, dirs, elapsed, unguarded, overrun>>

-------------------------------------------------------------------------------
(* The controller's decisions, as functions of the object it read. *)

Live(p, u) == pods[p].uid = u /\ pods[p].state \in {"ready", "unready"}

(* (Mutant of boundWorkspacePodLost: a Pod that is not ready counts as lost.) *)
PodLostUnready(w) == w.pod = NoPod \/ w.uid = 0 \/ ~(pods[w.pod].uid = w.uid /\ pods[w.pod].state = "ready")

(* boundWorkspacePodLost: nothing is left to clean once the recorded Pod is gone. *)
boundWorkspacePodLost(w) == w.pod = NoPod \/ w.uid = 0 \/ ~Live(w.pod, w.uid)

readyRuntimePods == {p \in Pods : pods[p].state = "ready"}

(* bindPendingWorkspace; selectPersistentWorkspacePod hashes the UID over the *)
(* ready Pods: any of them, for a UID not known in advance.                   *)
bindPendingWorkspace(w) ==
    IF readyRuntimePods = {} THEN {[w EXCEPT !.phase = "Pending"]}
    ELSE {[w EXCEPT !.phase = "Bound", !.pod = p, !.uid = pods[p].uid] : p \in readyRuntimePods}

(* (Mutant of reconcileBoundWorkspace: the UID of the Pod is not compared.) *)
BoundByName(w) == [w EXCEPT !.phase = IF pods[w.pod].state # "absent" THEN "Bound" ELSE "Lost"]

reconcileBoundWorkspace(w) == [w EXCEPT !.phase = IF Live(w.pod, w.uid) THEN "Bound" ELSE "Lost"]

workspaceHasActiveRuns ==
    \E r \in Runs : RunsView("controller")[r].phase # "None" /\ ~Terminal(RunsView("controller")[r])

(* reconcileWorkspaceUsage: the stamp is taken when use ends, not while it lasts. *)
reconcileWorkspaceUsage(w) ==
    IF workspaceHasActiveRuns THEN [w EXCEPT !.inUse = "True"]
    ELSE IF w.inUse = "False" THEN w
    ELSE [w EXCEPT !.inUse = "False", !.used = elapsed + 1]

(* What Reconcile makes of the status before it writes it. *)
Reconciled(w) ==
    LET base == IF w.phase = "" THEN [w EXCEPT !.phase = "Pending"] ELSE w
        bound == reconcileBoundWorkspace(base)
    IN  IF ~runtime \/ base.phase \in {"Lost", "Released"} THEN {base}
        ELSE IF base.pod = NoPod THEN bindPendingWorkspace(base)
        ELSE {IF bound.phase = "Bound" THEN reconcileWorkspaceUsage(bound) ELSE bound}

-------------------------------------------------------------------------------
(* The controller. *)

Idle == [pc |-> "idle", ws |-> Fresh(1)]

(* An update carries the version it was read at. *)
Current(w) == w = ws

(* A delete marks an object with a finalizer and removes one without. *)
Deleted(w) == IF ~w.alive THEN w ELSE IF w.finalizer THEN [w EXCEPT !.deleting = TRUE] ELSE Gone(w)

(* reconcileDeletingWorkspace *)
ReconcileDeleting(w) ==
    /\ ctl' = Idle
    /\ IF w.finalizer /\ (w.phase = "Lost" \/ boundWorkspacePodLost(w))
       THEN IF Current(w)
            THEN /\ ws' = Gone(ws)
                 /\ due' = (due \ {"controller"}) \cup Woken(Gone(ws), runs)
            ELSE UNCHANGED <<ws, due>>
       ELSE /\ due' = due \ {"controller"}
            /\ UNCHANGED ws
    /\ UNCHANGED unguarded

(* requestPersistentWorkspaceDeletion: by name, whatever object now has it. *)
RequestDeletion ==
    /\ ws' = Deleted(ws)
    /\ unguarded' = IF ws.alive /\ ~ws.finalizer THEN unguarded \cup {ws.gen} ELSE unguarded
    /\ due' = (due \ {"controller"}) \cup Woken(Deleted(ws), runs)
    /\ ctl' = Idle

(* updatePersistentWorkspaceStatus, and what follows it in the same reconcile. *)
WriteStatus(w, s) ==
    /\ IF s = w THEN UNCHANGED ws ELSE Current(w) /\ ws' = s
    /\ IF runtime /\ s.pod # NoPod /\ w.pod # NoPod /\ w.phase \notin {"Lost", "Released"}
       THEN ctl' = [pc |-> "cleanup", ws |-> s]
       ELSE ctl' = Idle
    /\ due' = (due \ {"controller"}) \cup Woken(ws', runs)
    /\ UNCHANGED unguarded

ControllerReconcile ==
    /\ "controller" \in due
    /\ ctl.pc = "idle"
    /\ \E w \in {View("controller")} :
         \/ /\ ~w.alive
            /\ due' = due \ {"controller"}
            /\ UNCHANGED <<ws, ctl, unguarded>>
         \/ w.alive /\ w.deleting /\ ReconcileDeleting(w)
         \/ w.alive /\ ~w.deleting /\ runtime /\ w.phase = "Released" /\ RequestDeletion
         \/ /\ w.alive /\ ~w.deleting /\ ~(runtime /\ w.phase = "Released")
            /\ \E s \in Reconciled(w) :
                 \/ WriteStatus(w, s)
                 \/ /\ s # w /\ ~Current(w)     \* conflict: the request is retried
                    /\ UNCHANGED <<ws, ctl, due, unguarded>>
    /\ UNCHANGED <<env, runtime, pods, seen, runs, seenRuns, cleaner, dirs, elapsed, overrun>>

(* reconcilePersistentWorkspaceCleanup on the object the status write returned. *)
Cleaned(h) ==
    IF ~h.finalizer THEN [h EXCEPT !.finalizer = TRUE]
    ELSE IF env.ttl /\ h.used # 0 /\ h.used <= elapsed THEN [h EXCEPT !.phase = "Released"]
    ELSE h

ControllerCleanup ==
    /\ ctl.pc = "cleanup"
    /\ ctl' = Idle
    /\ \E h \in {ctl.ws} : \E c \in {Cleaned(h)} :
         IF c # h /\ ~Current(h)
         THEN UNCHANGED ws /\ due' = due \cup {"controller"}     \* conflict: retried
         ELSE ws' = (IF c = h THEN ws ELSE c) /\ due' = due \cup Woken(ws', runs)
    /\ UNCHANGED <<env, runtime, pods, seen, runs, seenRuns, cleaner, dirs, elapsed, unguarded, overrun>>

-------------------------------------------------------------------------------
(* The bound Pod's runtimed. *)

NoCleanup == [pc |-> "idle", ws |-> Fresh(1), visible |-> {}]

(* The active Runs of this Pod incarnation that its cache shows. *)
LocalRuns(p) == {r \in Runs : /\ RunsView("runtimed")[r].pod = p
                              /\ RunsView("runtimed")[r].uid = pods[p].uid
                              /\ ~Terminal(RunsView("runtimed")[r])}

(* (Mutant of hasActiveLocalRuns: a Scheduled Run does not count.) *)
OnlyRunning(p) == \E r \in LocalRuns(p) : RunsView("runtimed")[r].phase = "Running"
hasActiveLocalRuns(p) == LocalRuns(p) # {}

(* boundRuntimePod reads the Pod from the API server, not from the cache. *)
boundRuntimePod(p, w) == w.pod = p /\ w.uid # 0 /\ Live(p, w.uid)

CleanupWanted(w) == w.alive /\ w.deleting /\ w.finalizer

CleanupCheck(p) ==
    /\ p \in due
    /\ pods[p].state # "absent"
    /\ cleaner[p].pc = "idle"
    /\ due' = due \ {p}
    /\ \E w \in {View("runtimed")} :
         cleaner' = IF CleanupWanted(w) /\ boundRuntimePod(p, w) /\ ~hasActiveLocalRuns(p)
                    THEN [cleaner EXCEPT ![p] = [pc |-> "remove", ws |-> w, visible |-> LocalRuns(p)]]
                    ELSE cleaner
    /\ UNCHANGED <<env, runtime, pods, ws, seen, runs, seenRuns, ctl, dirs, elapsed, unguarded, overrun>>

removePersistentWorkspaceDirectory(p) ==
    /\ cleaner[p].pc = "remove"
    /\ dirs' = [dirs EXCEPT ![p] = {}]
    /\ cleaner' = [cleaner EXCEPT ![p].pc = "release"]
    /\ UNCHANGED <<env, runtime, pods, ws, seen, runs, seenRuns, ctl, due, elapsed, unguarded, overrun>>

RemoveFinalizer(p) ==
    /\ cleaner[p].pc = "release"
    /\ cleaner' = [cleaner EXCEPT ![p] = NoCleanup]
    /\ IF Current(cleaner[p].ws)
       THEN ws' = Gone(ws) /\ due' = due \cup Woken(Gone(ws), runs)
       ELSE UNCHANGED ws /\ due' = due \cup {p}     \* conflict: retried
    /\ UNCHANGED <<env, runtime, pods, seen, runs, seenRuns, ctl, dirs, elapsed, unguarded, overrun>>

-------------------------------------------------------------------------------
(* The Runs that name the workspace. *)

SetRun(r, rec) ==
    /\ runs' = [runs EXCEPT ![r] = rec]
    /\ due' = due \cup Woken(ws, runs')
    /\ UNCHANGED <<env, runtime, pods, ws, seen, seenRuns, ctl, cleaner, elapsed, unguarded>>

(* RunAdmissionValidator.Handle reads the API server; a deleting object exists. *)
CreateRun(r) ==
    /\ r \in env.runs
    /\ runs[r].phase = "None"
    /\ ws.alive
    /\ SetRun(r, [runs[r] EXCEPT !.phase = "Pending"])
    /\ UNCHANGED <<dirs, overrun>>

(* (Mutant of workspaceFilter: the UID of the Pod is not compared.) *)
FilterByName(w, p) == w.alive /\ w.phase = "Bound" /\ p = w.pod

(* workspaceFilter: a Bound workspace, and only the Pod it is bound to. *)
workspaceFilter(w, p) == w.alive /\ w.phase = "Bound" /\ w.uid # 0 /\ p = w.pod /\ pods[p].uid = w.uid

ScheduleRun(r) ==
    /\ runs[r].phase = "Pending"
    /\ \E w \in {View("scheduler")} : \E p \in readyRuntimePods :
         /\ workspaceFilter(w, p)
         /\ SetRun(r, [phase |-> "Scheduled", pod |-> p, uid |-> pods[p].uid, gen |-> w.gen])
    /\ UNCHANGED <<dirs, overrun>>

(* runtimed claims what its cache shows, and prepares the directory by name. *)
StartRun(r) ==
    /\ runs[r].phase = "Scheduled"
    /\ RunsView("runtimed")[r] = runs[r]
    /\ Live(runs[r].pod, runs[r].uid)
    /\ SetRun(r, [runs[r] EXCEPT !.phase = "Running"])
    /\ dirs' = [dirs EXCEPT ![runs[r].pod] = @ \cup {runs[r].gen}]
    /\ overrun' = IF ws.gen = runs[r].gen /\ ws.alive /\ ~ws.deleting THEN overrun
                  ELSE overrun \cup {runs[r].gen}

FinishRun(r) ==
    /\ runs[r].phase = "Running"
    /\ Live(runs[r].pod, runs[r].uid)
    /\ SetRun(r, [runs[r] EXCEPT !.phase = "Done"])
    /\ UNCHANGED <<dirs, overrun>>

(* A pending Run cancelled, or one whose Pod is gone ended by the stale reaper. *)
EndRun(r) ==
    /\ \/ runs[r].phase = "Pending"
       \/ /\ runs[r].phase \in {"Scheduled", "Running"}
          /\ ~Live(runs[r].pod, runs[r].uid)
    /\ SetRun(r, [runs[r] EXCEPT !.phase = "Done"])
    /\ UNCHANGED <<dirs, overrun>>

-------------------------------------------------------------------------------
(* Users, Pods and time. *)

DeleteWorkspace ==
    /\ env.delete
    /\ ws.alive /\ ~ws.deleting
    /\ ws' = Deleted(ws)
    /\ unguarded' = IF ws.finalizer THEN unguarded ELSE unguarded \cup {ws.gen}
    /\ due' = due \cup Woken(Deleted(ws), runs)
    /\ UNCHANGED <<env, runtime, pods, seen, runs, seenRuns, ctl, cleaner, dirs, elapsed, overrun>>

RecreateWorkspace ==
    /\ ~ws.alive
    /\ ws.gen < env.gens
    /\ ws' = Fresh(ws.gen + 1)
    /\ due' = due \cup Woken(ws', runs)
    /\ UNCHANGED <<env, runtime, pods, seen, runs, seenRuns, ctl, cleaner, dirs, elapsed, unguarded,
                   overrun>>

(* A Pod event reaches the controller, workspacesForRuntimePod; runtimed dies  *)
(* with its Pod, and so does the volume.                                       *)
PodEvent(p, rec) ==
    /\ pods' = [pods EXCEPT ![p] = rec]
    /\ UNCHANGED <<env, runtime, ws, seen, runs, seenRuns, ctl, elapsed, unguarded, overrun>>

workspacesForRuntimePod == {"controller"}

PodReady(p) ==
    /\ pods[p].state = "unready"
    /\ PodEvent(p, [pods[p] EXCEPT !.state = "ready"])
    /\ due' = due \cup workspacesForRuntimePod
    /\ UNCHANGED <<cleaner, dirs>>

PodUnready(p) ==
    /\ env.unready
    /\ pods[p].state = "ready"
    /\ PodEvent(p, [pods[p] EXCEPT !.state = "unready"])
    /\ due' = due \cup workspacesForRuntimePod
    /\ UNCHANGED <<cleaner, dirs>>

PodStops(p) ==
    /\ p \in env.dies
    /\ pods[p].uid < MaxUid
    /\ pods[p].state \in {"ready", "unready"}
    /\ PodEvent(p, [pods[p] EXCEPT !.state = "deleting"])
    /\ due' = due \cup workspacesForRuntimePod
    /\ UNCHANGED <<cleaner, dirs>>

PodGone(p) ==
    /\ pods[p].state = "deleting"
    /\ PodEvent(p, [pods[p] EXCEPT !.state = "absent"])
    /\ due' = (due \ {p}) \cup workspacesForRuntimePod
    /\ cleaner' = [cleaner EXCEPT ![p] = NoCleanup]
    /\ dirs' = [dirs EXCEPT ![p] = {}]

(* A Pod of the same name; its runtimed lists every workspace when it starts. *)
PodReplaced(p) ==
    /\ p \in env.pods
    /\ pods[p].state = "absent"
    /\ pods[p].uid < MaxUid
    /\ PodEvent(p, [uid |-> pods[p].uid + 1, state |-> "ready"])
    /\ due' = due \cup workspacesForRuntimePod \cup {p}
    /\ UNCHANGED <<cleaner, dirs>>

RuntimeDeleted ==
    /\ env.runtimeGoes
    /\ runtime
    /\ runtime' = FALSE
    /\ due' = due \cup {"controller"}
    /\ UNCHANGED <<env, pods, ws, seen, runs, seenRuns, ctl, cleaner, dirs, elapsed, unguarded, overrun>>

(* The unused TTL of the newest stamp elapses; the RequeueAfter timer fires. *)
TimePasses ==
    /\ env.ttl
    /\ elapsed < MaxTime
    /\ elapsed < ws.used
    /\ elapsed' = elapsed + 1
    /\ due' = due \cup {"controller"}
    /\ UNCHANGED <<env, runtime, pods, ws, seen, runs, seenRuns, ctl, cleaner, dirs, unguarded, overrun>>

-------------------------------------------------------------------------------
Init ==
    /\ env \in Scenarios
    /\ runtime = TRUE
    /\ pods = [p \in Pods |-> [uid |-> 1, state |-> IF p \in env.pods THEN env.start ELSE "absent"]]
    /\ ws = Fresh(1)
    /\ seen = [c \in Components |-> Fresh(1)]
    /\ runs = [r \in Runs |-> [phase |-> "None", pod |-> NoPod, uid |-> 0, gen |-> 0]]
    /\ seenRuns = [c \in {"controller", "runtimed"} |-> runs]
    /\ ctl = Idle
    /\ cleaner = [p \in Pods |-> NoCleanup]
    /\ due = {"controller"}
    /\ dirs = [p \in Pods |-> {}]
    /\ elapsed = 0
    /\ unguarded = {}
    /\ overrun = {}

Observe ==
    \/ \E c \in Components : ObserveWorkspace(c)
    \/ \E c \in {"controller", "runtimed"} : ObserveRuns(c)

Cleanup(p) == CleanupCheck(p) \/ removePersistentWorkspaceDirectory(p) \/ RemoveFinalizer(p)
RunSteps(r) == ScheduleRun(r) \/ StartRun(r) \/ FinishRun(r)

Next ==
    \/ Observe
    \/ ControllerReconcile \/ ControllerCleanup
    \/ \E p \in Pods : Cleanup(p)
    \/ \E r \in Runs : CreateRun(r) \/ RunSteps(r) \/ EndRun(r)
    \/ DeleteWorkspace \/ RecreateWorkspace \/ RuntimeDeleted \/ TimePasses
    \/ \E p \in Pods : PodReady(p) \/ PodUnready(p) \/ PodStops(p) \/ PodGone(p) \/ PodReplaced(p)

Spec == Init /\ [][Next]_vars

(* Informers deliver, the queues' workers run, a Run that is placed ends, the  *)
(* stale reaper ends a lost one, the kubelet finishes a deletion, a timer      *)
(* fires.  Users, the scheduler's placement and Pod failures owe nothing.      *)
FairSpec ==
    /\ Spec
    /\ WF_vars(Observe)
    /\ WF_vars(ControllerReconcile \/ ControllerCleanup)
    /\ \A p \in Pods : WF_vars(Cleanup(p))
    /\ \A r \in Runs : WF_vars(StartRun(r) \/ FinishRun(r) \/ EndRun(r))
    /\ WF_vars(\E p \in Pods : PodGone(p))
    /\ WF_vars(TimePasses)

-------------------------------------------------------------------------------
(* What the stored object, the caches and the queues may hold; a workspace is *)
(* bound to one incarnation of a Pod or to none.                              *)
TypeOK ==
    /\ runtime \in BOOLEAN
    /\ pods \in [Pods -> [uid : 1..MaxUid, state : {"ready", "unready", "deleting", "absent"}]]
    /\ ws \in Workspace
    /\ (ws.pod = NoPod) <=> (ws.uid = 0)
    /\ ws.phase \in {"Bound", "Lost", "Released"} => ws.pod # NoPod
    /\ seen \in [Components -> Workspace]
    /\ runs \in [Runs -> RunRecord]
    /\ seenRuns \in [{"controller", "runtimed"} -> [Runs -> RunRecord]]
    /\ ctl \in [pc : {"idle", "cleanup"}, ws : Workspace]
    /\ cleaner \in [Pods -> [pc : {"idle", "remove", "release"}, ws : Workspace, visible : SUBSET Runs]]
    /\ due \subseteq {"controller"} \cup Pods
    /\ dirs \in [Pods -> SUBSET Gens]
    /\ elapsed \in 0..MaxTime
    /\ unguarded \subseteq Gens /\ overrun \subseteq Gens

Bound == ws.alive /\ ws.pod # NoPod

(* A binding is for the workspace's life: whatever the caches of the          *)
(* controller show, no reconcile moves a bound workspace to another Pod or to *)
(* another incarnation of its Pod, where its files are not.                   *)
BindingSticks ==
    [][Bound /\ ws'.gen = ws.gen /\ ws'.alive => ws'.pod = ws.pod /\ ws'.uid = ws.uid]_vars

(* A Run works in its own workspace's files: it runs on the incarnation of    *)
(* the Pod its workspace was bound to, also after the Pod was replaced by one *)
(* of the same name. (And the state has its types.)                           *)
RunsWhereBound ==
    TypeOK /\
    \A r \in Runs :
        runs[r].phase \in {"Scheduled", "Running"} /\ ws.alive /\ runs[r].gen = ws.gen
        => runs[r].pod = ws.pod /\ runs[r].uid = ws.uid

(* runtimed does not sweep a directory from under a Run it knew of: a Run     *)
(* that is running when the files go had not been assigned, as far as the     *)
(* cache showed, when the cleanup looked.                                     *)
SweepsUnseenOnly ==
    [][\A p \in Pods :
         cleaner[p].pc = "remove" /\ cleaner'[p].pc = "release" =>
             \A r \in cleaner[p].visible : ~(runs[r].phase = "Running" /\ Live(p, runs[r].uid))]_vars

(* Files stay as long as their workspace: a generation's files leave a live   *)
(* Pod only once that generation is being deleted or gone, unless runtimed's  *)
(* cache still shows an earlier workspace of the same name.                   *)
KeptUntilDeleted ==
    [][\A p \in Pods : \A g \in dirs[p] \ dirs'[p] :
         \/ pods[p].state = "deleting"
         \/ ~ws.alive \/ ws.gen # g \/ ws.deleting
         \/ cleaner[p].ws.gen # g]_vars

(* A workspace keeps its place and its files while it is in use: its binding  *)
(* does not move, and its directory goes neither early nor under a known Run. *)
FilesKept == BindingSticks /\ SweepsUnseenOnly /\ KeptUntilDeleted

(* Nothing is left behind: once a workspace is gone no live Pod holds files   *)
(* of it, unless it was deleted before the controller had added the finalizer *)
(* or a Run of it started after its deletion was requested.                   *)
NothingLeft ==
    \A p \in Pods : \A g \in dirs[p] :
        \/ ws.alive /\ ws.gen = g
        \/ g \in unguarded \cup overrun
        \/ pods[p].state = "deleting"

(* A requested deletion ends, whether runtimed cleans up or its Pod is lost. *)
DeletionEnds == ws.deleting ~> ~ws.deleting

Unused == \A r \in Runs : runs[r].phase \in {"None", "Done"}

(* The unused TTL is not postponed by reconciling: a bound workspace with a   *)
(* TTL that falls out of use for good is released and goes, while its Runtime *)
(* exists and its Pod is not lost.                                            *)
UnusedGoes == (env.ttl /\ Bound) ~> (~Bound \/ ~Unused \/ ~runtime \/ ws.phase = "Lost")

(* The loss of the bound Pod is recorded, while the Runtime object exists. *)
LossNoticed ==
    (Bound /\ ~Live(ws.pod, ws.uid)) ~> (~Bound \/ ws.phase \in {"Lost", "Released"} \/ ~runtime)

(* A workspace that is deleted or unused goes, and one whose Pod is lost is   *)
(* marked Lost.                                                               *)
WorkspacesSettle == DeletionEnds /\ UnusedGoes /\ LossNoticed

(* "TTLSecondsAfterUnused is the number of seconds to retain workspace data   *)
(* after the workspace becomes unused" (persistentworkspace_types.go): a      *)
(* workspace that the controller knows to be in use is not released. Too      *)
(* strong: the cleanup looks at the time of the last use only.                *)
InUseNotReleased == [][ws.phase = "Bound" /\ ws'.phase = "Released" => ws.inUse # "True"]_vars
==============================================================================
