------------------------------ MODULE Scheduler ------------------------------
(***************************************************************************)
(* The kruntimes scheduler (internal/scheduler): one planner that reads    *)
(* Runs through a lagging informer cache, keeps scheduler-local assumed    *)
(* reservations for the assignments the cache does not show yet, and       *)
(* persists an assignment with a status update that the API server         *)
(* refuses when the object in hand is not the current version.             *)
(*                                                                         *)
(* The API server and the informer are one variable: etcd is the sequence  *)
(* of states of the Run collection from the one the informer cache shows   *)
(* (its head) to the current one (its last element).                       *)
(***************************************************************************)
EXTENDS Naturals, Sequences, FiniteSets

CONSTANTS
    Runs,          \* the Runs of one namespace and one Runtime
    Pods,          \* the Runtime Pods of that Runtime
    NoPod,         \* an empty AssignedPod
    Capacity,      \* Run slots of each Pod (the "runs" logical resource)
    Placement,     \* the Pods each Run's workspace and affinity terms allow
    MaxAttempts,   \* retry budget of a Run
    Scenarios      \* what may happen in one behaviour (env)

ASSUME SchedulerAssumption ==
    /\ IsFiniteSet(Runs)
    /\ NoPod \notin Pods
    /\ Capacity \in [Pods -> Nat]
    /\ Placement \in [Runs -> SUBSET Pods]
    /\ MaxAttempts \in Nat \ {0}
    /\ \A s \in Scenarios : s.pods \subseteq Pods

\* env, one of Scenarios: pods are there; no scheduler has seen the Runs of fresh
\* before; those of badResources have requests that are not valid, those of
\* badAffinity terms that do not parse; a user may terminate or delete those of
\* withdrawn; those of retried have a retry policy. versions bounds the writes to
\* one Run, lag the states the informer is behind, faults the status updates that
\* fail for another reason than a conflict and the restarts and failovers.
VARIABLES
    env,
    etcd,       \* Seq of [Runs -> Objects]: head = informer cache, last = API server
    assumed,    \* assumedReservationCache: Run -> reserved Pod or NoPod
    available,  \* Pods the Pod cache shows ready with a fresh runtimed heartbeat
    cycle,      \* the reconcile in progress (one queue worker)
    faults,     \* API errors and restarts so far
    orphaned    \* history: assigned Runs the accounting has lost sight of

vars == <<env, etcd, assumed, available, cycle, faults, orphaned>>

Phases == {"", "Pending", "Scheduled", "Running", "Finalizing", "Terminal", "Deleted"}

\* What the scheduler reads of a Run. mode: status.mode mirrors the spec;
\* cancel: spec asks for immediate termination; waiting: the waiting message
\* is recorded; completed: status.completionTime is set; attempt:
\* status.attempt; ver: resourceVersion.
Objects == [phase : Phases, pod : Pods \cup {NoPod}, mode : BOOLEAN,
            cancel : BOOLEAN, waiting : BOOLEAN, completed : BOOLEAN,
            attempt : 1 .. MaxAttempts, ver : Nat]

NewRun == [phase |-> "", pod |-> NoPod, mode |-> FALSE,
           cancel |-> FALSE, waiting |-> FALSE, completed |-> FALSE,
           attempt |-> 1, ver |-> 0]

\* A Run some scheduler has seen before this one started.
KnownRun == [NewRun EXCEPT !.phase = "Pending", !.mode = TRUE]

Idle == [step |-> "idle"]

cache == Head(etcd)
store == etcd[Len(etcd)]

IsPending(o) == o.phase \in {"", "Pending"}
ConsumesCapacity(o) == o.phase \in {"Scheduled", "Running"}
ConsumesOn(o, p) == o.pod = p /\ ConsumesCapacity(o)

\* The scheduler's accounting covers r: the cache shows its assignment or an
\* assumption stands for it.
Accounted(r) == \/ ConsumesOn(cache[r], store[r].pod)
                \/ assumed[r] = store[r].pod

------------------------------------------------------------------------------
(* Writes. Put commits object o as the next version of r; a status update   *)
(* with a stale object is refused.                                          *)

CanPut(r) == Len(etcd) < env.lag /\ store[r].ver < env.versions
Bump(o) == [o EXCEPT !.ver = @ + 1]
Put(r, o) == etcd' = Append(etcd, [store EXCEPT ![r] = Bump(o)])

\* (Mutant of Current: updates without optimistic concurrency.)
LastWriteWins(r, o) == TRUE
Current(r, o) == o.ver = store[r].ver

NoFault == UNCHANGED faults
MayFail == faults.errors + faults.restarts < env.faults
ApiError == MayFail /\ faults' = [faults EXCEPT !.errors = @ + 1]

Held(r) == cycle.step = "held" /\ cycle.run = r
Hold(r, o) == [step |-> "held", run |-> r, obj |-> o]
Reserved(r, p) == cycle.step = "reserved" /\ cycle.run = r /\ cycle.pod = p

\* A terminal status write that ends the cycle: it lands if the object in hand
\* is current; otherwise the conflict (or error) just ends this reconcile.
FinishWith(r, o) ==
    /\ cycle' = Idle
    /\ \/ Current(r, cycle.obj) /\ CanPut(r) /\ Put(r, o) /\ NoFault
       \/ ~Current(r, cycle.obj) /\ UNCHANGED etcd /\ NoFault
       \/ ApiError /\ UNCHANGED etcd

\* runstatus.SetTerminal.
SetTerminal(o) == [o EXCEPT !.phase = "Terminal", !.completed = TRUE]

------------------------------------------------------------------------------
(* The reconcile of one Run key.                                            *)

\* Reconcile up to observeRun: read the Run from the cache and let an observed
\* assignment or progress retire its assumption.
GetRun(r) ==
    /\ cycle = Idle
    /\ cache[r].phase # "Deleted"
    /\ cycle' = Hold(r, cache[r])
    /\ assumed' = IF cache[r].pod # NoPod \/ ~IsPending(cache[r])
                  THEN [assumed EXCEPT ![r] = NoPod]
                  ELSE assumed
    /\ UNCHANGED <<etcd, available>> /\ NoFault

\* Mirror spec.mode into the status before anything else.
SyncMode(r) ==
    /\ Held(r) /\ ~cycle.obj.mode
    /\ LET o == [cycle.obj EXCEPT !.mode = TRUE,
                                  !.phase = IF @ = "" THEN "Pending" ELSE @]
       IN \/ /\ Current(r, cycle.obj) /\ CanPut(r)
             /\ Put(r, o) /\ cycle' = Hold(r, Bump(o)) /\ NoFault
          \/ ~Current(r, cycle.obj) /\ cycle' = Idle /\ UNCHANGED etcd /\ NoFault
          \/ ApiError /\ cycle' = Idle /\ UNCHANGED etcd
    /\ UNCHANGED <<assumed, available>>

Synced(r) == Held(r) /\ cycle.obj.mode

Schedulable(r) == Synced(r) /\ IsPending(cycle.obj)
                    /\ ~cycle.obj.cancel /\ r \notin env.badResources

\* The Run is past scheduling, or its retry backoff has not expired.
Skip(r) ==
    /\ \/ Synced(r) /\ ~IsPending(cycle.obj)
       \/ Schedulable(r) /\ cycle.obj.attempt > 1
    /\ cycle' = Idle
    /\ UNCHANGED <<etcd, assumed, available>> /\ NoFault

\* applyCancelled and applyInvalidResources.
Reject(r) ==
    /\ Synced(r) /\ IsPending(cycle.obj)
    /\ cycle.obj.cancel \/ r \in env.badResources
    /\ FinishWith(r, SetTerminal(cycle.obj))
    /\ UNCHANGED <<assumed, available>>

\* (Mutants of SyncAssumed: every snapshot starts without assumptions; no
\* snapshot ever retires one.)
NothingAssumed == [r \in Runs |-> NoPod]
AssumedForEver == assumed

\* syncLocked: assumptions whose Run the snapshot shows assigned, past Pending
\* or gone are dropped.
SyncAssumed == [r \in Runs |-> IF ~IsPending(cache[r]) \/ cache[r].pod # NoPod
                               THEN NoPod ELSE assumed[r]]

\* planSchedulingCycle cannot build the affinity filter: the Run fails.
SelectionFailed(r) ==
    /\ Schedulable(r) /\ r \in env.badAffinity
    /\ assumed' = SyncAssumed /\ UNCHANGED available
    /\ FinishWith(r, [cycle.obj EXCEPT !.phase = "Terminal"])

\* (Mutant of Usage: only observed assignments count.)
ObservedUsage(p) == Cardinality({r \in Runs : ConsumesOn(cache[r], p)})

\* mergeUsage(actual, assumptions) over the snapshot.
Usage(p) == Cardinality({r \in Runs : ConsumesOn(cache[r], p)})
            + Cardinality({r \in Runs : SyncAssumed[r] = p})

Candidates(r) == {p \in available \cap Placement[r] : Usage(p) + 1 <= Capacity[p]}

\* No Pod passes the filters: record the waiting message if it changed.
Wait(r) ==
    /\ Schedulable(r) /\ r \notin env.badAffinity /\ Candidates(r) = {}
    /\ assumed' = SyncAssumed /\ cycle' = Idle /\ UNCHANGED available
    /\ \/ /\ ~cycle.obj.waiting /\ Current(r, cycle.obj) /\ CanPut(r) /\ NoFault
          /\ Put(r, [cycle.obj EXCEPT !.phase = "Pending", !.waiting = TRUE])
       \/ (cycle.obj.waiting \/ ~Current(r, cycle.obj)) /\ UNCHANGED etcd /\ NoFault
       \/ ~cycle.obj.waiting /\ ApiError /\ UNCHANGED etcd

\* Snapshot, plan and reserve. The ranking of the feasible Pods is left open.
Reserve(r) ==
    /\ Schedulable(r) /\ r \notin env.badAffinity
    /\ \E p \in Candidates(r) :
         /\ assumed' = [SyncAssumed EXCEPT ![r] = p]
         /\ cycle' = [step |-> "reserved", run |-> r, obj |-> cycle.obj, pod |-> p]
    /\ UNCHANGED <<etcd, available>> /\ NoFault

Assign(o, p) == [o EXCEPT !.pod = p, !.phase = "Scheduled"]

\* bind, update accepted: the assumption stays until the informer catches up.
Bind(r, p) ==
    /\ Reserved(r, p) /\ Current(r, cycle.obj) /\ CanPut(r)
    /\ Put(r, Assign(cycle.obj, p))
    /\ cycle' = Idle
    /\ UNCHANGED <<assumed, available>> /\ NoFault

\* bind, update refused or failed: releaseReservation.
BindConflict(r, p) ==
    /\ Reserved(r, p) /\ ~Current(r, cycle.obj)
    /\ cycle' = Idle /\ assumed' = [assumed EXCEPT ![r] = NoPod]
    /\ UNCHANGED <<etcd, available>> /\ NoFault

\* A non-conflict error releases the reservation too, whether the update was
\* lost or only its answer.
BindError(r, p) ==
    /\ Reserved(r, p) /\ ApiError
    /\ cycle' = Idle /\ assumed' = [assumed EXCEPT ![r] = NoPod]
    /\ \/ UNCHANGED etcd
       \/ Current(r, cycle.obj) /\ CanPut(r) /\ Put(r, Assign(cycle.obj, p))
    /\ UNCHANGED available

------------------------------------------------------------------------------
(* The informer, the process and the Pods.                                  *)

Observe ==
    /\ Len(etcd) > 1
    /\ etcd' = Tail(etcd)
    /\ UNCHANGED <<assumed, available, cycle>> /\ NoFault

\* A new process lists the Runs afresh; a standby replica that takes the lease
\* over goes on with an informer that may be behind. Neither has assumptions.
Restart ==
    /\ MayFail /\ faults' = [faults EXCEPT !.restarts = @ + 1]
    /\ assumed' = [r \in Runs |-> NoPod] /\ cycle' = Idle
    /\ \/ etcd' = <<store>>
       \/ UNCHANGED etcd
    /\ UNCHANGED available

\* Readiness or heartbeat freshness of a Pod changes in the Pod cache.
PodChange(p) ==
    /\ p \in env.pods
    /\ available' = IF p \in available THEN available \ {p} ELSE available \cup {p}
    /\ UNCHANGED <<etcd, assumed, cycle>> /\ NoFault

------------------------------------------------------------------------------
(* The writes of the other components, as far as the scheduler sees them.   *)

Elsewhere(r, o) ==
    /\ CanPut(r) /\ Put(r, o)
    /\ UNCHANGED <<assumed, available, cycle>> /\ NoFault

\* reconcileScheduled: the owner runtimed claims the Run.
Claim(r) == store[r].phase = "Scheduled"
            /\ Elsewhere(r, [store[r] EXCEPT !.phase = "Running"])

\* beginSessionFinalization: a Session Run stops accepting operations.
Finalize(r) == store[r].phase = "Running"
               /\ Elsewhere(r, [store[r] EXCEPT !.phase = "Finalizing"])

\* applySuccess, applyTerminal and the reaper's terminal branch.
Finish(r) == store[r].phase \in {"Scheduled", "Running", "Finalizing"}
             /\ Elsewhere(r, SetTerminal(store[r]))

\* (Mutant of ResetForRetry: keeping the Pod.)
ResetInPlace(r) == /\ r \in env.retried /\ store[r].phase \in {"Running", "Finalizing"}
                   /\ store[r].attempt < MaxAttempts
                   /\ Elsewhere(r, [store[r] EXCEPT !.phase = "Pending", !.attempt = @ + 1])

\* The stale reaper gives the Run back for another attempt.
ResetForRetry(r) == /\ r \in env.retried /\ store[r].phase \in {"Running", "Finalizing"}
                    /\ store[r].attempt < MaxAttempts
                    /\ Elsewhere(r, [store[r] EXCEPT !.phase = "Pending",
                                          !.pod = NoPod, !.attempt = @ + 1])

\* A user asks for immediate termination.
RequestTermination(r) == /\ r \in env.withdrawn
                         /\ store[r].phase # "Deleted" /\ ~store[r].cancel
                         /\ Elsewhere(r, [store[r] EXCEPT !.cancel = TRUE])

\* A user deletes the Run.
Delete(r) == /\ r \in env.withdrawn
             /\ store[r].phase # "Deleted"
             /\ Elsewhere(r, [store[r] EXCEPT !.phase = "Deleted"])

------------------------------------------------------------------------------

Init ==
    /\ env \in Scenarios
    /\ etcd = <<[r \in Runs |-> IF r \in env.fresh THEN NewRun ELSE KnownRun]>>
    /\ assumed = [r \in Runs |-> NoPod]
    /\ available = env.pods
    /\ cycle = Idle
    /\ faults = [errors |-> 0, restarts |-> 0]
    /\ orphaned = {}

\* A Run is orphaned from the step that leaves its persisted assignment
\* without accounting until it releases the Pod.
TrackOrphans ==
    orphaned' = {r \in Runs : ConsumesCapacity(store'[r])
                                /\ (r \in orphaned \/ ~Accounted(r)')}

Reconcile(r) ==
    \/ GetRun(r) \/ SyncMode(r) \/ Skip(r) \/ Reject(r) \/ SelectionFailed(r)
    \/ Wait(r) \/ Reserve(r)
    \/ \E p \in Pods : Bind(r, p) \/ BindConflict(r, p) \/ BindError(r, p)

Others(r) ==
    \/ Claim(r) \/ Finalize(r) \/ Finish(r) \/ ResetForRetry(r)
    \/ RequestTermination(r) \/ Delete(r)

Step ==
    \/ \E r \in Runs : Reconcile(r) \/ Others(r)
    \/ Observe
    \/ Restart
    \/ \E p \in Pods : PodChange(p)

Next == Step /\ TrackOrphans /\ UNCHANGED env

Spec == Init /\ [][Next]_vars

Fair == TrackOrphans /\ UNCHANGED env

\* The informer delivers, the worker finishes what it started, claimed Runs end,
\* and the queue serves every requeued key: a Pending Run is requeued on a
\* conflict at once, otherwise after 30s or its backoff. The events of a Run past
\* Pending queue nothing (pendingRunPredicate).
Fairness ==
    /\ WF_vars(Observe /\ Fair)
    /\ WF_vars(/\ \E r \in Runs : \/ SyncMode(r) \/ Skip(r) \/ Reject(r)
                                  \/ SelectionFailed(r) \/ Wait(r)
                                  \/ \E p \in Pods : Bind(r, p) \/ BindConflict(r, p)
               /\ Fair)
    /\ \A r \in Runs :
         /\ SF_vars(IsPending(cache[r]) /\ GetRun(r) /\ Fair)
         /\ SF_vars(Reserve(r) /\ Fair)
         /\ WF_vars((Claim(r) \/ Finish(r)) /\ Fair)

FairSpec == Spec /\ Fairness

------------------------------------------------------------------------------
(* Properties.                                                              *)

\* The shape of the state: what reconciler.go, assumedReservationCache and the
\* API server keep.
TypeOK ==
    /\ etcd \in Seq([Runs -> Objects]) /\ etcd # <<>>
    /\ assumed \in [Runs -> Pods \cup {NoPod}]
    /\ available \subseteq Pods
    /\ cycle \in {Idle}
         \cup [step : {"held"}, run : Runs, obj : Objects]
         \cup [step : {"reserved"}, run : Runs, obj : Objects, pod : Pods]
    /\ faults \in [errors : Nat, restarts : Nat]
    /\ orphaned \subseteq Runs

\* The Runs that hold a slot of p, or are about to, with the accounting's
\* knowledge.
Booked(p) == {r \in Runs : \/ ConsumesOn(store[r], p) /\ r \notin orphaned
                           \/ Reserved(r, p)}

\* However far the informer lags, the assignments the scheduler has kept
\* account of never exceed the slots of a Pod: reserve checks each new one
\* against the cache merged with the assumptions.
CapacityRespected == \A p \in Pods : Cardinality(Booked(p)) <= Capacity[p]

\* The handoff from an assumption to the observed assignment is exact: a
\* persisted assignment loses its accounting only when the same Run is planned
\* again from a stale view (reserve moves its assumption, a failed bind drops
\* it) or when the scheduler restarts. Observing, the cycles of other Runs and
\* the writes of other components never do it.
ExactHandoff ==
    [][\A r \in orphaned' \ orphaned :
          \/ faults'.restarts > faults.restarts
          \/ Held(r) /\ cycle'.step = "reserved"
          \/ \E p \in Pods : Reserved(r, p) /\ cycle' = Idle]_vars

\* A planner with a stale view never rewrites a Run that has left Pending: the
\* update carries the version it read.
NoStaleDecision ==
    [][cycle' # cycle =>
         \A r \in Runs : ~IsPending(store[r]) =>
            store'[r].phase = store[r].phase /\ store'[r].pod = store[r].pod]_vars

\* A Run whose termination is already requested is never placed: the request
\* changes the version, so a cycle that read the Run before it cannot bind.
NoPlacementAfterTermination ==
    [][\A r \in Runs : store[r].cancel /\ IsPending(store[r])
                         => store'[r].phase # "Scheduled"]_vars

\* What RunLifecycle sees of the persisted Runs.
Status == [r \in Runs |-> [phase |-> IF store[r].phase = "" THEN "Pending" ELSE store[r].phase,
                           pod |-> store[r].pod, attempt |-> store[r].attempt]]
Lifecycle == INSTANCE RunLifecycle WITH Outcomes <- {"Terminal"}, run <- Status

\* The scheduler's decisions, mixed with the writes of the other components in
\* any order, keep every Run to the life of RunLifecycle.
ImplementsLifecycle == Lifecycle!Spec

\* A Pending Run with an attempt behind it still has a reservation.
Leftover(r) == IsPending(store[r]) /\ store[r].attempt > 1 /\ assumed[r] # NoPod

\* A Run does not stay Pending for ever once the Pods stay available: it is
\* placed, or ended if it was withdrawn or is not valid, whatever conflicts,
\* lost answers and restarts the planner meets on the way. Only the reservation
\* of an earlier attempt can hold it back. (Again and again, a Pod is away, the
\* Run is not Pending or there is such a reservation.)
EventuallyDecided ==
    \A r \in Runs : []<>(\/ available # env.pods
                         \/ ~IsPending(store[r])
                         \/ \E q \in Runs : Leftover(q))

\* Too strong: "the handoff from assumed to actual usage [is] exact"
\* (docs/design/scheduler-framework.md) would mean that no Pod is ever assigned
\* more Runs than it has slots. A second cycle of a bound Run the cache still
\* shows Pending moves or drops its assumption, and its slot is given away.
NoOvercommit ==
    \A p \in Pods : Cardinality({r \in Runs : ConsumesOn(store[r], p)}) <= Capacity[p]
==============================================================================
