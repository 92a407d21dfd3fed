------------------------------ MODULE Placement ------------------------------
(***************************************************************************)
(* What one planning cycle of the scheduler decides, and when cycles run:  *)
(* the capacity vectors of Runtime Pods, Run-to-Run affinity, the ranking  *)
(* of the feasible Pods, the reservation that stands for an assignment     *)
(* until the informer shows it, and the events that wake Pending Runs.     *)
(* Module Scheduler breaks a cycle into its reads and writes and leaves    *)
(* the choice of the Pod open; here a cycle is one step and the choice is  *)
(* the subject. Runs come with their mode recorded and without what makes  *)
(* a cycle end them (termination, invalid requests or terms): module       *)
(* Scheduler has those.                                                    *)
(*                                                                         *)
(* hist[r] is the life of Run r from the state the informer cache shows    *)
(* (its head) to the persisted one (its last element). Pods are numbered   *)
(* in the order of their names.                                            *)
(***************************************************************************)
EXTENDS Integers, Sequences, FiniteSets, FiniteSetsExt

CONSTANTS
    Runs,           \* Runs of one namespace and one Runtime
    Pods,           \* its Runtime Pods, numbers in the order of their names
    Labels,         \* labels a Run may carry and affinity terms may select
    Resources,      \* logical resources, "runs" among them
    Scenarios,      \* the labels, terms, requests and capacities to consider
    MaxAttempts     \* retry budget of a Run

NoPod == 0

ASSUME PlacementAssumption == NoPod \notin Pods /\ MaxAttempts \in Nat \ {0}

VARIABLES
    env,        \* the scenario: labels, requires, avoids, prefers, shuns and
                \* request of every Run, capacity annotations of every Pod;
                \* fresh: Runs created later; retried and deleted: Runs that
                \* may be; podEvents and errors: bounds on Pod changes and on
                \* failing status updates
    hist,       \* [Runs -> Seq(Objects)]
    assumed,    \* assumedReservationCache: Run -> reserved Pod or NoPod
    available,  \* Pods the Pod cache shows ready with a fresh heartbeat
    queue,      \* Run keys waiting for a cycle
    events,     \* Pod events and failed updates so far
    strayed     \* history: Runs whose reservation and assignment came apart

vars == <<env, hist, assumed, available, queue, events, strayed>>

\* Active stands for Scheduled, Running and Ready, Done for Finalizing and the
\* terminal phases, Gone for a deleted Run.
Objects == [phase : {"Absent", "Pending", "Active", "Done", "Gone"},
            pod : Pods \cup {NoPod}, attempt : 1 .. MaxAttempts]

cache(r) == Head(hist[r])
store(r) == hist[r][Len(hist[r])]
Caught(r) == Len(hist[r]) = 1

IsPending(o) == o.phase = "Pending"
consumesRuntimeCapacity(o) == o.phase = "Active"

------------------------------------------------------------------------------
(* The snapshot: observed assignments and, for Runs still shown Pending, the *)
(* reservations syncLocked keeps.                                           *)

SyncAssumed == [r \in Runs |-> IF IsPending(cache(r)) THEN assumed[r] ELSE NoPod]

\* (Mutant of At: targets and usage come from observed Runs alone.)
ObservedAt(r) == IF consumesRuntimeCapacity(cache(r)) THEN cache(r).pod ELSE NoPod

\* Where the snapshot has r: isActiveAffinityTarget and the reservations.
At(r) == IF consumesRuntimeCapacity(cache(r)) THEN cache(r).pod ELSE SyncAssumed[r]

\* ResourceRequests: a Run asks for one of "runs" unless it says more.
ResourceRequests(r) ==
    [x \in Resources |-> IF x = "runs" /\ env.request[r][x] <= 0 THEN 1 ELSE env.request[r][x]]

DefaultRunsCapacity == 2

\* runtimepod.Capacity: what the annotations say; 0 is a resource the Pod does
\* not advertise, and only "runs" has a default.
Capacity(p) ==
    [x \in Resources |-> IF env.capacity[p][x] > 0 THEN env.capacity[p][x]
                         ELSE IF x = "runs" THEN DefaultRunsCapacity ELSE 0]

\* assignedRunUsage merged with usageLocked.
UsageOf(runs, x) == MapThenSumSet(LAMBDA r : ResourceRequests(r)[x], runs)
Usage(p) == [x \in Resources |-> UsageOf({r \in Runs : At(r) = p}, x)]

Fits(p, r) ==
    \A x \in Resources :
        ResourceRequests(r)[x] > 0 => Usage(p)[x] + ResourceRequests(r)[x] <= Capacity(p)[x]

------------------------------------------------------------------------------
(* Filters and scores.                                                      *)

\* The Pods of the active or reserved Runs that carry l.
TargetPods(l) == {At(t) : t \in {t \in Runs : l \in env.labels[t] /\ At(t) # NoPod}}

\* A cohort without members may be started by a Run its own term selects.
Seedable(r, l) == TargetPods(l) = {} /\ l \in env.labels[r]

\* (Mutant of runAffinity: a Run that selects itself may always start over.)
SeedAlways(r, p) ==
    /\ \A l \in env.requires[r] : p \in TargetPods(l) \/ l \in env.labels[r]
    /\ \A l \in env.avoids[r] : p \notin TargetPods(l)
\* newRunAffinity and filter: the required terms.
runAffinity(r, p) ==
    /\ \A l \in env.requires[r] : p \in TargetPods(l) \/ Seedable(r, l)
    /\ \A l \in env.avoids[r] : p \notin TargetPods(l)

\* Pods that pass RuntimePodAvailability and RunAffinity.
Candidates(r) == {p \in available : Fits(p, r) /\ runAffinity(r, p)}

\* preferredScore: the weights of the preferred terms p satisfies.
preferredScore(r, p) ==
    MapThenSumSet(LAMBDA l : (IF p \in TargetPods(l) THEN env.prefers[r][l] ELSE 0)
                             + (IF p \notin TargetPods(l) THEN env.shuns[r][l] ELSE 0),
                  Labels)

\* Utilisations are exact fractions; all of them over one denominator.
Denominator == FoldSet(LAMBDA p, acc : acc *
                 FoldSet(LAMBDA x, a : IF Capacity(p)[x] > 0 THEN a * Capacity(p)[x] ELSE a,
                         1, Resources), 1, Pods)
Utilisation(p, r, x) ==
    IF Capacity(p)[x] > 0
    THEN ((Usage(p)[x] + ResourceRequests(r)[x]) * Denominator) \div Capacity(p)[x]
    ELSE 0

\* resourceCapacityScore: the dominant utilisation after the assignment, then
\* the sum of all of them.
Dominant(p, r) == Max({Utilisation(p, r, x) : x \in Resources})
Total(p, r) == MapThenSumSet(LAMBDA x : Utilisation(p, r, x), Resources)
LessLoaded(p, q, r) == \/ Dominant(p, r) < Dominant(q, r)
                       \/ Dominant(p, r) = Dominant(q, r) /\ Total(p, r) < Total(q, r)

MaxPodScore == 100

\* normalizeScoresByMaximum over the feasible Pods.
PreferenceScore(r, p, pods) ==
    LET maximum == Max({preferredScore(r, q) : q \in pods})
    IN IF maximum = 0 THEN 0 ELSE (preferredScore(r, p) * MaxPodScore) \div maximum

\* (Mutant of LoadScore: the load is compared before the assignment, by the
\* number of assigned Runs.)
CountScore(r, p, pods) ==
    IF Cardinality(pods) = 1 THEN MaxPodScore
    ELSE LET start == Cardinality({q \in pods : Usage(q)["runs"] < Usage(p)["runs"]})
         IN ((Cardinality(pods) - 1 - start) * MaxPodScore) \div (Cardinality(pods) - 1)

\* leastLoadedScore.NormalizeScores: the rank group of p, from 100 to 0.
LoadScore(r, p, pods) ==
    IF Cardinality(pods) = 1 THEN MaxPodScore
    ELSE LET start == Cardinality({q \in pods : LessLoaded(q, p, r)})
         IN ((Cardinality(pods) - 1 - start) * MaxPodScore) \div (Cardinality(pods) - 1)

Score(r, p, pods) == PreferenceScore(r, p, pods) + LoadScore(r, p, pods)

\* scoreAndRankPods: the best total, the first name among equals.
Best(r, p, pods) ==
    \A q \in pods \ {p} : \/ Score(r, p, pods) > Score(r, q, pods)
                          \/ Score(r, p, pods) = Score(r, q, pods) /\ p < q

------------------------------------------------------------------------------
(* The cycle of one Run key.                                                *)

Cycle(r) == r \in queue /\ UNCHANGED <<env, available>>

\* The Run is past scheduling (observe retires its reservation) or not found.
Skip(r) ==
    /\ Cycle(r) /\ ~IsPending(cache(r))
    /\ assumed' = IF cache(r).phase \in {"Absent", "Gone"} THEN assumed
                  ELSE [assumed EXCEPT ![r] = NoPod]
    /\ queue' = queue \ {r} /\ UNCHANGED <<hist, events>>

\* pendingRetryDelay: another attempt waits out its backoff first.
Backoff(r) ==
    /\ Cycle(r) /\ IsPending(cache(r)) /\ cache(r).attempt > 1
    /\ queue' = queue \ {r} /\ UNCHANGED <<hist, assumed, events>>

\* No Pod is feasible: the Run waits for an event or 30 seconds. The reason is
\* written to the status unless it is there already; a conflict queues the key
\* again.
Wait(r) ==
    /\ Cycle(r) /\ IsPending(cache(r)) /\ Candidates(r) = {}
    /\ assumed' = SyncAssumed /\ UNCHANGED events
    /\ \/ queue' = queue \ {r} /\ UNCHANGED hist
       \/ Caught(r) /\ queue' = queue \ {r} /\ hist' = [hist EXCEPT ![r] = Append(@, cache(r))]
       \/ ~Caught(r) /\ UNCHANGED <<queue, hist>>

Assigned(o, p) == [o EXCEPT !.phase = "Active", !.pod = p]

\* reserve and bind, update accepted.
Bind(r) ==
    /\ Cycle(r) /\ IsPending(cache(r)) /\ Caught(r)
    /\ \E pods \in {Candidates(r)} : \E p \in pods :
          /\ Best(r, p, pods)
          /\ assumed' = [SyncAssumed EXCEPT ![r] = p]
          /\ hist' = [hist EXCEPT ![r] = Append(@, Assigned(cache(r), p))]
    /\ queue' = queue \ {r} /\ UNCHANGED events

\* The update conflicts with a newer version, or fails: releaseReservation,
\* and the key is queued again.
BindRefused(r) ==
    /\ Cycle(r) /\ IsPending(cache(r)) /\ Candidates(r) # {}
    /\ assumed' = [SyncAssumed EXCEPT ![r] = NoPod]
    /\ \/ ~Caught(r) /\ UNCHANGED events
       \/ events.errors < env.errors /\ events' = [events EXCEPT !.errors = @ + 1]
    /\ UNCHANGED <<queue, hist>>

------------------------------------------------------------------------------
(* Events.                                                                  *)

\* (Mutant of runCapacityReleased: a deletion frees nothing.)
ReleasedByUpdate(old, new) ==
    consumesRuntimeCapacity(old) /\ ~consumesRuntimeCapacity(new) /\ new.phase # "Gone"

\* runCapacityReleasedPredicate, for updates and deletions.
runCapacityReleased(old, new) == consumesRuntimeCapacity(old) /\ ~consumesRuntimeCapacity(new)

\* pendingRunsForRuntime: the keys an event wakes, as the cache then is.
PendingRuns(shown) == {r \in Runs : IsPending(shown[r])}

\* The informer shows the next state of r. pendingRunPredicate queues r itself,
\* released capacity queues every Pending Run.
Observe(r) ==
    /\ ~Caught(r)
    /\ hist' = [hist EXCEPT ![r] = Tail(@)]
    /\ LET new == hist[r][2]
           shown == [s \in Runs |-> IF s = r THEN new ELSE cache(s)]
       IN queue' = queue \cup {s \in {r} : IsPending(new)}
                         \cup {s \in PendingRuns(shown) : runCapacityReleased(cache(r), new)}
    /\ UNCHANGED <<env, assumed, available, events>>

\* RequeueAfter: a waiting or backing-off Run comes back by itself.
Timer(r) ==
    /\ IsPending(cache(r)) /\ r \notin queue
    /\ queue' = queue \cup {r}
    /\ UNCHANGED <<env, hist, assumed, available, events>>

\* A Pod becomes ready, stale, terminating or gone in the Pod cache.
PodEvent(p) ==
    /\ events.pods < env.podEvents
    /\ events' = [events EXCEPT !.pods = @ + 1]
    /\ available' = IF p \in available THEN available \ {p} ELSE available \cup {p}
    /\ queue' = queue \cup PendingRuns([r \in Runs |-> cache(r)])
    /\ UNCHANGED <<env, hist, assumed>>

Elsewhere(r, o) ==
    /\ hist' = [hist EXCEPT ![r] = Append(@, o)]
    /\ UNCHANGED <<env, assumed, available, queue, events>>

\* A user creates the Run.
Submit(r) == /\ store(r).phase = "Absent"
             /\ Elsewhere(r, [store(r) EXCEPT !.phase = "Pending"])

\* The Run finalizes or ends on its Pod.
Finish(r) == consumesRuntimeCapacity(store(r)) /\ Elsewhere(r, [store(r) EXCEPT !.phase = "Done"])

\* The stale reaper gives the Run back for another attempt.
ResetForRetry(r) ==
    /\ consumesRuntimeCapacity(store(r)) /\ r \in env.retried
    /\ store(r).attempt < MaxAttempts
    /\ Elsewhere(r, [phase |-> "Pending", pod |-> NoPod, attempt |-> store(r).attempt + 1])

\* A user deletes the Run.
Delete(r) == /\ store(r).phase \in {"Pending", "Active", "Done"} /\ r \in env.deleted
             /\ Elsewhere(r, [store(r) EXCEPT !.phase = "Gone"])

------------------------------------------------------------------------------

Init ==
    /\ env \in Scenarios
    /\ hist = [r \in Runs |-> <<[phase |-> IF r \in env.fresh THEN "Absent" ELSE "Pending",
                                 pod |-> NoPod, attempt |-> 1]>>]
    /\ assumed = [r \in Runs |-> NoPod]
    /\ available = Pods
    /\ queue = Runs \ env.fresh
    /\ events = [pods |-> 0, errors |-> 0]
    /\ strayed = {}

\* Every assignment the informer has yet to show has its reservation.
Accounted(r) == \A i \in 2 .. Len(hist[r]) :
                    consumesRuntimeCapacity(hist[r][i]) => assumed[r] = hist[r][i].pod

\* A reservation that counts although the informer has nothing more to show
\* for it.
Owed(r) == \E i \in 2 .. Len(hist[r]) : consumesRuntimeCapacity(hist[r][i])
Ghost(r) == IsPending(cache(r)) /\ assumed[r] # NoPod /\ ~Owed(r)

TrackStrayed == strayed' = strayed \cup {r \in Runs : (~Accounted(r) \/ Ghost(r))'}

Reconcile(r) == Skip(r) \/ Backoff(r) \/ Wait(r) \/ Bind(r) \/ BindRefused(r)

Others(r) == Submit(r) \/ Finish(r) \/ ResetForRetry(r) \/ Delete(r)

Step == \/ \E r \in Runs : Reconcile(r) \/ Observe(r) \/ Timer(r) \/ Others(r)
        \/ \E p \in Pods : PodEvent(p)

Next == Step /\ TrackStrayed

Spec == Init /\ [][Next]_vars

------------------------------------------------------------------------------
(* Properties.                                                              *)

\* The shape of the state: what the informer, assumedReservationCache and the
\* work queue keep of each Run.
TypeOK ==
    /\ env \in Scenarios
    /\ hist \in [Runs -> Seq(Objects)] /\ \A r \in Runs : hist[r] # <<>>
    /\ assumed \in [Runs -> Pods \cup {NoPod}]
    /\ available \subseteq Pods
    /\ queue \subseteq Runs /\ strayed \subseteq Runs
    /\ events \in [pods : Nat, errors : Nat]

ActiveOn(r, p) == consumesRuntimeCapacity(store(r)) /\ store(r).pod = p

\* In every logical resource, the Runs assigned to a Pod that the scheduler has
\* kept account of never ask for more than the Pod advertises: the usage a
\* cycle checks merges what the informer shows with what it does not show yet.
CapacityVectorKept ==
    \A p \in Pods : \A x \in Resources :
        LET kept == {r \in Runs : ActiveOn(r, p) /\ r \notin strayed}
            asked == UsageOf(kept, x)
        IN asked > 0 => asked <= Capacity(p)[x]

\* Every Run that carries l asks for the company of l.
Cohort(l) == {r \in Runs : l \in env.labels[r]}
PureLabel(l) == \A r \in Cohort(l) : l \in env.requires[r]

\* The active members of a self-selecting affinity cohort share one Pod: only
\* the first is placed freely, and reservations make it visible to the cycles
\* of the others before the informer does.
CohortTogether ==
    strayed = {} =>
        \A l \in Labels : PureLabel(l) =>
            \A r, s \in Cohort(l) :
                consumesRuntimeCapacity(store(r)) /\ consumesRuntimeCapacity(store(s))
                    => store(r).pod = store(s).pod

Repel(r, s) == /\ r # s
               /\ env.avoids[r] \cap env.labels[s] # {} /\ env.avoids[s] \cap env.labels[r] # {}

\* Two Runs that require not to meet are never active on one Pod.
RepelledApart ==
    \A r, s \in Runs \ strayed :
        /\ Repel(r, s)
        /\ consumesRuntimeCapacity(store(r)) /\ consumesRuntimeCapacity(store(s))
        => store(r).pod # store(s).pod

\* q should be preferred to p: better in preference or in load and not worse in
\* the other, or alike in both and first by name.
Better(r, q, p) ==
    \/ preferredScore(r, q) >= preferredScore(r, p) /\ LessLoaded(q, p, r)
    \/ preferredScore(r, q) > preferredScore(r, p) /\ ~LessLoaded(p, q, r)
    \/ /\ preferredScore(r, q) = preferredScore(r, p)
       /\ ~LessLoaded(p, q, r) /\ ~LessLoaded(q, p, r) /\ q < p

\* The Pod a cycle binds is never dominated by another feasible Pod, although
\* the plugins' scores are normalised, weighted and rounded before they are
\* added.
BestPodBound ==
    [][\A r \in Runs :
          IsPending(store(r)) /\ consumesRuntimeCapacity(store(r)')
            => \A q \in Candidates(r) : ~Better(r, q, store(r)'.pod)]_vars

\* The scheduler never sits on a Run it could place: when the cache shows room
\* for a Pending Run without required affinity, its key is queued, without
\* waiting for the periodic retry.
WokenWhenPlaceable ==
    strayed = {} =>
        \A r \in Runs :
            /\ Caught(r) /\ IsPending(cache(r)) /\ cache(r).attempt = 1
            /\ env.requires[r] = {} /\ Candidates(r) # {}
            => r \in queue

\* Too strong: a reservation stops counting once the informer has shown its
\* assignment ("An assumption is removed when its Run is observed as an active
\* assignment", docs/design/scheduler-framework.md). Events of a Run past Pending
\* start no cycle, so one that is assigned and reset between two cycles keeps it.
HandoffExact == \A r \in Runs : ~Ghost(r)
==============================================================================
