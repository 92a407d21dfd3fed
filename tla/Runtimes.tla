------------------------------- MODULE Runtimes -------------------------------
(***************************************************************************)
(* The Runtime controller: for every Runtime it keeps a ServiceAccount, a  *)
(* Role and a RoleBinding, which Runtimes share and nobody owns, and a     *)
(* Service, a Deployment and a NetworkPolicy, which the Runtime owns, and  *)
(* it copies the ready replicas of the Deployment into the Runtime status. *)
(*                                                                         *)
(* hist[k] is the life of object k from the state the controller's cache   *)
(* shows (its head) to the persisted one (its last element). A pass of the *)
(* one worker reads the cache and writes to the API server, object by      *)
(* object; any step of it may fail and the key is tried again.             *)
(***************************************************************************)
EXTENDS Integers, Sequences, SequencesExt, FiniteSets

CONSTANTS
    Names,          \* Runtimes of one namespace
    Accounts,       \* ServiceAccount names, DefaultAccount among them
    DefaultAccount, \* what the controller uses unless the template names one
    None,           \* no object, no pass
    MaxLag,         \* bound on the states of an object a cache may be behind
    Scenarios       \* the specs, the events and the bounds to consider

VARIABLES
    env,        \* the scenario: names, specs, kinds that lag or users touch, budget
    hist,       \* [Keys -> Seq(objects)]
    queue,      \* Runtime keys waiting for a pass
    worker,     \* None or the pass: name, cached Runtime, step
    budget,     \* what users, faults and the Deployment controller may still do
    idleWrite   \* history: an accepted Deployment update changed nothing

vars == <<env, hist, queue, worker, budget, idleWrite>>

Owned == {"Service", "Deployment", "NetworkPolicy"}
Role == <<"Role", DefaultAccount>>
Keys == ((Owned \cup {"Runtime"}) \X Names)
          \cup ({"ServiceAccount", "RoleBinding"} \X Accounts) \cup {Role}

cache(k) == Head(hist[k])
store(k) == Last(hist[k])
Caught(k) == Len(hist[k]) = 1

------------------------------------------------------------------------------
(* The Deployment a Runtime spec asks for. Quantities are in thousandths,    *)
(* zero where there is none; containers have mounts and ports by name.       *)

workspaceVolume == "workspace"
artifactStoreVolume == "artifact-store"
DefaultPort == 9091
RuntimeDefaultRunsCapacity == 2

OrElse(value, unset, default) == IF value = unset THEN default ELSE value

runtimedServiceAccountName(spec) == OrElse(spec.account, "", DefaultAccount)

\* CapacityAnnotations over the annotations of the template.
CapacityAnnotations(spec) ==
    [x \in DOMAIN spec.notes |-> IF spec.capacity[x] > 0 THEN spec.capacity[x] ELSE spec.notes[x]]

\* quantityToPositiveInt32, without its upper limit: whole or nothing.
quantityToPositiveInt32(q, fallback) == IF q > 0 /\ q % 1000 = 0 THEN q \div 1000 ELSE fallback
RunsCapacityFromRuntime(spec) == quantityToPositiveInt32(spec.capacity["runs"], 0)

withoutVolumeMount(c, name) ==
    [c EXCEPT !.mounts = SelectSeq(@, LAMBDA m : m.name # name)]

\* upsertContainerPort and upsertVolumeMount: the first of that name becomes
\* the required one.
Upsert(entries, required) ==
    IF \E i \in DOMAIN entries : entries[i].name = required.name
    THEN [entries EXCEPT ![SelectInSeq(entries, LAMBDA e : e.name = required.name)] = required]
    ELSE Append(entries, required)

\* runtimeContainers: the container the template calls "runtime", and the rest
\* without any "runtimed".
RuntimeContainer(spec) ==
    LET named == SelectSeq(spec.containers, LAMBDA c : c.name = "runtime")
    IN IF named = <<>> THEN [name |-> "runtime", mounts |-> <<>>, ports |-> <<>>, probe |-> 0]
       ELSE Last(named)
AdditionalContainers(spec) ==
    SelectSeq(spec.containers, LAMBDA c : c.name \notin {"runtime", "runtimed"})

WorkspaceMount == [name |-> workspaceVolume, path |-> "/workspace"]
StoreMount == [name |-> artifactStoreVolume, path |-> "/var/lib/kruntimes/artifacts"]

Port(spec) == OrElse(spec.port, 0, DefaultPort)

\* What the controller makes of the runtime container.
PreparedRuntime(spec) ==
    LET c == withoutVolumeMount(RuntimeContainer(spec), artifactStoreVolume)
    IN [c EXCEPT !.ports = Upsert(@, [name |-> "grpc", number |-> Port(spec)]),
                 !.mounts = Upsert(@, WorkspaceMount),
                 !.probe = OrElse(@, 0, Port(spec))]

OnFilesystem(spec) == spec.store.driver = "filesystem"

\* configureArtifactStore and the rest of the sidecar.
DaemonContainer(spec) ==
    [name |-> "runtimed", probe |-> 9094,
     mounts |-> <<WorkspaceMount>> \o (IF OnFilesystem(spec) THEN <<StoreMount>> ELSE <<>>),
     ports |-> <<[name |-> "session-runtime", number |-> 9093], [name |-> "health", number |-> 9094]>>]

\* The flags of the sidecar that depend on the spec; the store's are those of
\* configureArtifactStore and configureS3ArtifactStore.
DaemonArgs(spec) == [image |-> OrElse(spec.image, "", "runtimed:default"), endpoint |-> Port(spec),
                     workers |-> RunsCapacityFromRuntime(spec), store |-> spec.store]

workspaceVolumeSource(spec) == OrElse(spec.workspace, "none", "emptyDir")

Volumes(spec) ==
    SelectSeq(spec.volumes, LAMBDA v : v.name \notin {workspaceVolume, artifactStoreVolume})
       \o <<[name |-> workspaceVolume, source |-> workspaceVolumeSource(spec)]>>
       \o (IF OnFilesystem(spec) THEN <<[name |-> artifactStoreVolume, source |-> "claim"]>> ELSE <<>>)

\* Fields the API server fills in where they are unset: some in every
\* Deployment, some with the kinds of volume the template has.
ServerDefaults(volumes) ==
    {"deployment", "podSpec", "container", "probe", "fieldRef"}
       \cup ({volumes[i].source : i \in DOMAIN volumes} \cap {"downwardAPI", "configMap"})

buildDeployment(spec) ==
    [replicas |-> OrElse(spec.replicas, 0, 1),
     account |-> runtimedServiceAccountName(spec),
     notes |-> CapacityAnnotations(spec),
     containers |-> <<PreparedRuntime(spec)>>
         \o [i \in DOMAIN AdditionalContainers(spec) |->
                withoutVolumeMount(AdditionalContainers(spec)[i], artifactStoreVolume)]
         \o <<DaemonContainer(spec)>>,
     inits |-> [i \in DOMAIN spec.inits |-> withoutVolumeMount(spec.inits[i], artifactStoreVolume)],
     args |-> DaemonArgs(spec),
     volumes |-> Volumes(spec),
     fsGroup |-> IF spec.fsGroup = 0 /\ OnFilesystem(spec) THEN 65532 ELSE spec.fsGroup,
     filled |-> {}]

\* (Mutant of defaultDeploymentForComparison: compared as built.)
AsBuilt(d) == d

\* defaultDeploymentForComparison and defaultContainerForComparison.
defaultDeploymentForComparison(d) ==
    [d EXCEPT !.filled = ServerDefaults(d.volumes) \cap
                {"deployment", "podSpec", "container", "probe", "fieldRef", "downwardAPI"}]

SpecOf(rt) == env.specs[rt.content]

------------------------------------------------------------------------------
(* API server and caches.                                                   *)

\* What is persisted of a written object.
Admitted(k, o) ==
    IF k[1] = "Deployment" THEN [o EXCEPT !.content.filled = ServerDefaults(o.content.volumes)] ELSE o

Wrote(k, o) == hist' = [hist EXCEPT ![k] = Append(@, o)]

\* Runtimes whose owned children a child of that name is, or that use a
\* ServiceAccount: what an event of object k wakes, with the Runtimes as cached.
Account(rt) == runtimedServiceAccountName(SpecOf(rt))
CachedRuntimes == {n \in Names : cache(<<"Runtime", n>>) # None}
runtimesForRuntimedRBAC(k) ==
    IF k[1] = "ServiceAccount"
    THEN {n \in CachedRuntimes : Account(cache(<<"Runtime", n>>)) = k[2]}
    ELSE CachedRuntimes

\* (Mutant of Wakes: status changes of a Runtime wake nothing, as with a
\* GenerationChangedPredicate.)
WakesOnGeneration(k, old, new) ==
    IF k[1] = "Runtime"
    THEN {n \in {k[2]} : old = None \/ new = None \/ old.content # new.content \/ old.uid # new.uid}
    ELSE IF k[1] \in Owned THEN {k[2]} ELSE runtimesForRuntimedRBAC(k)

\* SetupWithManager: For, Owns and Watches.
Wakes(k, old, new) ==
    IF k[1] \in Owned \cup {"Runtime"} THEN {k[2]} ELSE runtimesForRuntimedRBAC(k)

\* The cache shows the next state of k.
Deliver(k) ==
    /\ ~Caught(k)
    /\ hist' = [hist EXCEPT ![k] = Tail(@)]
    /\ queue' = queue \cup Wakes(k, hist[k][1], hist[k][2])
    /\ UNCHANGED <<env, worker, budget, idleWrite>>

\* Objects outside env.lags are shown at once, the others before the cache is
\* more than MaxLag states behind.
Prompt == \A k \in Keys : Len(hist[k]) <= IF k[1] \in env.lags THEN MaxLag ELSE 1

------------------------------------------------------------------------------
(* A pass over one Runtime.                                                 *)

Spend(what) == budget[what] > 0 /\ budget' = [budget EXCEPT ![what] = @ - 1]

\* The key is taken from the queue; a Runtime that is gone needs nothing.
Begin(n) ==
    /\ Prompt /\ worker = None /\ n \in queue
    /\ queue' = queue \ {n}
    /\ worker' = IF cache(<<"Runtime", n>>) = None THEN None
                 ELSE [name |-> n, rt |-> cache(<<"Runtime", n>>), step |-> 1]
    /\ UNCHANGED <<env, hist, budget, idleWrite>>

Advance == worker' = [worker EXCEPT !.step = @ + 1] /\ UNCHANGED queue
\* An error ends the pass and the key is queued again.
Abort == worker' = None /\ queue' = queue \cup {worker.name}

\* A RoleBinding's roleRef is immutable.
Refused(k, content) == k[1] = "RoleBinding" /\ store(k).content = "other role"

\* Get, then Create what is missing or Update what differs: the six reconcile
\* functions. owner is the Runtime's uid for the kinds it owns.
Create(k, content, owner) ==
    IF store(k) = None
    THEN /\ Wrote(k, Admitted(k, [content |-> content, uid |-> owner, ready |-> 0]))
         /\ Advance /\ UNCHANGED idleWrite
    ELSE Abort /\ UNCHANGED <<hist, idleWrite>>

Update(k, content, owner) ==
    \E o \in {Admitted(k, [cache(k) EXCEPT !.content = content, !.uid = owner])} :
        IF Caught(k) /\ ~Refused(k, content)
        THEN /\ IF o = store(k) THEN idleWrite' = TRUE /\ UNCHANGED hist
                ELSE Wrote(k, o) /\ UNCHANGED idleWrite
             /\ Advance
        ELSE Abort /\ UNCHANGED <<hist, idleWrite>>

Ensure(k, content, owner) ==
    /\ UNCHANGED <<env, budget>>
    /\ IF cache(k) = None THEN Create(k, content, owner)
       ELSE IF cache(k).content = content THEN Advance /\ UNCHANGED <<hist, idleWrite>>
       ELSE Update(k, content, owner)

PassAccount == Account(worker.rt)

reconcileServiceAccount == Ensure(<<"ServiceAccount", PassAccount>>, "desired", 0)
reconcileRole == Ensure(Role, "desired", 0)
reconcileRoleBinding == Ensure(<<"RoleBinding", PassAccount>>, "desired", 0)
reconcileService == Ensure(<<"Service", worker.name>>, "desired", worker.rt.uid)
reconcileDeployment ==
    Ensure(<<"Deployment", worker.name>>,
           defaultDeploymentForComparison(buildDeployment(SpecOf(worker.rt))), worker.rt.uid)
reconcileNetworkPolicy == Ensure(<<"NetworkPolicy", worker.name>>, "desired", worker.rt.uid)

\* reconcileRuntimeStatus: a merge patch of the Runtime of that name, if the
\* cached Deployment and the Runtime the pass began with disagree.
reconcileRuntimeStatus ==
    LET k == <<"Runtime", worker.name>>
        d == cache(<<"Deployment", worker.name>>)
    IN /\ UNCHANGED <<env, budget, idleWrite>>
       /\ IF d = None \/ (d.ready # worker.rt.ready /\ store(k) = None)
          THEN Abort /\ UNCHANGED hist
          ELSE /\ worker' = None /\ UNCHANGED queue
               /\ IF d.ready = worker.rt.ready \/ d.ready = store(k).ready THEN UNCHANGED hist
                  ELSE Wrote(k, [store(k) EXCEPT !.ready = d.ready])

\* (Mutant of Reconcile: the Deployment first.)
DeploymentFirst ==
    /\ Prompt /\ worker # None
    /\ CASE worker.step = 1 -> reconcileDeployment
         [] worker.step = 2 -> reconcileServiceAccount
         [] worker.step = 3 -> reconcileRole
         [] worker.step = 4 -> reconcileRoleBinding
         [] worker.step = 5 -> reconcileService
         [] worker.step = 6 -> reconcileNetworkPolicy
         [] worker.step = 7 -> reconcileRuntimeStatus

Reconcile ==
    /\ Prompt /\ worker # None
    /\ CASE worker.step = 1 -> reconcileServiceAccount
         [] worker.step = 2 -> reconcileRole
         [] worker.step = 3 -> reconcileRoleBinding
         [] worker.step = 4 -> reconcileService
         [] worker.step = 5 -> reconcileDeployment
         [] worker.step = 6 -> reconcileNetworkPolicy
         [] worker.step = 7 -> reconcileRuntimeStatus

\* A request of the pass fails.
RequestFails ==
    /\ Prompt /\ worker # None /\ Spend("errors") /\ Abort
    /\ UNCHANGED <<env, hist, idleWrite>>

\* The controller restarts: caches are listed anew and every Runtime is queued.
Restart ==
    /\ Prompt /\ Spend("restarts")
    /\ hist' = [k \in Keys |-> <<store(k)>>]
    /\ queue' = {n \in Names : store(<<"Runtime", n>>) # None} /\ worker' = None
    /\ UNCHANGED <<env, idleWrite>>

------------------------------------------------------------------------------
(* Users, the Deployment controller and the garbage collector.              *)

Elsewhere == Prompt /\ UNCHANGED <<env, queue, worker, idleWrite>>

\* A user changes the spec of a Runtime.
EditRuntime(n) ==
    LET k == <<"Runtime", n>> IN
    /\ Elsewhere /\ Spend("edits") /\ store(k) # None
    /\ \E i \in DOMAIN env.specs \ {store(k).content} : Wrote(k, [store(k) EXCEPT !.content = i])

\* A user deletes a Runtime, or creates one of that name again.
DeleteRuntime(n) ==
    /\ Elsewhere /\ Spend("deletions") /\ store(<<"Runtime", n>>) # None
    /\ Wrote(<<"Runtime", n>>, None)
CreateRuntime(n) ==
    /\ Elsewhere /\ n \in env.names /\ Spend("creations") /\ store(<<"Runtime", n>>) = None
    /\ \E i \in DOMAIN env.specs :
          Wrote(<<"Runtime", n>>,
                [content |-> i, uid |-> 1 + env.budget["creations"] - budget["creations"], ready |-> 0])

\* A user edits, scales, replaces or deletes a child.
Tampered(k, o) ==
    IF k[1] = "Deployment" THEN {[o EXCEPT !.content.replicas = @ + 1], None}
    ELSE IF k[1] = "RoleBinding" THEN {[o EXCEPT !.content = "other role"],
                                       [o EXCEPT !.content = "edited"], None}
    ELSE {[o EXCEPT !.content = "edited"], None}
Tamper(k) ==
    /\ Elsewhere /\ k[1] \in env.tampered /\ store(k) # None /\ Spend("tampers")
    /\ \E o \in Tampered(k, store(k)) : Wrote(k, o)

\* The Deployment's Pods become ready or unready.
Rollout(n) ==
    LET k == <<"Deployment", n>> IN
    /\ Elsewhere /\ store(k) # None /\ Spend("rollouts")
    /\ \E r \in 0 .. store(k).content.replicas : Wrote(k, [store(k) EXCEPT !.ready = r])

\* The garbage collector deletes what a deleted Runtime owned.
Orphan(k) ==
    /\ k[1] \in Owned /\ store(k) # None
    /\ store(<<"Runtime", k[2]>>) # None => store(<<"Runtime", k[2]>>).uid # store(k).uid
Collect(k) == Orphan(k) /\ Wrote(k, None) /\ UNCHANGED <<env, queue, worker, budget, idleWrite>>

------------------------------------------------------------------------------

Init ==
    /\ env \in Scenarios
    /\ hist = [k \in Keys |-> <<None>>]
    /\ queue = {} /\ worker = None
    /\ budget = env.budget /\ idleWrite = FALSE

Controller == (\E n \in Names : Begin(n)) \/ Reconcile

Next == \/ Controller \/ RequestFails \/ Restart
        \/ \E k \in Keys : Deliver(k) \/ Tamper(k) \/ Collect(k)
        \/ \E n \in Names : EditRuntime(n) \/ DeleteRuntime(n) \/ CreateRuntime(n) \/ Rollout(n)

Spec == Init /\ [][Next]_vars

\* The work queue serves its keys, every informer and the garbage collector
\* keep up.
Kinds == Owned \cup {"Runtime", "ServiceAccount", "Role", "RoleBinding"}
FairSpec == /\ Spec
            /\ WF_vars(Controller) /\ WF_vars(\E k \in Keys : Collect(k))
            /\ \A kind \in Kinds : WF_vars(\E k \in Keys : k[1] = kind /\ Deliver(k))

------------------------------------------------------------------------------
(* Properties.                                                              *)

Objects(k) == IF k[1] = "Runtime" THEN DOMAIN env.specs ELSE {"desired", "edited", "other role"}

\* The shape of the state.
TypeOK ==
    /\ env \in Scenarios
    /\ \A k \in Keys : \A i \in DOMAIN hist[k] : hist[k][i] # None =>
          /\ hist[k][i].uid \in 0 .. env.budget["creations"] /\ hist[k][i].ready \in 0 .. 3
          /\ (k[1] \in Owned \cup {"Runtime"}) = (hist[k][i].uid # 0)
          /\ k[1] # "Deployment" => hist[k][i].content \in Objects(k)
    /\ queue \subseteq Names /\ idleWrite \in BOOLEAN
    /\ worker # None => worker.name \in Names /\ worker.step \in 1 .. 7

Deployed(n) == store(<<"Deployment", n>>)

\* The Pods of a Deployment can always come up and report: unless a user took
\* them away, the ServiceAccount its template names, the Role and the binding of
\* that account exist as long as the Deployment does. The
\* pass works through cached copies, so an edit of the account must not reach
\* the Deployment before the account does.
AccountsReady ==
    env.tampered = {} =>
        \A n \in Names : Deployed(n) # None =>
            /\ store(<<"ServiceAccount", Deployed(n).content.account>>) # None
            /\ store(Role) # None
            /\ store(<<"RoleBinding", Deployed(n).content.account>>) # None

Mounts(c) == {c.mounts[i].name : i \in DOMAIN c.mounts}
VolumeNames(d) == {d.volumes[i].name : i \in DOMAIN d.volumes}
ContainersNamed(d, name) == {i \in DOMAIN d.containers : d.containers[i].name = name}

\* Whatever template a user writes, the Pods have one runtime and one runtimed
\* container that agree on a port, share the workspace volume, have unique
\* volumes, and only runtimed sees the artifact store.
TemplateSound ==
    \A n \in Names : Deployed(n) # None =>
        LET d == Deployed(n).content IN
        /\ Cardinality(VolumeNames(d)) = Len(d.volumes)
        /\ \E i, j \in DOMAIN d.containers :
              /\ ContainersNamed(d, "runtime") = {i} /\ ContainersNamed(d, "runtimed") = {j}
              /\ \E port \in DOMAIN d.containers[i].ports :
                    d.containers[i].ports[port] = [name |-> "grpc", number |-> d.args.endpoint]
              /\ workspaceVolume \in Mounts(d.containers[i]) \cap Mounts(d.containers[j])
              /\ Mounts(d.containers[j]) \subseteq VolumeNames(d)
              /\ \A other \in DOMAIN d.containers \ {j} :
                    artifactStoreVolume \notin Mounts(d.containers[other])
        /\ \A i \in DOMAIN d.inits : artifactStoreVolume \notin Mounts(d.inits[i])

\* Runs the scheduler admits to a Pod (Capacity of its annotations), and Runs
\* its runtimed executes (the --workers flag).
Admits(d) == IF d.notes["runs"] > 0 THEN d.notes["runs"] \div 1000 ELSE RuntimeDefaultRunsCapacity
Workers(d) == OrElse(d.args.workers, 0, RuntimeDefaultRunsCapacity)

\* The scheduler admits to a Pod exactly the Runs its runtimed can execute, for
\* whole capacities the Runtime declares, whatever annotations the template has.
WorkersMatchCapacity ==
    \A n \in Names : Deployed(n) # None =>
        LET d == Deployed(n).content IN
        d.notes["runs"] % 1000 = 0 /\ (d.args.workers = 0 => d.notes["runs"] = 0)
            => Admits(d) = Workers(d)

\* The Pods of a Deployment can come up, work and take what the scheduler sends.
PodsCanServe == TypeOK /\ AccountsReady /\ TemplateSound /\ WorkersMatchCapacity

\* A pass over a Runtime whose Deployment is as it should be does not write it:
\* the comparison knows the defaults the API server adds. (The defaults of
\* configMap volumes it does not know.)
NoIdleWrites ==
    idleWrite => \E i \in DOMAIN env.specs : \E v \in DOMAIN env.specs[i].volumes :
                     env.specs[i].volumes[v].source = "configMap"

\* A binding of that name to another role cannot be updated, only deleted.
Blocked == \E a \in Accounts : /\ store(<<"RoleBinding", a>>) # None
                               /\ store(<<"RoleBinding", a>>).content = "other role"

Desired(k, rt) ==
    [content |-> IF k[1] = "Deployment" THEN buildDeployment(SpecOf(rt)) ELSE "desired",
     uid |-> rt.uid, ready |-> 0]
Settled(n) ==
    LET rt == store(<<"Runtime", n>>)
    IN IF rt = None THEN \A kind \in Owned : store(<<kind, n>>) = None
       ELSE /\ \A k \in {<<"ServiceAccount", Account(rt)>>, Role, <<"RoleBinding", Account(rt)>>} :
                  store(k) # None /\ store(k).content = "desired"
            /\ \A k \in Owned \X {n} :
                  /\ store(k) # None
                  /\ [store(k) EXCEPT !.ready = 0] = Admitted(k, Desired(k, rt))

\* Once users and faults leave it alone, every Runtime gets the children its
\* spec asks for, owned by this Runtime and not by one of the same name that is
\* gone, and a deleted Runtime leaves no Pods.
Converged == <>[](Blocked \/ \A n \in Names : Settled(n))

\* The status of a Runtime comes to show the ready replicas of its Deployment,
\* although the pass compares two cached copies and patches without a lock.
StatusFollows ==
    <>[](\/ Blocked
         \/ \A n \in Names : store(<<"Runtime", n>>) # None /\ Deployed(n) # None
               => store(<<"Runtime", n>>).ready = Deployed(n).ready)

\* Left alone, a Runtime has its children and its status shows them.
RuntimesConverge == Converged /\ StatusFollows
==============================================================================
