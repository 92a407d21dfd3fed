----------------------------- MODULE Artifacts -----------------------------
(***************************************************************************)
(* Artifacts of Task Runs.  runtimed stages the inputs of an attempt, runs *)
(* it and collects what it left (artifact_inputs.go, artifacts.go); the    *)
(* controller keeps a maintainer per store (artifact_cleanup_controller.go)*)
(* and expires finished Runs (completed_run_gc.go); the maintainer removes *)
(* the objects of deleting Runs (cmd/runtime-maintainer); the stores are   *)
(* internal/artifact/filesystem and internal/artifact/s3.                  *)
(*                                                                         *)
(* A file is its size and the size of its stored form.  A runtimed holds   *)
(* the Run as it read it and loses the write when the Run has changed; a   *)
(* read from a lagging cache is a read that happened earlier.  Every step  *)
(* of a collection is an action, so deletion, Pod loss and another         *)
(* runtimed come between any two.                                          *)
(***************************************************************************)
EXTENDS Integers, Sequences, FiniteSets, SequencesExt

CONSTANTS Runs, Pods, NoPod, Stores, NoStore,
          MaxAttempts,     \* retryPolicy.maxAttempts of every Run
          MaxArtifactRefs, \* entries of one collection
          MaxArtifact,     \* stored size of one artifact
          MaxTotal,        \* stored size of all artifacts of a Run
          Scenarios        \* what goes wrong in one behaviour

VARIABLES
    env,        \* the scenario
    run,        \* the Runs at the API server
    work,       \* runtimed's local state of a Run, per Pod
    alive,      \* Pods whose runtimed runs
    store,      \* the store each Pod was started with
    runtime,    \* the store of the Runtime object, NoStore once it is deleted
    objects,    \* [store, run, name] of what the stores hold
    made,       \* stores with a place for the namespace (a directory)
    workers,    \* stores with a maintainer Deployment
    pass,       \* each maintainer's pass: the Runs it listed and not yet done
    faults,     \* store failures so far
    interrupted,\* Runs deleted while a collection was uploading
    contested,  \* Runs taken from a runtimed that was still collecting
    moved       \* Runs collected with a store other than the recorded one

vars == <<env, run, work, alive, store, runtime, objects, made, workers, pass, faults,
          interrupted, contested, moved>>

Artifact == "artifact-cleanup"
Registration == "registration-cleanup"
Terminal(phase) == phase \in {"Succeeded", "Failed"}

Object(s, r, n) == [store |-> s, run |-> r, name |-> n]
ObjectsOf(r) == {o \in objects : o.run = r}
Files(r) == env.files[r]
Filesystem(s) == env.driver[s] = "filesystem"

Fresh(r) == [phase |-> IF r \in env.consumers THEN "Absent" ELSE "Pending",
             pod |-> NoPod, attempt |-> 1, store |-> NoStore, refs |-> {}, inputs |-> <<>>,
             fins |-> (IF r \in env.sessions THEN {Registration} ELSE {})
                      \cup (IF r \in env.legacy THEN {Artifact} ELSE {}),
             deleting |-> FALSE]
NoRun == [phase |-> "Gone", pod |-> NoPod, attempt |-> 1, store |-> NoStore, refs |-> {},
          inputs |-> <<>>, fins |-> {}, deleting |-> FALSE]
Idle == [pc |-> "idle", staged |-> {}, held |-> NoRun, at |-> 1, total |-> 0, refs |-> {},
         result |-> "", uploads |-> FALSE]

Init ==
    /\ env \in Scenarios
    /\ run = [r \in Runs |-> Fresh(r)]
    /\ work = [r \in Runs |-> [p \in Pods |-> Idle]]
    /\ alive = Pods
    /\ store = [p \in Pods |-> env.store]
    /\ runtime = env.store
    /\ objects = {}
    /\ made = {s \in Stores : ~Filesystem(s) \/ env.used}
    /\ workers = {}
    /\ pass = [s \in Stores |-> <<>>]
    /\ faults = 0
    /\ interrupted = {} /\ contested = {} /\ moved = {}

Busy == {"record", "finalizer", "put", "rollback", "write"}
Mine(r, p) == run[r].phase = "Running" /\ run[r].pod = p /\ ~run[r].deleting
MayFail == faults < env.faults

Work(r, p, w) == work' = [work EXCEPT ![r][p] = w]
World == <<env, alive, store, runtime, workers, pass, contested>>
Local == <<env, run, alive, store, runtime, objects, made, workers, pass, interrupted, contested, moved>>

---------------------------------------------------------------------------
(* The Runs. *)

(* A consumer is created from the references of a Run that succeeded, as a *)
(* Workflow resolves them.                                                 *)
CreateConsumer(r, from) ==
    /\ run[r].phase = "Absent" /\ run[from].phase = "Succeeded" /\ run[from].refs # {}
    /\ \E inputs \in {f \in [1..Cardinality(run[from].refs) -> run[from].refs] :
                        \A i, j \in DOMAIN f : i < j => f[i].name < f[j].name} :
         run' = [run EXCEPT ![r].phase = "Pending",
                            ![r].inputs = [i \in DOMAIN inputs |->
                                              Object(inputs[i].store, from, inputs[i].name)]]
    /\ UNCHANGED <<World, work, objects, made, faults, interrupted, moved>>

(* The scheduler assigns a waiting Run and the Pod claims it. *)
Assign(r, p) ==
    /\ run[r].phase = "Pending" /\ ~run[r].deleting /\ p \in alive
    /\ run' = [run EXCEPT ![r].phase = "Running", ![r].pod = p]
    /\ UNCHANGED <<World, work, objects, made, faults, interrupted, moved>>

(* API server: a deleting Run without finalizers is gone. *)
Settled(o) == IF o.deleting /\ o.fins = {} THEN NoRun ELSE o

(* A collection that will upload without another look at the Run. *)
Uploading(w) ==
    \/ w.pc = "put"
    \/ w.pc \in {"record", "finalizer"} /\ Artifact \in w.held.fins

MarkDeleted(r) ==
    /\ run' = [run EXCEPT ![r] = Settled([run[r] EXCEPT !.deleting = TRUE])]
    /\ interrupted' = interrupted \cup (IF \E p \in Pods : Uploading(work[r][p]) THEN {r} ELSE {})
    /\ UNCHANGED <<World, work, objects, made, faults, moved>>

UserDeletes(r) ==
    /\ r \in env.deletes /\ run[r].phase \notin {"Gone", "Absent"} /\ ~run[r].deleting
    /\ MarkDeleted(r)

(* CompletedRunGC: a finished Run with a TTL, once it has expired. *)
CompletedRunGC(r) ==
    /\ Terminal(run[r].phase) /\ ~run[r].deleting
    /\ r \in env.ttl
    /\ MarkDeleted(r)

(* StaleRunReaper: the Pod of a Run is gone, or its heartbeat is late.     *)
Reap(r) ==
    /\ run[r].phase = "Running"
    /\ \E p \in {run[r].pod} :
         /\ p \notin alive \/ env.lateHeartbeat
         /\ contested' = contested \cup (IF p \in alive /\ work[r][p].pc \in Busy THEN {r} ELSE {})
    /\ run' = [run EXCEPT ![r] =
                 IF @.attempt < MaxAttempts
                 THEN [@ EXCEPT !.phase = "Pending", !.pod = NoPod, !.attempt = @ + 1]
                 ELSE Settled([@ EXCEPT !.phase = "Failed",
                                        !.fins = IF run[r].pod \in alive THEN @ ELSE @ \ {Registration}])]
    /\ UNCHANGED <<env, alive, store, runtime, workers, pass, work, objects, made, faults, interrupted, moved>>

(* A Pod dies with its runtimed and its files. *)
PodDies(p) ==
    /\ p \in alive \cap env.dies
    /\ alive' = alive \ {p}
    /\ work' = [r \in Runs |-> [work[r] EXCEPT ![p] = Idle]]
    /\ UNCHANGED <<env, run, store, runtime, objects, made, workers, pass, faults, interrupted, contested, moved>>

(* The Runtime's artifactStore is edited, which replaces its Pods one by   *)
(* one, or the Runtime is deleted.                                         *)
EditStore(s) ==
    /\ env.edits /\ runtime \notin {NoStore, s}
    /\ runtime' = s
    /\ UNCHANGED <<env, run, work, alive, store, objects, made, workers, pass, faults, interrupted, contested, moved>>

ReplacePod(p) ==
    /\ p \notin alive /\ runtime # NoStore
    /\ alive' = alive \cup {p}
    /\ store' = [store EXCEPT ![p] = runtime]
    /\ UNCHANGED <<env, run, work, runtime, objects, made, workers, pass, faults, interrupted, contested, moved>>

DeleteRuntime ==
    /\ env.runtimeGoes /\ runtime # NoStore
    /\ runtime' = NoStore
    /\ UNCHANGED <<env, run, work, alive, store, objects, made, workers, pass, faults, interrupted, contested, moved>>

---------------------------------------------------------------------------
(* The stores: each call gives the objects after it and how it ended.      *)
(* Filesystem directories are removed and replaced as a whole.             *)

PutDone(o, ok) == [objects |-> o, end |-> ok]

(* The copy of a filesystem store stops at the store's own limit. *)
copyRegularFile(stored) == stored <= MaxArtifact

(* filesystem: a temporary copy, then the old object is removed and the    *)
(* copy renamed.                                                           *)
FilesystemPut(o, stored, max) ==
    IF ~copyRegularFile(stored) THEN {PutDone(objects, "invalid")}
    ELSE {PutDone(objects \cup {o}, "ok")}
         \cup IF MayFail THEN {PutDone(objects, "failed"), PutDone(objects \ {o}, "failed")} ELSE {}

(* s3: the size is compared with the room left; the answer may be lost.    *)
S3Put(o, stored, max) ==
    IF stored > max THEN {PutDone(objects, "invalid")}
    ELSE {PutDone(objects \cup {o}, "ok")}
         \cup IF MayFail THEN {PutDone(objects, "failed"), PutDone(objects \cup {o}, "failed")} ELSE {}

Put(o, stored, max) ==
    IF Filesystem(o.store) THEN FilesystemPut(o, stored, max) ELSE S3Put(o, stored, max)

(* Put makes the directories above an object; the other calls look at them *)
(* first and fail when one does not exist.                                 *)
mkdirAllNoSymlink(s) == made \cup (IF Filesystem(s) THEN {s} ELSE {})
ensureNoSymlinkPath(s) == s \in made

FilesystemDeleteRun(s, r) ==
    IF ~ensureNoSymlinkPath(s) THEN {PutDone(objects, "failed")}
    ELSE {PutDone({o \in objects : o.run # r \/ o.store # s}, "ok")}

S3DeleteRun(s, r) == {PutDone({o \in objects : o.run # r \/ o.store # s}, "ok")}

(* DeleteRun stops at the first object it cannot remove. *)
DeleteRun(s, r) ==
    (IF Filesystem(s) THEN FilesystemDeleteRun(s, r) ELSE S3DeleteRun(s, r))
    \cup IF MayFail
         THEN {PutDone(objects \ gone, "failed") :
                 gone \in SUBSET {o \in objects : o.run = r /\ o.store = s}}
         ELSE {}

(* The reference must name this store, and an object the store holds. *)
pathForRef(s, ref) == ref.store = s
validateRef(s, ref) == ref.store = s
Open(s, ref) == (IF Filesystem(s) THEN pathForRef(s, ref) ELSE validateRef(s, ref)) /\ ref \in objects

(* A failure of a store call, unless it is the call's own answer. *)
Count(outcome, expected) == faults' = faults + (IF outcome.end = "failed" /\ ~expected THEN 1 ELSE 0)

---------------------------------------------------------------------------
(* runtimed: one attempt of a Run on its Pod. *)

(* startExecution, on its own goroutine. *)
StartExecution(r, p) ==
    /\ p \in alive /\ Mine(r, p) /\ work[r][p].pc = "idle"
    /\ Work(r, p, [work[r][p] EXCEPT !.pc = "stage", !.at = 1])
    /\ UNCHANGED <<Local, faults>>

(* artifactInputDestination refuses a destination that exists. *)
DestinationFree(w) == w.at \notin w.staged

(* An input is copied, or its archive extracted, within the limit. *)
stageArtifactInput(ref) == Files(ref.run)[ref.name].size <= MaxArtifact

(* stageArtifactInputs, one input at a time.  An input that fails leaves   *)
(* nothing at its destination; the ones before it stay.                    *)
StageArtifactInput(r, p) ==
    \E w \in {work[r][p]} :
      /\ w.pc = "stage" /\ w.at <= Len(run[r].inputs)
      /\ \E ref \in {run[r].inputs[w.at]} :
         \E good \in {DestinationFree(w) /\ Open(store[p], ref) /\ stageArtifactInput(ref)} :
           \/ /\ good
              /\ Work(r, p, [w EXCEPT !.staged = @ \cup {w.at}, !.at = @ + 1])
              /\ faults' = faults
           \/ /\ good => MayFail
              /\ Work(r, p, [w EXCEPT !.pc = "failed"])
              /\ faults' = faults + (IF good THEN 1 ELSE 0)
      /\ UNCHANGED Local

(* With its inputs in place the attempt runs, on an empty staging directory. *)
Execute(r, p) ==
    /\ work[r][p].pc = "stage" /\ work[r][p].at > Len(run[r].inputs)
    /\ Work(r, p, [work[r][p] EXCEPT !.pc = "executing"])
    /\ UNCHANGED <<Local, faults>>

ExecutionEnds(r, p) ==
    /\ work[r][p].pc = "executing"
    /\ \E end \in {"succeeded"} \cup (IF r \in env.fails THEN {"failed"} ELSE {}) :
         Work(r, p, [work[r][p] EXCEPT !.pc = end])
    /\ UNCHANGED <<Local, faults>>

(* applyFailure: the next attempt starts in the same directories; the last *)
(* failure ends the Run and cleans them up.                                *)
ApplyFailure(r, p) ==
    /\ work[r][p].pc = "failed" /\ Mine(r, p)
    /\ IF run[r].attempt < MaxAttempts
       THEN /\ run' = [run EXCEPT ![r].attempt = @ + 1]
            /\ Work(r, p, [work[r][p] EXCEPT !.pc = "idle", !.at = 1])
       ELSE /\ run' = [run EXCEPT ![r].phase = "Failed"]
            /\ Work(r, p, Idle)
    /\ UNCHANGED <<World, objects, made, faults, interrupted, moved>>

(* A Run that is deleting, gone or assigned elsewhere is forgotten. *)
Release(r, p) ==
    /\ p \in alive /\ work[r][p] # Idle /\ work[r][p].pc \notin Busy /\ ~Mine(r, p)
    /\ Work(r, p, Idle)
    /\ UNCHANGED <<Local, faults>>

(* collectArtifacts up to the first write. *)
Collect(r, p) ==
    /\ work[r][p].pc = "succeeded" /\ Mine(r, p)
    /\ Work(r, p, [work[r][p] EXCEPT !.held = run[r], !.at = 1, !.total = 0, !.refs = {}, !.uploads = FALSE,
                     !.pc = IF Len(Files(r)) \in 1..MaxArtifactRefs THEN "record" ELSE "write",
                     !.result = IF Len(Files(r)) > MaxArtifactRefs THEN "Failed" ELSE "Succeeded"])
    /\ UNCHANGED <<Local, faults>>

(* A write under optimistic concurrency: it loses when the Run has changed. *)
Wins(r, p) == run[r] = work[r][p].held
Again(w) == [w EXCEPT !.pc = "succeeded", !.held = NoRun, !.at = 1, !.total = 0, !.refs = {},
                      !.result = "", !.uploads = FALSE]

(* ensureArtifactFinalizer first records the store, then guards the Run. *)
RecordStore(r, p) ==
    \E w \in {work[r][p]} :
      /\ w.pc = "record"
      /\ IF w.held.store # NoStore
         THEN run' = run /\ Work(r, p, [w EXCEPT !.pc = "finalizer"])
         ELSE IF Wins(r, p)
         THEN /\ run' = [run EXCEPT ![r].store = store[p]]
              /\ Work(r, p, [w EXCEPT !.pc = "finalizer", !.held.store = store[p]])
         ELSE run' = run /\ Work(r, p, Again(w))
      /\ UNCHANGED <<World, objects, made, faults, interrupted, moved>>

(* (Mutant of EnsureArtifactFinalizer: a refused write is ignored.) *)
FinalizerBestEffort(r, p) ==
    /\ work[r][p].pc = "finalizer"
    /\ run' = IF Wins(r, p) THEN [run EXCEPT ![r].fins = @ \cup {Artifact}] ELSE run
    /\ Work(r, p, [work[r][p] EXCEPT !.pc = "put", !.held = run'[r]])
    /\ UNCHANGED <<World, objects, made, faults, interrupted, moved>>

EnsureArtifactFinalizer(r, p) ==
    \E w \in {work[r][p]} :
      /\ w.pc = "finalizer"
      /\ IF Artifact \in w.held.fins
         THEN run' = run /\ Work(r, p, [w EXCEPT !.pc = "put"])
         ELSE IF Wins(r, p)
         THEN /\ run' = [run EXCEPT ![r].fins = @ \cup {Artifact}]
              /\ Work(r, p, [w EXCEPT !.pc = "put", !.held.fins = @ \cup {Artifact}])
         ELSE run' = run /\ Work(r, p, Again(w))
      /\ UNCHANGED <<World, objects, made, faults, interrupted, moved>>

(* How a collection goes on after an error: what was uploaded is rolled    *)
(* back; an invalid artifact fails the Run, anything else is tried again.  *)
AfterError(w, result) ==
    IF w.uploads THEN [w EXCEPT !.pc = "rollback", !.result = result]
    ELSE IF result = "Failed" THEN [w EXCEPT !.pc = "write", !.result = "Failed", !.refs = {}]
    ELSE Again(w)

(* Room left for the next artifact. *)
MaxStored(w) == IF MaxTotal - w.total < MaxArtifact THEN MaxTotal - w.total ELSE MaxArtifact

(* (Mutant of AfterPut: an upload that failed counts as stored.) *)
AfterPutIgnoringErrors(w, p, file, end) ==
    IF end = "invalid" \/ w.total + file.stored > MaxTotal THEN AfterError(w, "Failed")
    ELSE [w EXCEPT !.at = @ + 1, !.total = @ + file.stored,
                   !.refs = @ \cup {[store |-> store[p], name |-> w.at]}]

(* What collectArtifacts makes of the answer of Put. *)
AfterPut(w, p, file, end) ==
    CASE end = "invalid" -> AfterError(w, "Failed")
      [] end = "failed"  -> AfterError(w, "")
      [] OTHER -> IF file.stored > MaxArtifact \/ w.total + file.stored > MaxTotal
                  THEN AfterError(w, "Failed")
                  ELSE [w EXCEPT !.at = @ + 1, !.total = @ + file.stored,
                                 !.refs = @ \cup {[store |-> store[p], name |-> w.at]}]

(* What is looked at before the upload: the name, and the size on disk.    *)
(* A directory is stored as an archive, whose size is not the one on disk. *)
ValidateName(file) == file.valid
inspectArtifact(file) == file.size <= MaxArtifact
ArchiveDirectory(file) == file.stored

(* One entry of the staging directory: its name and size are checked, then *)
(* it is stored.                                                           *)
PutNext(r, p) ==
    \E w \in {work[r][p]} :
      /\ w.pc = "put" /\ w.at <= Len(Files(r))
      /\ \E file \in {Files(r)[w.at]} :
           IF ~ValidateName(file) \/ ~inspectArtifact(file) \/ MaxStored(w) <= 0
           THEN /\ Work(r, p, AfterError(w, "Failed"))
                /\ UNCHANGED <<objects, made, faults, moved>>
           ELSE \E out \in Put(Object(store[p], r, w.at), ArchiveDirectory(file), MaxStored(w)) :
                  /\ objects' = out.objects
                  /\ \/ made' = mkdirAllNoSymlink(store[p])
                     \/ out.end = "failed" /\ out.objects = objects /\ made' = made
                  /\ Count(out, FALSE)
                  /\ Work(r, p, AfterPut([w EXCEPT !.uploads = TRUE], p, file, out.end))
                  /\ moved' = moved \cup (IF w.held.store # store[p] THEN {r} ELSE {})
      /\ UNCHANGED <<World, run, interrupted>>

PutsDone(r, p) ==
    /\ work[r][p].pc = "put" /\ work[r][p].at > Len(Files(r))
    /\ Work(r, p, [work[r][p] EXCEPT !.pc = "write"])
    /\ UNCHANGED <<Local, faults>>

(* deleteRunArtifacts after an error.  A failed rollback does not change   *)
(* what becomes of the Run.                                                *)
Rollback(r, p) ==
    \E w \in {work[r][p]} :
      /\ w.pc = "rollback"
      /\ \E out \in DeleteRun(store[p], r) :
           /\ objects' = out.objects
           /\ Count(out, ~ensureNoSymlinkPath(store[p]))
      /\ Work(r, p, IF w.result = "Failed" THEN [w EXCEPT !.pc = "write", !.refs = {}] ELSE Again(w))
      /\ UNCHANGED <<World, run, made, interrupted, moved>>

(* applySuccess, or applyTerminalWithOutput after an invalid artifact; the *)
(* local directories go with the Run.                                      *)
WriteResult(r, p) ==
    \E w \in {work[r][p]} :
      /\ w.pc = "write"
      /\ IF Wins(r, p)
         THEN /\ run' = [run EXCEPT ![r].phase = w.result, ![r].refs = w.refs]
              /\ Work(r, p, Idle)
         ELSE run' = run /\ Work(r, p, Again(w))
      /\ UNCHANGED <<World, objects, made, faults, interrupted, moved>>

(* reconcileDeletingRegistration of a Session or Function Run. *)
ReleaseRegistration(r) ==
    /\ run[r].deleting /\ Registration \in run[r].fins
    /\ run[r].pod = NoPod \/ run[r].pod \in alive
    /\ run' = [run EXCEPT ![r] = Settled([@ EXCEPT !.fins = @ \ {Registration}])]
    /\ UNCHANGED <<World, work, objects, made, faults, interrupted, moved>>

---------------------------------------------------------------------------
(* ArtifactCleanupReconciler and the maintainers. *)

(* snapshotArtifactStore: a guarded Run without a recorded store, from a   *)
(* version that did not record it.                                         *)
SnapshotArtifactStore(r) ==
    /\ Artifact \in run[r].fins /\ run[r].store = NoStore
    /\ runtime # NoStore
    /\ run' = [run EXCEPT ![r].store = runtime]
    /\ UNCHANGED <<World, work, objects, made, faults, interrupted, moved>>

(* (Mutant of EnsureCleanupWorker: the maintainer belongs to the Runtime.) *)
EnsureRuntimeWorker(r) ==
    /\ Artifact \in run[r].fins /\ run[r].store # NoStore /\ run[r].deleting
    /\ runtime # NoStore /\ runtime \notin workers
    /\ workers' = workers \cup {runtime}
    /\ UNCHANGED <<env, run, work, alive, store, runtime, objects, made, pass, faults, interrupted, contested, moved>>

(* The Deployment is named after the recorded store, not after the Runtime, *)
(* and created or corrected.                                                *)
buildCleanupWorkerDeployment(r) == run[r].store
reconcileCleanupDeployment(deploy) == workers \cup {deploy}

EnsureCleanupWorker(r) ==
    /\ Artifact \in run[r].fins /\ run[r].store # NoStore /\ run[r].deleting
    /\ buildCleanupWorkerDeployment(r) \notin workers
    /\ workers' = reconcileCleanupDeployment(buildCleanupWorkerDeployment(r))
    /\ UNCHANGED <<env, run, work, alive, store, runtime, objects, made, pass, faults, interrupted, contested, moved>>

(* The Runs a pass of a maintainer is about. *)
Cleanable(s, r) == run[r].deleting /\ Artifact \in run[r].fins /\ run[r].store = s

(* cleanMatchingRuns: list, then for each Run remove its objects and take  *)
(* the finalizer off.                                                      *)
MaintainerLists(s) ==
    /\ s \in workers /\ pass[s] = <<>>
    /\ \E r \in Runs : Cleanable(s, r)
    /\ pass' = [pass EXCEPT ![s] = SetToSeq({[run |-> r, fins |-> run[r].fins, swept |-> FALSE] :
                                               r \in {q \in Runs : Cleanable(s, q)}})]
    /\ UNCHANGED <<env, run, work, alive, store, runtime, objects, made, workers, faults, interrupted, contested, moved>>

MaintainerDeletes(s) ==
    /\ pass[s] # <<>> /\ ~Head(pass[s]).swept
    /\ \E out \in DeleteRun(s, Head(pass[s]).run) :
         /\ objects' = out.objects
         /\ Count(out, ~ensureNoSymlinkPath(s))
         /\ pass' = [pass EXCEPT ![s] = IF out.end = "ok" THEN [@ EXCEPT ![1].swept = TRUE] ELSE Tail(@)]
    /\ UNCHANGED <<env, run, work, alive, store, runtime, made, workers, interrupted, contested, moved>>

(* The merge patch writes the whole list of finalizers as it was listed;   *)
(* the API server adds none to a deleting Run.                             *)
MaintainerPatches(s) ==
    /\ pass[s] # <<>> /\ Head(pass[s]).swept
    /\ \E r \in {Head(pass[s]).run}, fins \in {Head(pass[s]).fins \ {Artifact}} :
         run' = IF run[r].deleting /\ fins \subseteq run[r].fins
                THEN [run EXCEPT ![r] = Settled([@ EXCEPT !.fins = fins])]
                ELSE run
    /\ pass' = [pass EXCEPT ![s] = Tail(@)]
    /\ UNCHANGED <<env, work, alive, store, runtime, objects, made, workers, faults, interrupted, contested, moved>>

---------------------------------------------------------------------------
Attempt(r, p) ==
    \/ StartExecution(r, p) \/ StageArtifactInput(r, p) \/ Execute(r, p) \/ ExecutionEnds(r, p)
    \/ ApplyFailure(r, p) \/ Release(r, p)

Collection(r, p) ==
    \/ Collect(r, p) \/ RecordStore(r, p) \/ EnsureArtifactFinalizer(r, p)
    \/ PutNext(r, p) \/ PutsDone(r, p) \/ Rollback(r, p) \/ WriteResult(r, p)

Controllers(r) ==
    \/ ReleaseRegistration(r) \/ SnapshotArtifactStore(r) \/ EnsureCleanupWorker(r)

Maintainer(s) == MaintainerLists(s) \/ MaintainerDeletes(s) \/ MaintainerPatches(s)

Environment ==
    \/ \E r \in Runs : UserDeletes(r) \/ CompletedRunGC(r) \/ \E from \in Runs : CreateConsumer(r, from)
    \/ \E p \in Pods : PodDies(p)
    \/ \E s \in Stores : EditStore(s)
    \/ DeleteRuntime

Next ==
    \/ \E r \in Runs : Reap(r) \/ Controllers(r)
                       \/ \E p \in Pods : Assign(r, p) \/ Attempt(r, p) \/ Collection(r, p)
    \/ \E p \in Pods : ReplacePod(p)
    \/ \E s \in Stores : Maintainer(s)
    \/ Environment

Spec == Init /\ [][Next]_vars

(* runtimed's workers, the controllers and the maintainers keep running; a *)
(* replacement Pod comes while the Runtime exists and the scheduler finds  *)
(* it.  Nobody is obliged to delete, edit or break anything.               *)
FairSpec ==
    /\ Spec
    /\ \A r \in Runs :
         /\ \A p \in Pods : WF_vars(Attempt(r, p) \/ Collection(r, p))
         /\ WF_vars(Controllers(r))
         /\ WF_vars(run[r].pod \notin alive /\ Reap(r))
         /\ WF_vars(\E p \in Pods : Assign(r, p))
    /\ \A p \in Pods : WF_vars(ReplacePod(p))
    /\ \A s \in Stores : WF_vars(Maintainer(s))

---------------------------------------------------------------------------
(* Properties. *)

Ref == [store : Stores, name : Nat]
RunRecord(o) ==
    /\ o.phase \in {"Absent", "Pending", "Running", "Succeeded", "Failed", "Gone"}
    /\ o.pod \in Pods \cup {NoPod} /\ o.attempt \in 1..MaxAttempts
    /\ o.store \in Stores \cup {NoStore}
    /\ o.refs \subseteq Ref
    /\ o.refs # {} => o.phase = "Succeeded"
    /\ o.fins \subseteq {Artifact, Registration}
    /\ o.deleting => o.fins # {}

(* Every variable has its type; only a Run that succeeded has references and a   *)
(* deleting Run waits for a finalizer.                                     *)
TypeOK ==
    /\ \A r \in Runs : RunRecord(run[r])
    /\ \A r \in Runs, p \in Pods :
         /\ work[r][p].pc \in {"idle", "stage", "executing", "succeeded", "failed"} \cup Busy
         /\ work[r][p].total \in 0..MaxTotal
         /\ p \notin alive => work[r][p] = Idle
    /\ \A o \in objects : o.store \in Stores /\ o.run \in Runs /\ o.name \in 1..Len(Files(o.run))
    /\ faults \in 0..env.faults

(* What a Run publishes is there: while a Run that succeeded is not being  *)
(* deleted, every file it left is referenced and every reference opens,    *)
(* unless the reaper had taken the Run from a runtimed that was still      *)
(* uploading (its rollback removes the objects of the Run, whoever stored  *)
(* them).                                                                  *)
RefsReadable ==
    \A r \in Runs :
        run[r].phase = "Succeeded" /\ ~run[r].deleting /\ r \notin contested =>
            /\ {ref.name : ref \in run[r].refs} = 1..Len(Files(r))
            /\ \A ref \in run[r].refs : Object(ref.store, r, ref.name) \in objects

SumStored(r, names) == MapThenSumSet(LAMBDA n : Files(r)[n].stored, names)

(* The limits bound what is kept: the artifacts of a Run that succeeded    *)
(* are within the per-artifact and the per-Run limit, whichever store      *)
(* driver checked which of them.                                           *)
WithinLimits ==
    \A r \in Runs :
        run[r].phase = "Succeeded" =>
            /\ \A ref \in run[r].refs : Files(r)[ref.name].stored <= MaxArtifact
            /\ SumStored(r, {ref.name : ref \in run[r].refs}) <= MaxTotal
            /\ Cardinality(run[r].refs) <= MaxArtifactRefs

(* No object without a guard: whenever a store holds an object of a Run,   *)
(* the Run exists and carries the finalizer, or its deletion had come in   *)
(* the middle of a collection, or a collection had been repeated in        *)
(* another store than the recorded one.                                    *)
NoOrphans ==
    \A o \in objects :
        \/ Artifact \in run[o.run].fins /\ (run[o.run].store = o.store \/ o.run \in moved)
        \/ o.run \in interrupted \cup contested \cup moved

(* An invalid collection leaves nothing: a Run that fails over an artifact *)
(* has no references, and no objects unless a store call failed.           *)
InvalidLeavesNothing ==
    \A r \in Runs : run[r].phase = "Failed" =>
        run[r].refs = {} /\ (faults = 0 /\ env.dies = {} /\ r \notin contested => ObjectsOf(r) = {})

(* What is published is there and within the limits, and a collection that *)
(* is refused publishes and leaves nothing.                                *)
PublishedSound == TypeOK /\ RefsReadable /\ WithinLimits /\ InvalidLeavesNothing

(* Deletion ends: a Run that is being deleted goes, whatever became of its *)
(* Pod, of its Runtime or of single store calls, if its store was recorded *)
(* or the Runtime is still there to say, and something was stored there    *)
(* before.                                                                 *)
DeletionEnds ==
    \A r \in Runs :
        (run[r].deleting /\ run[r].store \in made) ~> ~run[r].deleting

(* A collection ends: what an attempt left is published or refused, or the *)
(* Run is taken away.                                                      *)
CollectionEnds ==
    \A r \in Runs : (\E p \in Pods : work[r][p].pc = "succeeded") ~>
                        (\A p \in Pods : work[r][p].pc # "succeeded" /\ work[r][p].pc \notin Busy)

(* Collections and deletions end, so no Run keeps its finalizer for ever.  *)
ArtifactsSettle == DeletionEnds /\ CollectionEnds

(* Too strong: "Runs with artifact finalizers can be deleted even when the *)
(* Runtime no longer exists" (docs/open-source-readiness.md): every        *)
(* deletion of a Run whose store is recorded ends. Not in a store nothing  *)
(* was ever put in.                                                        *)
DeletionAlwaysEnds ==
    \A r \in Runs : (run[r].deleting /\ run[r].store # NoStore) ~> ~run[r].deleting

(* "The next reconciliation consumes a recorded start failure and applies  *)
(* it using the normal retry policy.  This includes failures while staging *)
(* artifact inputs" (docs/design/task-execution-lifecycle.md): the retry   *)
(* can succeed, so an attempt does not fail over inputs that are stored.   *)
(* Too strong: what an earlier attempt staged is in the way.               *)
RetryStagesAgain ==
    [][\A r \in Runs, p \in Pods :
         work[r][p].pc = "stage" /\ work'[r][p].pc = "failed" =>
             faults' > faults \/ ~Open(store[p], run[r].inputs[work[r][p].at])]_vars
==============================================================================
