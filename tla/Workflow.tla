------------------------------- MODULE Workflow -------------------------------
(***************************************************************************)
(* The WorkflowRun controller (internal/controller/workflowrun_controller  *)
(* .go with workflow_snapshot.go and workflow_artifacts.go): WorkflowRuns,  *)
(* the child Runs of their steps and the child WorkflowRuns of their calls. *)
(*                                                                         *)
(* One worker reconciles the queued WorkflowRuns from informer caches that *)
(* lag behind the API server. A reconcile derives a status from the cached *)
(* children, applies one action (initialize, start every runnable target,  *)
(* or request the cancellation of the children), and patches what it       *)
(* changed in the status it had read. It may fail at any point: what it    *)
(* created stays, the status is not patched, and the key stays queued; a   *)
(* crash and restart of the controller looks the same.                     *)
(*                                                                         *)
(* A WorkflowRun is named by the path of calls that leads to it; a Run is  *)
(* named by its WorkflowRun, job, step and Action step (0 when inline).    *)
(* Names are deterministic, so a recorded RunName or WorkflowRunName is a  *)
(* flag. The scheduler and the runtimeds that move the child Runs are      *)
(* external; of their phases the controller tells apart the active ones,   *)
(* Succeeded, Failed (or Timeout) and Cancelled.                           *)
(***************************************************************************)
EXTENDS WorkflowExpr

CONSTANTS
    Specs,     \* the scenarios: definitions [jobs, templates, actions], results
               \* [phase, outputs, artifacts] their commands may have, and
               \* WorkflowRuns a user may cancel
    MaxFaults  \* bound on the reconciles that fail

ASSUME WorkflowAssumption == MaxFaults \in Nat

VARIABLES
    spec,      \* the scenario of this behaviour
    wf,        \* WorkflowRuns in the API server
    wfSeen,    \* ... in the cache of the controller
    runs,      \* child Runs in the API server
    runSeen,   \* ... in the cache
    made,      \* snapshots <<w>> and job workspaces <<w, job>> in the API server
    madeSeen,  \* ... in the cache
    queue,     \* WorkflowRuns to reconcile
    faults

vars == <<spec, wf, wfSeen, runs, runSeen, made, madeSeen, queue, faults>>

Root == <<>>
NoJobs == <<>>

\* The jobs a WorkflowRun defines (its Spec never changes).
JobsOf(w) == wf[w].spec
Parent(c) == SubSeq(c, 1, Len(c) - 1)
ActionOf(w, j, s) == spec.actions[JobsOf(w)[j].steps[s].uses]

\* Names are deterministic; the labels of a Run say whose step it is.
workflowStepRunName(w, j, s, a) == <<w, j, s, a>>
workflowCallRunName(w, j) == Append(w, j)
workflowJobWorkspaceName(w, j) == <<w, j>>
workflowSnapshotName(w) == <<w>>

\* The outputs a called Workflow declares, kept in annotations of its run.
workflowOutputContract(w, j) == spec.templates[JobsOf(w)[j].uses].outputs

TerminalWorkflow == {"Succeeded", "Failed", "Cancelled"}
TerminalRun == {"Succeeded", "Failed", "Cancelled"}

NewWorkflowRun(jobs) ==
    [spec |-> jobs, cancel |-> FALSE, phase |-> "Pending", jobs |-> NoJobs, snapshot |-> FALSE]
NewStepRun(env) == [phase |-> "Active", term |-> FALSE, outputs |-> {}, artifacts |-> {},
                    env |-> env]

\* The status of a step (or Action step) and of a job.
PendingStep(n) ==
    [phase |-> "Pending", run |-> FALSE, outputs |-> {},
     acts |-> [a \in 1 .. n |-> [phase |-> "Pending", run |-> FALSE, outputs |-> {}]]]
NewJob(w, j) ==
    LET job == JobsOf(w)[j]
    IN  [phase |-> IF job.needs = {} THEN "Pending" ELSE "Waiting",
         call |-> FALSE, outputs |-> {}, artifacts |-> {},
         steps |-> [s \in DOMAIN job.steps |->
                      IF job.steps[s].uses = "" THEN PendingStep(0)
                      ELSE PendingStep(Len(ActionOf(w, j, s).steps))]]
resolvedJobStatuses(w) == [j \in DOMAIN JobsOf(w) |-> NewJob(w, j)]

Init ==
    /\ spec \in Specs
    /\ wf = [w \in {Root} |-> NewWorkflowRun(spec.jobs)] /\ wfSeen = <<>>
    /\ runs = <<>> /\ runSeen = <<>> /\ made = {} /\ madeSeen = {}
    /\ queue = {} /\ faults = 0
-------------------------------------------------------------------------------
\* What the caches show of the children of a WorkflowRun.
ChildRuns(w) == {k \in DOMAIN runSeen : k[1] = w}
ChildWorkflows(w) == {c \in DOMAIN wfSeen : c # Root /\ Parent(c) = w}
SettledRun(k) == k \in DOMAIN runSeen /\ runSeen[k].phase \in TerminalRun

hasActiveChildRuns(w) ==
    \E k \in ChildRuns(w) : runSeen[k].phase \notin TerminalRun /\ ~ runSeen[k].term
hasActiveChildWorkflowRuns(w) ==
    \E c \in ChildWorkflows(w) : wfSeen[c].phase \notin TerminalWorkflow /\ ~ wfSeen[c].cancel

\* The contexts of expressions: outputs of succeeded jobs, and of the
\* succeeded steps of the job.
JobOutputs(jobs) ==
    [j \in {x \in DOMAIN jobs : jobs[x].phase = "Succeeded" /\ jobs[x].outputs # {}} |->
        publicWorkflowOutputs(jobs[j].outputs)]
StepOutputs(steps) ==
    [s \in {x \in DOMAIN steps : steps[x].phase = "Succeeded" /\ steps[x].outputs # {}} |->
        publicWorkflowOutputs(steps[s].outputs)]
workflowRunStepContext(jobs, j) ==
    Context({}, StepOutputs(jobs[j].steps), JobOutputs(jobs))

\* projectChildRunStatus: a terminal child Run is copied into its step, unless
\* its environment outputs are malformed: then the (caller) step has failed.
Projected(status, k) ==
    IF SettledRun(k) /\ ~ malformedEnvironment(runSeen[k].outputs)
    THEN [status EXCEPT !.phase = IF runSeen[k].phase = "Succeeded" THEN "Succeeded" ELSE "Failed",
                        !.run = TRUE, !.outputs = runSeen[k].outputs]
    ELSE status
projectChildRunStatus(w, j, s, step) ==
    LET malformed == \E a \in 0 .. Len(step.acts) :
                        /\ SettledRun(workflowStepRunName(w, j, s, a))
                        /\ malformedEnvironment(runSeen[workflowStepRunName(w, j, s, a)].outputs)
        projected == [Projected(step, workflowStepRunName(w, j, s, 0)) EXCEPT
                        !.acts = [a \in DOMAIN step.acts |-> Projected(step.acts[a], workflowStepRunName(w, j, s, a))]]
    IN  IF malformed THEN [projected EXCEPT !.phase = "Failed"] ELSE projected
deriveStepStatusesFromChildRuns(w, jobs) ==
    [j \in DOMAIN jobs |->
        [jobs[j] EXCEPT !.steps = [s \in DOMAIN @ |-> projectChildRunStatus(w, j, s, @[s])]]]

actionCallPhase(acts) ==
    CASE \E a \in DOMAIN acts : acts[a].phase = "Failed" -> "Failed"
      [] \A a \in DOMAIN acts : acts[a].phase = "Succeeded" -> "Succeeded"
      [] OTHER -> "Running"
resolveActionOutputs(action, acts, with, ctx) ==
    /\ resolveActionInputs(with, ctx, action.inputs)
    /\ resolveValues(action.outputs,
                     Context(DOMAIN action.inputs, StepOutputs(acts), ctx.jobs))

\* The caller step of an Action ends with its last Action step, or with the
\* first one that fails; its outputs are those the Action declares and the
\* environment of the Action steps.
deriveActionCallStatus(w, j, s, step, ctx) ==
    LET action == ActionOf(w, j, s)
        with == JobsOf(w)[j].steps[s].with
        env == UNION {workflowEnvironmentOutputs(step.acts[a].outputs) : a \in DOMAIN step.acts}
    IN  CASE step.phase \in {"Succeeded", "Failed"} -> step
          [] actionCallPhase(step.acts) = "Running" -> step
          [] actionCallPhase(step.acts) = "Succeeded" /\ resolveActionOutputs(action, step.acts, with, ctx) ->
               [step EXCEPT !.phase = "Succeeded", !.outputs = DOMAIN action.outputs \cup env]
          [] OTHER -> [step EXCEPT !.phase = "Failed"]

\* Steps are derived in order: a later one sees the outputs of the earlier ones.
deriveActionStepsForJob(w, j, jobs) ==
    LET upto[n \in 0 .. Len(jobs[j].steps)] ==
            IF n = 0 THEN {jobs[j].steps}
            ELSE {IF JobsOf(w)[j].steps[n].uses = "" THEN steps
                  ELSE [steps EXCEPT ![n] = deriveActionCallStatus(w, j, n, @,
                                               Context({}, StepOutputs(steps), JobOutputs(jobs)))]
                    : steps \in upto[n - 1]}
    IN  [jobs[j] EXCEPT !.steps = CHOOSE steps \in upto[Len(jobs[j].steps)] : TRUE]
deriveActionStepStatuses(w, jobs) ==
    [j \in DOMAIN jobs |-> deriveActionStepsForJob(w, j, jobs)]

\* A called WorkflowRun that ended ends its job; its outputs are those that the
\* Workflow declares, and one that cannot be resolved fails the job.
resolveWorkflowCallOutputs(w, j) ==
    LET child == wfSeen[workflowCallRunName(w, j)]
        contract == workflowOutputContract(w, j)
    IN  [ok |-> resolveValues(contract, Context({}, <<>>, JobOutputs(child.jobs))),
         outputs |-> DOMAIN contract]
deriveWorkflowCallStatus(w, j, job) ==
    IF ~ (job.call /\ job.phase = "Running" /\ workflowCallRunName(w, j) \in DOMAIN wfSeen) THEN job
    ELSE CASE wfSeen[workflowCallRunName(w, j)].phase = "Succeeded" ->
                LET out == resolveWorkflowCallOutputs(w, j)
                IN  IF out.ok THEN [job EXCEPT !.phase = "Succeeded", !.outputs = out.outputs]
                    ELSE [job EXCEPT !.phase = "Failed"]
           [] wfSeen[workflowCallRunName(w, j)].phase \in {"Failed", "Cancelled"} ->
                [job EXCEPT !.phase = "Failed"]
           [] OTHER -> job
deriveWorkflowCallStatuses(w, jobs) ==
    [j \in DOMAIN jobs |-> deriveWorkflowCallStatus(w, j, jobs[j])]

\* A Running job ends with its steps; it offers the outputs it declares and the
\* artifacts of its child Runs.
StepsFailed(job) == \E s \in DOMAIN job.steps : job.steps[s].phase = "Failed"
StepsSucceeded(job) == job.steps # <<>> /\ \A s \in DOMAIN job.steps : job.steps[s].phase = "Succeeded"
resolveJobArtifactRefs(w, j, job) ==
    UNION {runSeen[k].artifacts : k \in {x \in ChildRuns(w) : x[2] = j /\ runSeen[x].phase = "Succeeded"}}
deriveJobStatus(w, j, job) ==
    LET outputs == JobsOf(w)[j].outputs
    IN  CASE job.phase # "Running" -> job
          [] StepsFailed(job) -> [job EXCEPT !.phase = "Failed"]
          [] ~ StepsFailed(job) /\ StepsSucceeded(job) ->
               IF resolveValues(outputs, Context({}, StepOutputs(job.steps), <<>>))
               THEN [job EXCEPT !.phase = "Succeeded", !.outputs = DOMAIN outputs,
                                !.artifacts = resolveJobArtifactRefs(w, j, job)]
               ELSE [job EXCEPT !.phase = "Failed"]
          [] OTHER -> job
deriveJobStatuses(w, jobs) == [j \in DOMAIN jobs |-> deriveJobStatus(w, j, jobs[j])]

\* A job that has not started is skipped when one it needs failed or was
\* skipped, until nothing changes.
NotStarted(job) == job.phase \in {"Pending", "Waiting"}
hasFailedOrSkippedDependency(w, j, jobs) ==
    \E pre \in JobsOf(w)[j].needs : jobs[pre].phase \in {"Failed", "Skipped"}
deriveSkippedJobStatuses(w, jobs) ==
    LET round[n \in 0 .. Cardinality(DOMAIN jobs)] ==
            IF n = 0 THEN {jobs}
            ELSE {[j \in DOMAIN jobs |->
                     IF NotStarted(prev[j]) /\ hasFailedOrSkippedDependency(w, j, prev)
                     THEN [prev[j] EXCEPT !.phase = "Skipped"] ELSE prev[j]] : prev \in round[n - 1]}
    IN  CHOOSE skipped \in round[Cardinality(DOMAIN jobs)] : TRUE

\* (Mutant of deriveTerminalWorkflowRunStatus: the first failure ends it.)
FailFast(phase, jobs) ==
    IF \E j \in DOMAIN jobs : jobs[j].phase = "Failed" THEN "Failed" ELSE phase
deriveTerminalWorkflowRunStatus(phase, jobs) ==
    IF jobs = NoJobs \/ \E j \in DOMAIN jobs : jobs[j].phase \notin {"Failed", "Succeeded", "Skipped"}
    THEN phase
    ELSE IF \E j \in DOMAIN jobs : jobs[j].phase = "Failed" THEN "Failed" ELSE "Succeeded"

deriveCancelledWorkflowRunStatus(w, phase) ==
    IF \/ phase \in TerminalWorkflow
       \/ \E k \in ChildRuns(w) : runSeen[k].phase \notin TerminalRun
       \/ \E c \in ChildWorkflows(w) : wfSeen[c].phase \notin TerminalWorkflow
    THEN phase ELSE "Cancelled"

\* The status a reconcile of w derives from what it has read, as the one member
\* of a set (TLC then computes each stage once).
deriveWorkflowRunStatus(w) ==
    LET seen == wfSeen[w]
        steps == {deriveStepStatusesFromChildRuns(w, jobs) : jobs \in {seen.jobs}}
        actions == {deriveActionStepStatuses(w, jobs) : jobs \in steps}
        calls == {deriveWorkflowCallStatuses(w, jobs) : jobs \in actions}
        derived == {deriveJobStatuses(w, jobs) : jobs \in calls}
    IN  IF seen.cancel
        THEN {[seen EXCEPT !.jobs = jobs, !.phase = deriveCancelledWorkflowRunStatus(w, @)] : jobs \in derived}
        ELSE {[seen EXCEPT !.jobs = jobs, !.phase = deriveTerminalWorkflowRunStatus(@, jobs)] :
                jobs \in {deriveSkippedJobStatuses(w, x) : x \in derived}}
-------------------------------------------------------------------------------
\* (Mutant of jobReadyToStart: dependencies have started.)
DependenciesStarted(w, j, jobs) ==
    NotStarted(jobs[j]) /\ \A pre \in JobsOf(w)[j].needs : ~ NotStarted(jobs[pre])
jobReadyToStart(w, j, jobs) ==
    NotStarted(jobs[j]) /\ \A pre \in JobsOf(w)[j].needs : jobs[pre].phase = "Succeeded"

\* The first step that has not succeeded, unless it failed; within an Action
\* the first Action step that has not succeeded, if it is pending.
Unfinished(steps) == {s \in DOMAIN steps : steps[s].phase # "Succeeded"}
FirstUnfinished(steps) == CHOOSE s \in Unfinished(steps) : \A x \in Unfinished(steps) : s <= x
nextStepRunTarget(w, j, job) ==
    IF Unfinished(job.steps) = {} THEN {}
    ELSE LET s == FirstUnfinished(job.steps)
             step == job.steps[s]
             a == IF Unfinished(step.acts) = {} THEN 0 ELSE FirstUnfinished(step.acts)
         IN  IF JobsOf(w)[j].steps[s].uses = ""
             THEN IF step.phase = "Pending" /\ ~ step.run THEN {workflowStepRunName(w, j, s, 0)} ELSE {}
             ELSE IF /\ step.phase # "Failed" /\ a # 0
                     /\ step.acts[a].phase = "Pending" /\ ~ step.acts[a].run
                  THEN {workflowStepRunName(w, j, s, a)} ELSE {}
runnableStepTargets(w, jobs) ==
    UNION {nextStepRunTarget(w, j, jobs[j]) :
             j \in {x \in DOMAIN jobs : /\ JobsOf(w)[x].uses = ""
                                        /\ jobs[x].phase = "Running" \/ jobReadyToStart(w, x, jobs)}}
runnableWorkflowCallTargets(w, jobs) ==
    {<<w, j>> : j \in {x \in DOMAIN jobs : /\ JobsOf(w)[x].uses # "" /\ ~ jobs[x].call
                                           /\ jobReadyToStart(w, x, jobs)}}
Targets(w, d) == runnableStepTargets(w, d.jobs) \cup runnableWorkflowCallTargets(w, d.jobs)

\* calculateWorkflowRunPlan, workflowRunStateFor
Plan(w, d) ==
    CASE d.phase \notin TerminalWorkflow /\ ~ d.cancel /\ d.jobs = NoJobs -> "Initialize"
      [] d.cancel /\ (hasActiveChildRuns(w) \/ hasActiveChildWorkflowRuns(w)) -> "RequestChildCancellation"
      [] d.phase \notin TerminalWorkflow /\ ~ d.cancel /\ d.jobs # NoJobs /\ Targets(w, d) # {} ->
           "StartRunnableTargets"
      [] OTHER -> "None"

\* loadWorkflowRunResources: an initialized WorkflowRun cannot be loaded
\* before its snapshot is in the cache.
Loads(w) == w \in queue /\ w \in DOMAIN wfSeen
             /\ (wfSeen[w].snapshot \/ wfSeen[w].jobs # NoJobs => workflowSnapshotName(w) \in madeSeen)
Planned(w, action) ==
    IF Loads(w) THEN {d \in deriveWorkflowRunStatus(w) : Plan(w, d) = action} ELSE {}
-------------------------------------------------------------------------------
\* The status patch is a merge patch of the difference between the status that
\* was read and the desired one: what did not change keeps its stored value.
EmptyJob == [phase |-> "", call |-> FALSE, outputs |-> {}, artifacts |-> {}, steps |-> <<>>]
JobIn(jobs, j) == IF j \in DOMAIN jobs THEN jobs[j] ELSE EmptyJob
MergeJob(stored, base, new) ==
    [f \in DOMAIN new |-> IF new[f] = base[f] THEN stored[f] ELSE new[f]]
\* (Mutant of MergePatch: the whole status is written back.)
OverwriteStatus(stored, base, new) == [new EXCEPT !.cancel = stored.cancel]
MergePatch(stored, base, new) ==
    [stored EXCEPT
        !.phase = IF new.phase = base.phase THEN @ ELSE new.phase,
        !.snapshot = IF new.snapshot = base.snapshot THEN @ ELSE new.snapshot,
        !.jobs = IF new.jobs = base.jobs THEN @
                 ELSE [j \in DOMAIN new.jobs |->
                         MergeJob(JobIn(stored.jobs, j), JobIn(base.jobs, j), new.jobs[j])]]
PatchStatus(w, d) == wf' = [wf EXCEPT ![w] = MergePatch(@, wfSeen[w], d)]

\* A reconcile that fails: its key stays queued.
Fault == faults < MaxFaults /\ faults' = faults + 1

\* Nothing to apply: the derived status is stored.
Project(w) ==
    /\ \E d \in Planned(w, "None") : PatchStatus(w, d)
    /\ queue' = queue \ {w}
    /\ UNCHANGED <<spec, wfSeen, runs, runSeen, made, madeSeen, faults>>

\* resolveWorkflowRunActions, validateWorkflowArtifactDependencies
ActionsResolve(w) ==
    \A j \in DOMAIN JobsOf(w) : \A s \in DOMAIN JobsOf(w)[j].steps :
        LET step == JobsOf(w)[j].steps[s]
        IN  IF step.uses = ""
            THEN validateStepArtifactDependencies(JobsOf(w)[j].needs, step)
            ELSE /\ step.uses \in DOMAIN spec.actions /\ validateActionSpec(spec.actions[step.uses])
                 /\ \A a \in DOMAIN spec.actions[step.uses].steps :
                      validateStepArtifactDependencies(JobsOf(w)[j].needs, spec.actions[step.uses].steps[a])
Acceptable(w) == validateWorkflowRunJobs(JobsOf(w)) /\ ActionsResolve(w)
UsesActions(w) == \E j \in DOMAIN JobsOf(w) : \E s \in DOMAIN JobsOf(w)[j].steps :
                    JobsOf(w)[j].steps[s].uses # ""

\* An unacceptable definition, or any error in reading an Action, rejects the
\* WorkflowRun for good; nothing is created.
rejectWorkflowRun(w) ==
    /\ workflowSnapshotName(w) \notin madeSeen
    /\ IF Acceptable(w) THEN UsesActions(w) /\ Fault ELSE UNCHANGED faults
    /\ \E d \in Planned(w, "Initialize") : PatchStatus(w, [d EXCEPT !.phase = "Failed"])
    /\ queue' = queue \ {w}
    /\ UNCHANGED <<spec, wfSeen, runs, runSeen, made, madeSeen>>

\* The snapshot is stored first, then one workspace per job of its own. One
\* that exists but is not in the cache yet ends the reconcile with an error.
Workspaces(w) == {workflowJobWorkspaceName(w, j) : j \in {x \in DOMAIN JobsOf(w) : JobsOf(w)[x].uses = ""}}
Initial(w) == Workspaces(w) \cup {workflowSnapshotName(w)}
CreatesBeforeError(w) ==
    {S \in SUBSET (Initial(w) \ made) : S # {} => workflowSnapshotName(w) \in S \cup madeSeen}
applyInitializeWorkflowRun(w) ==
    /\ workflowSnapshotName(w) \in madeSeen \/ Acceptable(w)
    /\ made \cap Initial(w) \subseteq madeSeen
    /\ made' = made \cup Initial(w)
    /\ \E d \in Planned(w, "Initialize") :
         PatchStatus(w, [d EXCEPT !.phase = "Pending", !.jobs = resolvedJobStatuses(w), !.snapshot = TRUE])
    /\ queue' = queue \ {w}
    /\ UNCHANGED <<spec, wfSeen, runs, runSeen, madeSeen, faults>>
InitializeFails(w) ==
    /\ Planned(w, "Initialize") # {} /\ (workflowSnapshotName(w) \in madeSeen \/ Acceptable(w))
    /\ \E S \in CreatesBeforeError(w) : made' = made \cup S
    /\ Fault
    /\ UNCHANGED <<spec, wf, wfSeen, runs, runSeen, madeSeen, queue>>

\* What becomes of a target: a step or a call that cannot be resolved has
\* failed, a child in the cache is reused, and one that exists but is not in
\* the cache ends the reconcile with an error.
IsCall(t) == Len(t) = 2
workflowStepEnvironment(job, s, a) ==
    LET before == {x \in 1 .. s - 1 : job.steps[x].phase = "Succeeded"}
        inner == {x \in 1 .. a - 1 : job.steps[s].acts[x].phase = "Succeeded"}
    IN  UNION ({workflowEnvironmentOutputs(job.steps[x].outputs) : x \in before}
               \cup {workflowEnvironmentOutputs(job.steps[s].acts[x].outputs) : x \in inner})
resolveWorkflowArtifactInputs(step, jobs) ==
    \A x \in step.artifacts : x[1] \in DOMAIN jobs /\ jobs[x[1]].phase = "Succeeded"
                              /\ x[2] \in jobs[x[1]].artifacts
StepInvalid(t, jobs) ==
    LET w == t[1]
        step == JobsOf(w)[t[2]].steps[t[3]]
        action == ActionOf(w, t[2], t[3])
        ctx == workflowRunStepContext(jobs, t[2])
        executed == IF t[4] = 0 THEN step ELSE action.steps[t[4]]
        context == IF t[4] = 0 THEN ctx ELSE [ctx EXCEPT !.inputs = DOMAIN action.inputs]
    IN  \/ t[4] # 0 /\ ~ resolveActionInputs(step.with, ctx, action.inputs)
        \/ /\ t \notin DOMAIN runSeen
           /\ \/ ~ resolveStepExecution(executed, context)
              \/ ~ resolveWorkflowArtifactInputs(executed, jobs)
CallInvalid(t, jobs) ==
    LET job == JobsOf(t[1])[t[2]]
    IN  ~ /\ ValidateCallGraph(spec.templates, job.uses)
          /\ resolveValues(job.with, Context({}, <<>>, JobOutputs(jobs)))
          /\ Materializes(spec.templates[job.uses], DOMAIN job.with)
Invalid(t, jobs) == IF IsCall(t) THEN CallInvalid(t, jobs) ELSE StepInvalid(t, jobs)
Conflicts(t, jobs) ==
    /\ ~ Invalid(t, jobs)
    /\ IF IsCall(t) THEN workflowCallRunName(t[1], t[2]) \in DOMAIN wf \ DOMAIN wfSeen
       ELSE t \in DOMAIN runs \ DOMAIN runSeen

recordStepRun(job, t) ==
    [job EXCEPT !.phase = "Running", !.steps[t[3]] =
        IF t[4] = 0 THEN [@ EXCEPT !.phase = "Running", !.run = TRUE]
        ELSE [@ EXCEPT !.phase = "Running", !.acts[t[4]].phase = "Running", !.acts[t[4]].run = TRUE]]
recordStepFailure(job, t) == [job EXCEPT !.phase = "Running", !.steps[t[3]].phase = "Failed"]
recordWorkflowCall(job) == [job EXCEPT !.phase = "Running", !.call = TRUE]
recordWorkflowCallFailure(job) == [job EXCEPT !.phase = "Failed"]
Recorded(job, t, jobs) ==
    CASE IsCall(t) /\ Invalid(t, jobs) -> recordWorkflowCallFailure(job)
      [] IsCall(t) /\ ~ Invalid(t, jobs) -> recordWorkflowCall(job)
      [] ~ IsCall(t) /\ Invalid(t, jobs) -> recordStepFailure(job, t)
      [] OTHER -> recordStepRun(job, t)

\* The Runs and WorkflowRuns once the targets T have been created or reused
\* (createOrReuseStepRun with buildStepRun, createWorkflowCall).
WithRuns(T, jobs) ==
    LET new == {t \in T : ~ IsCall(t) /\ ~ Invalid(t, jobs)} \ DOMAIN runs
    IN  [k \in DOMAIN runs \cup new |->
            IF k \in new THEN NewStepRun(workflowStepEnvironment(jobs[k[2]], k[3], k[4])) ELSE runs[k]]
WithCalls(T, jobs) ==
    LET new == {workflowCallRunName(t[1], t[2]) : t \in {x \in T : IsCall(x) /\ ~ Invalid(x, jobs)}} \ DOMAIN wf
        template(c) == spec.templates[JobsOf(Parent(c))[c[Len(c)]].uses]
    IN  [c \in DOMAIN wf \cup new |->
            IF c \in new THEN NewWorkflowRun(Materialize(template(c))) ELSE wf[c]]

applyStartRunnableTargets(w) ==
    /\ \E d \in Planned(w, "StartRunnableTargets") : \E T \in {Targets(w, d)} :
         LET jobs == [j \in DOMAIN d.jobs |->
                        IF \E t \in T : t[2] = j
                        THEN Recorded(d.jobs[j], CHOOSE t \in T : t[2] = j, d.jobs) ELSE d.jobs[j]]
         IN  /\ ~ \E t \in T : Conflicts(t, d.jobs)
             /\ runs' = WithRuns(T, d.jobs)
             /\ \E new \in {[d EXCEPT !.jobs = jobs, !.phase = "Running"]} :
                  wf' = [WithCalls(T, d.jobs) EXCEPT ![w] = MergePatch(@, wfSeen[w], new)]
    /\ queue' = queue \ {w}
    /\ UNCHANGED <<spec, wfSeen, runSeen, made, madeSeen, faults>>

\* The start of some target, or the patch after the last one, fails. (Job names
\* have no order here, so the targets reached before the failure are any set.)
StartFails(w) ==
    /\ \E d \in Planned(w, "StartRunnableTargets") : \E T \in {Targets(w, d)} :
         LET stopped == {t \in T : Conflicts(t, d.jobs)}
         IN  /\ \E S \in SUBSET (T \ stopped) :
                  runs' = WithRuns(S, d.jobs) /\ wf' = WithCalls(S, d.jobs)
             /\ IF stopped = {} THEN Fault ELSE UNCHANGED faults
    /\ UNCHANGED <<spec, wfSeen, runSeen, made, madeSeen, queue>>

\* Every child that the cache shows active is asked to end.
Terminated(K) == [k \in DOMAIN runs |-> IF k \in K THEN [runs[k] EXCEPT !.term = TRUE] ELSE runs[k]]
Cancelled(C) == [c \in DOMAIN wf |-> IF c \in C THEN [wf[c] EXCEPT !.cancel = TRUE] ELSE wf[c]]
ToTerminate(w) == {k \in ChildRuns(w) : ~ runSeen[k].term /\ runSeen[k].phase \notin TerminalRun}
ToCancel(w) == {c \in ChildWorkflows(w) : ~ wfSeen[c].cancel /\ wfSeen[c].phase \notin TerminalWorkflow}
applyRequestChildCancellation(w) ==
    /\ runs' = Terminated(ToTerminate(w))
    /\ \E d \in Planned(w, "RequestChildCancellation") :
         wf' = [Cancelled(ToCancel(w)) EXCEPT ![w] = MergePatch(@, wfSeen[w], d)]
    /\ queue' = queue \ {w}
    /\ UNCHANGED <<spec, wfSeen, runSeen, made, madeSeen, faults>>
CancellationFails(w) ==
    /\ Planned(w, "RequestChildCancellation") # {} /\ Fault
    /\ \E K \in SUBSET ToTerminate(w) : \E C \in SUBSET ToCancel(w) :
         /\ C # {} => K = ToTerminate(w)
         /\ runs' = Terminated(K) /\ wf' = Cancelled(C)
    /\ UNCHANGED <<spec, wfSeen, runSeen, made, madeSeen, queue>>
-------------------------------------------------------------------------------
\* The informers deliver what they have not shown yet and queue the owner; an
\* event of a called WorkflowRun queues its caller too (parentWorkflowRunRequest).
Put(f, k, v) == [x \in DOMAIN f \cup {k} |-> IF x = k THEN v ELSE f[x]]
\* (Mutant of ObserveWorkflowRun: the caller is not queued.)
ObserveOwnerOnly(w) ==
    /\ w \in DOMAIN wf /\ (w \in DOMAIN wfSeen => wfSeen[w] # wf[w])
    /\ wfSeen' = Put(wfSeen, w, wf[w]) /\ queue' = queue \cup {w}
    /\ UNCHANGED <<spec, wf, runs, runSeen, made, madeSeen, faults>>
ObserveWorkflowRun(w) ==
    /\ w \in DOMAIN wf /\ (w \in DOMAIN wfSeen => wfSeen[w] # wf[w])
    /\ wfSeen' = Put(wfSeen, w, wf[w])
    /\ queue' = queue \cup {w} \cup (IF w = Root THEN {} ELSE {Parent(w)})
    /\ UNCHANGED <<spec, wf, runs, runSeen, made, madeSeen, faults>>
ObserveRun(k) ==
    /\ k \in DOMAIN runs /\ (k \in DOMAIN runSeen => runSeen[k] # runs[k])
    /\ runSeen' = Put(runSeen, k, runs[k])
    /\ queue' = queue \cup {k[1]}
    /\ UNCHANGED <<spec, wf, wfSeen, runs, made, madeSeen, faults>>
ObserveMade ==
    /\ madeSeen # made /\ madeSeen' = made
    /\ queue' = queue \cup {x[1] : x \in made \ madeSeen}
    /\ UNCHANGED <<spec, wf, wfSeen, runs, runSeen, made, faults>>

\* A child Run ends by itself, or because it was asked to.
RunEnds(k) ==
    /\ k \in DOMAIN runs /\ runs[k].phase = "Active"
    /\ \E res \in spec.results : runs' = [runs EXCEPT ![k].phase = res.phase, ![k].outputs = res.outputs,
                                                 ![k].artifacts = res.artifacts]
    /\ UNCHANGED <<spec, wf, wfSeen, runSeen, made, madeSeen, queue, faults>>
RunCancelled(k) ==
    /\ k \in DOMAIN runs /\ runs[k].phase = "Active" /\ runs[k].term
    /\ runs' = [runs EXCEPT ![k].phase = "Cancelled"]
    /\ UNCHANGED <<spec, wf, wfSeen, runSeen, made, madeSeen, queue, faults>>

\* A user cancels a WorkflowRun.
RequestCancellation(w) ==
    /\ w \in spec.cancellable \cap DOMAIN wf /\ ~ wf[w].cancel
    /\ wf' = [wf EXCEPT ![w].cancel = TRUE]
    /\ UNCHANGED <<spec, wfSeen, runs, runSeen, made, madeSeen, queue, faults>>

Reconcile(w) ==
    \/ Project(w) \/ rejectWorkflowRun(w) \/ applyInitializeWorkflowRun(w) \/ InitializeFails(w)
    \/ applyStartRunnableTargets(w) \/ StartFails(w)
    \/ applyRequestChildCancellation(w) \/ CancellationFails(w)
Next ==
    \/ ObserveMade
    \/ \E w \in DOMAIN wf : Reconcile(w) \/ ObserveWorkflowRun(w) \/ RequestCancellation(w)
    \/ \E k \in DOMAIN runs : ObserveRun(k) \/ RunEnds(k) \/ RunCancelled(k)

Spec == Init /\ [][Next]_vars

\* The controller, its informers and the Runs that were asked to end go on;
\* neither users, nor failing reconciles, nor Runs that nobody ends have to.
Progress ==
    \/ ObserveMade
    \/ \E w \in DOMAIN wf : \/ Project(w) \/ applyInitializeWorkflowRun(w) \/ ObserveWorkflowRun(w)
                             \/ (rejectWorkflowRun(w) /\ UNCHANGED faults)
                             \/ applyStartRunnableTargets(w) \/ applyRequestChildCancellation(w)
    \/ \E k \in DOMAIN runs : ObserveRun(k) \/ RunCancelled(k)
FairSpec == Spec /\ WF_vars(Progress)
-------------------------------------------------------------------------------
StepPhases == {"Pending", "Running", "Succeeded", "Failed"}
JobPhases == {"Pending", "Waiting", "Running", "Succeeded", "Failed", "Skipped"}
Keys == UNION {res.outputs : res \in spec.results}

\* Statuses have the phases the API allows; a WorkflowRun has jobs only with a
\* snapshot, and every child has its WorkflowRun.
TypeOK ==
    /\ spec \in Specs /\ faults \in 0 .. MaxFaults /\ queue \subseteq DOMAIN wf
    /\ \A w \in DOMAIN wf :
         /\ wf[w].phase \in {"Pending", "Running"} \cup TerminalWorkflow
         /\ wf[w].jobs # NoJobs => wf[w].snapshot /\ Initial(w) \subseteq made
         /\ \A j \in DOMAIN wf[w].jobs : /\ wf[w].jobs[j].phase \in JobPhases
                                         /\ \A s \in DOMAIN wf[w].jobs[j].steps :
                                              wf[w].jobs[j].steps[s].phase \in StepPhases
    /\ \A k \in DOMAIN runs : k[1] \in DOMAIN wf /\ runs[k].outputs \subseteq Keys
    /\ DOMAIN runSeen \subseteq DOMAIN runs /\ DOMAIN wfSeen \subseteq DOMAIN wf

\* The Runs of a job, and those that come before a Run in its job.
RunsOf(w, j) == {k \in DOMAIN runs : k[1] = w /\ k[2] = j}
Before(k, x) == x[1] = k[1] /\ x[2] = k[2] /\ (x[3] < k[3] \/ (x[3] = k[3] /\ x[4] < k[4]))

\* Whatever the caches miss and whatever reconcile failed: a child Run exists
\* only when every Run before it in its job, and every Run and WorkflowRun of
\* the jobs its job needs, has succeeded.
DependenciesFirst ==
    \A k \in DOMAIN runs :
        /\ \A x \in DOMAIN runs : Before(k, x) => runs[x].phase = "Succeeded"
        /\ \A j \in JobsOf(k[1])[k[2]].needs :
             /\ \A x \in RunsOf(k[1], j) : runs[x].phase = "Succeeded"
             /\ workflowCallRunName(k[1], j) \in DOMAIN wf => wf[workflowCallRunName(k[1], j)].phase = "Succeeded"

\* A job that is reported Skipped never had, and never gets, a child.
SkippedNeverRuns ==
    \A w \in DOMAIN wf : \A j \in DOMAIN wf[w].jobs :
        wf[w].jobs[j].phase = "Skipped" => RunsOf(w, j) = {} /\ workflowCallRunName(w, j) \notin DOMAIN wf

\* A WorkflowRun that Succeeded has no child that did not; one that Failed has
\* no child that is still active.
OutcomeHonest ==
    \A w \in DOMAIN wf :
        LET children == {runs[k].phase : k \in {x \in DOMAIN runs : x[1] = w}}
                        \cup {wf[c].phase : c \in {x \in DOMAIN wf : x # Root /\ Parent(x) = w}}
        IN  /\ wf[w].phase = "Succeeded" => children \subseteq {"Succeeded"}
            /\ wf[w].phase = "Failed" => children \subseteq TerminalRun \cup TerminalWorkflow

\* A step's Run gets the environment published by every Run before it in its job.
EnvironmentComplete ==
    \A k \in DOMAIN runs :
        runs[k].env = UNION {workflowEnvironmentOutputs(runs[x].outputs) :
                               x \in {y \in DOMAIN runs : Before(k, y)}}

\* Children are started in the order of the definition, with what they need.
StartsInOrder == TypeOK /\ DependenciesFirst /\ SkippedNeverRuns /\ EnvironmentComplete

\* No patch, however stale the status it was computed from, changes a
\* WorkflowRun's outcome or takes back the end of one of its jobs.
OutcomeFinal ==
    [][\A w \in DOMAIN wf :
        /\ wf[w].phase \in TerminalWorkflow => wf'[w].phase = wf[w].phase
        /\ \A j \in DOMAIN wf[w].jobs :
             wf[w].jobs[j].phase \in {"Succeeded", "Failed", "Skipped"} =>
                 wf'[w].jobs[j].phase = wf[w].jobs[j].phase]_vars

\* A job has started, and its first steps have ended, before its start was
\* recorded: it stays Pending (or Waiting) and no step of it is runnable.
Stranded == \E w \in DOMAIN wf : \E j \in DOMAIN wf[w].jobs :
                LET job == wf[w].jobs[j]
                IN  NotStarted(job) /\ (StepsFailed(job) \/ StepsSucceeded(job))

\* When its child Runs have ended for good, the WorkflowRun ends, or a job is
\* stranded.
WorkflowsEnd ==
    <>[](\A k \in DOMAIN runs : runs[k].phase # "Active")
        => <>(wf[Root].phase \in TerminalWorkflow \/ Stranded)

\* Too strong: a replacement controller repairs the status and goes on to the end
\* after a failure between the creation of a child and the status patch
\* (docs/design/workflow-reuse.md). A job whose child ends before the
\* repair is stranded.
RestartRecovers ==
    <>[](\A k \in DOMAIN runs : runs[k].phase # "Active")
        => <>(wf[Root].phase \in TerminalWorkflow)

\* A cancelled WorkflowRun ends, and so do all its Runs and called
\* WorkflowRuns, also those it had created but not seen.
CancelSettles ==
    wf[Root].cancel ~> /\ \A w \in DOMAIN wf : wf[w].phase \in TerminalWorkflow
                       /\ \A k \in DOMAIN runs : runs[k].phase # "Active"

\* A WorkflowRun settles, by itself or when it is cancelled.
WorkflowsSettle == WorkflowsEnd /\ CancelSettles
===============================================================================
