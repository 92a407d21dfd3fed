----------------------------- MODULE WorkflowExpr -----------------------------
(***************************************************************************)
(* What a workflow definition says and when its ${{ }} expressions have a   *)
(* value (internal/controller/workflow_expr.go, workflow_environment.go,   *)
(* workflow_artifacts.go and internal/workflowtemplate).                   *)
(*                                                                         *)
(* A text is represented by the set of references it contains, a map of    *)
(* outputs by the set of its keys: whether a text can be resolved depends  *)
(* on nothing else. Steps are named by their position in the job.          *)
(***************************************************************************)
EXTENDS Naturals, Sequences, FiniteSets

\* ${{ inputs.name }}, ${{ steps.name.outputs.key }}, ${{ jobs.name.outputs.key }}
InputRef(name) == [kind |-> "inputs", name |-> name]
StepRef(name, key) == [kind |-> "steps", name |-> name, key |-> key]
JobRef(name, key) == [kind |-> "jobs", name |-> name, key |-> key]

\* A step runs a command or uses an Action; refs: the references in run, args
\* and env; with: the references in each value passed to the Action;
\* artifacts: the <<job, artifact>> pairs it takes in.
InlineStep(refs, artifacts) ==
    [uses |-> "", with |-> <<>>, refs |-> refs, artifacts |-> artifacts]
ActionStep(action, with) ==
    [uses |-> action, with |-> with, refs |-> {}, artifacts |-> {}]

\* A job has steps of its own on a Runtime, or uses a reusable Workflow.
StepsJob(needs, steps, outputs) ==
    [needs |-> needs, runsOn |-> TRUE, uses |-> "", with |-> <<>>,
     steps |-> steps, outputs |-> outputs]
CallJob(needs, workflow, with) ==
    [needs |-> needs, runsOn |-> FALSE, uses |-> workflow, with |-> with,
     steps |-> <<>>, outputs |-> <<>>]

\* inputs: [name -> [required, default : BOOLEAN]]; outputs: [name -> references].
Action(inputs, steps, outputs) ==
    [inputs |-> inputs, steps |-> steps, outputs |-> outputs]
Template(inputs, jobs, outputs) ==
    [inputs |-> inputs, jobs |-> jobs, outputs |-> outputs]

\* What an expression is resolved in: the names of the inputs and the keys of
\* the outputs of succeeded steps and jobs.
Context(inputs, steps, jobs) == [inputs |-> inputs, steps |-> steps, jobs |-> jobs]

resolveMap(m, name, key) == name \in DOMAIN m /\ key \in m[name]

resolveRef(ref, ctx) ==
    \/ ref.kind = "inputs" /\ ref.name \in ctx.inputs
    \/ ref.kind = "steps" /\ resolveMap(ctx.steps, ref.name, ref.key)
    \/ ref.kind = "jobs" /\ resolveMap(ctx.jobs, ref.name, ref.key)

\* A text resolves exactly when each of its references does.
resolveExpr(refs, ctx) == \A ref \in refs : resolveRef(ref, ctx)
resolveValues(values, ctx) == \A name \in DOMAIN values : resolveExpr(values[name], ctx)
resolveStepExecution(step, ctx) == resolveExpr(step.refs, ctx)

\* Output keys with the reserved prefix carry environment variables; one whose
\* suffix is no C identifier is malformed.
EnvKeys == {"env", "env2"}
MalformedKeys == {"env:bad"}
workflowEnvironmentOutputs(outputs) == outputs \cap EnvKeys
malformedEnvironment(outputs) == outputs \cap MalformedKeys # {}
publicWorkflowOutputs(outputs) == outputs \ (EnvKeys \cup MalformedKeys)

\* Every declared input is bound, to the value passed or to its default.
BindInputs(inputs, values) ==
    /\ values \subseteq DOMAIN inputs
    /\ \A name \in DOMAIN inputs \ values :
         inputs[name].required => inputs[name].default
resolveActionInputs(values, ctx, inputs) ==
    resolveValues(values, ctx) /\ BindInputs(inputs, DOMAIN values)

\* Materialize replaces the references to inputs in every rendered field; it
\* fails on one that is not declared.
RenderedRefs(job) ==
    UNION ({job.with[n] : n \in DOMAIN job.with} \cup {job.outputs[n] : n \in DOMAIN job.outputs}
           \cup {job.steps[s].refs : s \in DOMAIN job.steps}
           \cup UNION {{job.steps[s].with[n] : n \in DOMAIN job.steps[s].with} : s \in DOMAIN job.steps})
Materializes(template, values) ==
    /\ BindInputs(template.inputs, values)
    /\ \A j \in DOMAIN template.jobs : \A ref \in RenderedRefs(template.jobs[j]) :
         ref.kind = "inputs" => ref.name \in DOMAIN template.inputs
renderInputs(refs) == {ref \in refs : ref.kind # "inputs"}
renderMap(values) == [n \in DOMAIN values |-> renderInputs(values[n])]
Materialize(template) ==
    [j \in DOMAIN template.jobs |->
        [template.jobs[j] EXCEPT
            !.with = renderMap(@), !.outputs = renderMap(@),
            !.steps = [s \in DOMAIN @ |-> [@[s] EXCEPT !.refs = renderInputs(@),
                                                       !.with = renderMap(@)]]]]

\* A graph is a function from its nodes to the sets of their successors, of
\* which some may not be nodes.
Successors(graph, S) == S \cup UNION {graph[n] : n \in S \cap DOMAIN graph}
Reachable(graph, S) ==
    LET upto[k \in 0 .. Cardinality(DOMAIN graph) + 1] ==
            IF k = 0 THEN S ELSE Successors(graph, upto[k - 1])
    IN  upto[Cardinality(DOMAIN graph) + 1]
Cyclic(graph, n) == n \in Reachable(graph, graph[n])

\* Jobs that use a Workflow have neither a Runtime nor steps, others have both;
\* dependencies exist and form no cycle.
Needs(jobs) == [j \in DOMAIN jobs |-> jobs[j].needs]
validateWorkflowRunJobs(jobs) ==
    /\ \A j \in DOMAIN jobs : (jobs[j].uses = "") = jobs[j].runsOn
                              /\ (jobs[j].uses = "") = (jobs[j].steps # <<>>)
    /\ \A j \in DOMAIN jobs : jobs[j].needs \subseteq DOMAIN jobs
                              /\ ~ Cyclic(Needs(jobs), j)

\* An Action has steps and each of them runs a command.
validateActionSpec(action) ==
    action.steps # <<>> /\ \A a \in DOMAIN action.steps : action.steps[a].uses = ""

\* Artifacts are taken from direct dependencies.
validateStepArtifactDependencies(needs, step) == \A x \in step.artifacts : x[1] \in needs

\* The Workflows reachable from the called one exist and call each other in no
\* cycle (the order of the visits and the limit on the depth of calls are left
\* out).
calledWorkflowNames(template) ==
    {template.jobs[j].uses : j \in DOMAIN template.jobs} \ {""}
ValidateCallGraph(templates, root) ==
    LET graph == [t \in DOMAIN templates |-> calledWorkflowNames(templates[t])]
        reach == Reachable(graph, {root})
    IN  reach \subseteq DOMAIN graph /\ \A n \in reach : ~ Cyclic(graph, n)
===============================================================================
