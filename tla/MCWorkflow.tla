------------------------------ MODULE MCWorkflow ------------------------------
EXTENDS Workflow

Needed == [required |-> TRUE, default |-> FALSE]

\* An Action with one input and two steps, the second of which uses an output
\* of the first.
Build == Action([in |-> Needed],
                <<InlineStep({InputRef("in")}, {}), InlineStep({StepRef(1, "out")}, {})>>,
                [out |-> {StepRef(2, "out")}])

\* A reusable Workflow with one job whose output it passes on.
Deploy == Template([target |-> Needed],
                   [push |-> StepsJob({}, <<InlineStep({InputRef("target")}, {})>>, [out |-> {StepRef(1, "out")}])],
                   [out |-> {JobRef("push", "out")}])

Ended(phase, outputs, artifacts) == [phase |-> phase, outputs |-> outputs, artifacts |-> artifacts]
Full == Ended("Succeeded", {"out", "env"}, {"art"})
Empty == Ended("Succeeded", {}, {})
Malformed == Ended("Succeeded", {"out", "env:bad"}, {"art"})
Broken == Ended("Failed", {"out"}, {})

\* A step and an Action, a call that depends on them, a job that depends on the
\* call.
Pipeline ==
    [jobs |-> [build |-> StepsJob({}, <<InlineStep({}, {}),
                                        ActionStep("build", [in |-> {StepRef(1, "out")}])>>,
                                  [out |-> {StepRef(2, "out")}]),
               deploy |-> CallJob({"build"}, "deploy", [target |-> {JobRef("build", "out")}]),
               verify |-> StepsJob({"deploy"}, <<InlineStep({JobRef("deploy", "out")}, {})>>, <<>>)],
     templates |-> [deploy |-> Deploy], actions |-> [build |-> Build],
     results |-> {Full, Broken}, cancellable |-> {Root}]

\* Two independent jobs, one that needs both and an artifact of the first, and
\* one that needs that one.
Fork ==
    [jobs |-> [a |-> StepsJob({}, <<InlineStep({}, {})>>, <<>>),
               b |-> StepsJob({}, <<InlineStep({}, {})>>, <<>>),
               c |-> StepsJob({"a", "b"}, <<InlineStep({}, {<<"a", "art">>})>>, <<>>),
               d |-> StepsJob({"c"}, <<InlineStep({}, {})>>, <<>>)],
     templates |-> <<>>, actions |-> <<>>,
     results |-> {Full, Malformed}, cancellable |-> {}]

\* Two parallel calls, one of a Workflow that does not exist.
Calls == [jobs |-> [a |-> CallJob({}, "deploy", [target |-> {}]), b |-> CallJob({}, "none", <<>>)],
          templates |-> [deploy |-> Deploy], actions |-> <<>>,
          results |-> {Full, Empty}, cancellable |-> {Root, <<"a">>}]

\* Definitions the controller rejects: a cycle, a missing Action.
Loop == [jobs |-> [a |-> StepsJob({"b"}, <<InlineStep({}, {})>>, <<>>),
                   b |-> StepsJob({"a"}, <<InlineStep({}, {})>>, <<>>)],
         templates |-> <<>>, actions |-> <<>>, results |-> {Full}, cancellable |-> {Root}]
Missing == [jobs |-> [a |-> StepsJob({}, <<ActionStep("none", <<>>)>>, <<>>)],
            templates |-> <<>>, actions |-> <<>>, results |-> {Full}, cancellable |-> {Root}]

AllSpecs == {Pipeline, Fork, Loop, Missing, Calls}
===============================================================================
