----------------------------- MODULE MCRuntimes -----------------------------
EXTENDS Runtimes

Amounts(runs, gpu) == [x \in {"runs", "gpu"} |-> IF x = "runs" THEN runs ELSE gpu]
Container(name, mounts, ports) == [name |-> name, mounts |-> mounts, ports |-> ports, probe |-> 0]
NoStore == [driver |-> "none", name |-> "", options |-> {}]

\* A spec that leaves everything to the controller.
Modest == [replicas |-> 0, port |-> 0, image |-> "", account |-> "",
           capacity |-> Amounts(0, 0), notes |-> Amounts(0, 0),
           containers |-> <<Container("runtime", <<>>, <<>>)>>, inits |-> <<>>,
           volumes |-> <<>>, fsGroup |-> 0, store |-> NoStore, workspace |-> "none"]

\* A template that uses the names the controller reserves.
Trespass == [name |-> "artifact-store", path |-> "/mine"]
Meddling == [Modest EXCEPT !.replicas = 2, !.port = 7000, !.account = "own",
    !.capacity = Amounts(3000, 1000), !.notes = Amounts(5000, 0),
    !.containers = <<Container("runtime", <<Trespass, [name |-> "workspace", path |-> "/ws"]>>,
                               <<[name |-> "grpc", number |-> 1]>>),
                     Container("runtimed", <<Trespass>>, <<>>),
                     Container("helper", <<Trespass>>, <<>>)>>,
    !.inits = <<Container("prepare", <<Trespass>>, <<>>)>>,
    !.volumes = <<[name |-> "workspace", source |-> "hostPath"], [name |-> "info", source |-> "downwardAPI"],
                  [name |-> "artifact-store", source |-> "hostPath"]>>,
    !.store = [driver |-> "filesystem", name |-> "claim", options |-> {}], !.workspace = "claim"]

\* A volume whose defaults the comparison does not know, half a Run too much.
Uneven == [Modest EXCEPT !.capacity = Amounts(3500, 0),
    !.volumes = <<[name |-> "settings", source |-> "configMap"]>>,
    !.store = [driver |-> "s3", name |-> "bucket", options |-> {"region"}]]

Nothing == [edits |-> 0, deletions |-> 0, creations |-> 1, tampers |-> 0, rollouts |-> 0,
            errors |-> 0, restarts |-> 0]
Plain == [names |-> {"a"}, specs |-> <<Modest>>, lags |-> {}, tampered |-> {}, budget |-> Nothing]

\* An edit that moves the Runtime to its own account, and a failing request.
Edited == [Plain EXCEPT !.specs = <<Modest, Meddling>>,
    !.lags = {"Runtime", "Deployment", "ServiceAccount"},
    !.budget = [Nothing EXCEPT !.edits = 2, !.errors = 1, !.rollouts = 1]]
\* The Runtime is deleted and created again.
Recreated == [Plain EXCEPT !.specs = <<Modest, Meddling>>, !.lags = {"Runtime", "Deployment"},
    !.budget = [Nothing EXCEPT !.creations = 2, !.deletions = 1]]
\* Two Runtimes share their RBAC objects, which a user edits or deletes.
Shared == [Plain EXCEPT !.names = Names, !.lags = {"RoleBinding"},
    !.tampered = Kinds \ {"Runtime"},
    !.budget = [Nothing EXCEPT !.creations = 2, !.tampers = 2]]
\* Pods come and go, the Deployment is scaled by hand, the controller restarts.
Busy == [Plain EXCEPT !.lags = {"Runtime", "Deployment"}, !.tampered = {"Deployment"},
    !.budget = [Nothing EXCEPT !.rollouts = 2, !.tampers = 1, !.restarts = 1]]
\* A template the comparison never finds equal.
Configured == [Plain EXCEPT !.specs = <<Uneven, Modest>>, !.lags = {"Deployment"},
    !.budget = [Nothing EXCEPT !.edits = 1, !.rollouts = 1]]

MCScenarios == {Edited, Recreated, Shared, Busy, Configured}
==============================================================================
