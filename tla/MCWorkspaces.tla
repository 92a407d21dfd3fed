---------------------------- MODULE MCWorkspaces ----------------------------
(* Scenarios for Workspaces: what is deleted, what dies and which cache lags. *)
EXTENDS Workspaces

CONSTANTS p1, p2, r1, r2

MCPods == {p1, p2}
MCRuns == {r1, r2}

Quiet == [lag |-> {}, runLag |-> {}, ttl |-> FALSE, delete |-> FALSE, gens |-> 1, dies |-> {}, unready |-> FALSE,
          runtimeGoes |-> FALSE, start |-> "ready", pods |-> {p1}, runs |-> MCRuns]

MCScenarios == {
    (* The TTL of a workspace that is used again; late news of the Run. *)
    [Quiet EXCEPT !.ttl = TRUE, !.runLag = {"controller"}, !.runs = {r1}],
    (* A user deletes and recreates it; the scheduler places from an old copy. *)
    [Quiet EXCEPT !.delete = TRUE, !.gens = 2, !.lag = {"scheduler"}, !.runs = {r1}],
    (* runtimed cleans up on an old copy of the object or of its Runs. *)
    [Quiet EXCEPT !.delete = TRUE, !.gens = 2, !.lag = {"runtimed"}, !.runs = {r1}],
    [Quiet EXCEPT !.delete = TRUE, !.runLag = {"runtimed"}],
    (* The controller decides on an old copy while a Pod dies. *)
    [Quiet EXCEPT !.ttl = TRUE, !.delete = TRUE, !.gens = 2, !.lag = {"controller"}, !.runs = {r1}],
    [Quiet EXCEPT !.delete = TRUE, !.dies = {p1}, !.pods = MCPods, !.lag = {"controller"}, !.runs = {r1}],
    (* Pods come up late, flap, die and are replaced. *)
    [Quiet EXCEPT !.start = "unready", !.dies = {p1}, !.pods = MCPods, !.unready = TRUE, !.delete = TRUE,
                  !.runs = {r1}],
    (* The Runtime goes, and its Pods with it. *)
    [Quiet EXCEPT !.runtimeGoes = TRUE, !.ttl = TRUE, !.delete = TRUE, !.dies = {p1}, !.runs = {r1}] }
==============================================================================
