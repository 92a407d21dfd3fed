---------------------------- MODULE MCArtifacts ----------------------------
(* Scenarios for Artifacts: what the Runs leave, what fails and what goes. *)
EXTENDS Artifacts

CONSTANTS a, b, p1, p2, s1, s2

MCRuns == {a, b}
MCPods == {p1, p2}
MCStores == {s1, s2}

File(size, stored) == [valid |-> TRUE, size |-> size, stored |-> stored]
BadName == [valid |-> FALSE, size |-> 1, stored |-> 1]
Leaves(first, second) == [r \in MCRuns |-> IF r = a THEN first ELSE second]
OneRun == Leaves(<<File(1, 1), File(1, 1)>>, <<>>)

Quiet == [driver |-> [s \in MCStores |-> "filesystem"], store |-> s1, files |-> OneRun,
          consumers |-> {b}, sessions |-> {}, legacy |-> {}, deletes |-> {}, ttl |-> {}, dies |-> {},
          fails |-> {}, lateHeartbeat |-> FALSE, edits |-> FALSE, runtimeGoes |-> FALSE,
          used |-> TRUE, faults |-> 0]
S3 == [s \in MCStores |-> "s3"]
Mixed == [s \in MCStores |-> IF s = s1 THEN "s3" ELSE "filesystem"]

MCScenarios == {
    (* Store calls fail in the middle; the user deletes the Run; both drivers. *)
    [Quiet EXCEPT !.faults = 2, !.deletes = {a}],
    [Quiet EXCEPT !.faults = 2, !.deletes = {a}, !.driver = S3],
    (* A Run from an older version is guarded but has no store. *)
    [Quiet EXCEPT !.legacy = {a}, !.ttl = {a}, !.edits = TRUE],
    (* A Session, its registration released beside the maintainer; the Runtime goes. *)
    [Quiet EXCEPT !.sessions = {a}, !.deletes = {a}, !.ttl = {a}, !.faults = 1, !.runtimeGoes = TRUE],
    (* The Pod dies, or seems to; the next attempt collects again. *)
    [Quiet EXCEPT !.dies = {p1}, !.edits = TRUE, !.driver = Mixed, !.deletes = {a}],
    [Quiet EXCEPT !.lateHeartbeat = TRUE, !.faults = 1, !.driver = S3],
    (* A consumer, retried, while its producer expires. *)
    [Quiet EXCEPT !.ttl = {a}, !.fails = {b}, !.files = Leaves(<<File(1, 1), File(0, 1)>>, <<File(1, 1)>>),
                  !.faults = 1],
    (* Both are deleted together in one pass. *)
    [Quiet EXCEPT !.consumers = {}, !.deletes = {a, b}, !.files = Leaves(<<File(1, 1)>>, <<File(2, 2)>>)] }
    \cup
    (* Names and sizes at the limits, in both drivers. *)
    {[Quiet EXCEPT !.driver = d, !.files = Leaves(f, <<>>), !.used = FALSE, !.ttl = {a}] :
        d \in {S3, Quiet.driver},
        f \in { <<BadName>>, <<File(1, 1), BadName>>, <<File(3, 1)>>, <<File(1, 3)>>,
                <<File(2, 2), File(2, 2)>>, <<File(2, 2), File(1, 1), File(0, 0)>>,
                <<File(1, 1), File(0, 0), File(2, 2)>>, <<File(0, 0), File(0, 0), File(0, 0), File(0, 0)>>, <<>> }}
==============================================================================
