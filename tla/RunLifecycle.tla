----------------------------- MODULE RunLifecycle -----------------------------
(***************************************************************************)
(* What the status of a Run promises, whoever writes it: the life of       *)
(* status.phase, status.assignedPod and status.attempt                     *)
(* (api/v1alpha1/run_types.go). The scheduler, the runtimed of every       *)
(* Runtime Pod and the stale reaper write it independently; the modules    *)
(* that model them are shown to implement this specification.              *)
(***************************************************************************)
EXTENDS Naturals

CONSTANTS
    Runs,
    Pods,
    NoPod,        \* an empty AssignedPod
    Outcomes,     \* the terminal phases
    MaxAttempts   \* retry budget of a Run

\* What the constants have to satisfy; the theorems take it as a hypothesis, so
\* that an implementation discharges it for its own Runs and Pods.
LifecycleAssumption ==
    /\ NoPod \notin Pods
    /\ Outcomes \cap {"Pending", "Scheduled", "Running", "Finalizing", "Deleted"} = {}
    /\ MaxAttempts \in Nat \ {0}

VARIABLE run  \* the persisted status of every Run

Live == {"Pending", "Scheduled", "Running", "Finalizing"}

Init == run = [r \in Runs |-> [phase |-> "Pending", pod |-> NoPod, attempt |-> 1]]

Set(r, phase, pod, attempt) ==
    run' = [run EXCEPT ![r] = [phase |-> phase, pod |-> pod, attempt |-> attempt]]

\* The phase changes and the Run stays where it is.
Move(r, phase) == Set(r, phase, run[r].pod, run[r].attempt)

\* The scheduler binds a Pending Run to a Pod.
Place(r) == run[r].phase = "Pending"
            /\ \E p \in Pods : Set(r, "Scheduled", p, run[r].attempt)

\* A runtimed takes the Run on.
Claim(r) == run[r].phase = "Scheduled" /\ Move(r, "Running")

\* A Session Run stops accepting operations.
Finalize(r) == run[r].phase = "Running" /\ Move(r, "Finalizing")

\* runtimed retries a failed attempt on the same Pod.
Retry(r) == /\ run[r].phase = "Running" /\ run[r].attempt < MaxAttempts
            /\ Set(r, "Running", run[r].pod, run[r].attempt + 1)

\* The reaper gives the Run of a lost Pod back to the scheduler.
Reset(r) == /\ run[r].phase \in {"Running", "Finalizing"} /\ run[r].attempt < MaxAttempts
            /\ Set(r, "Pending", NoPod, run[r].attempt + 1)

\* The Run ends, in one of the terminal phases and for good.
End(r) == run[r].phase \in Live /\ \E phase \in Outcomes : Move(r, phase)

Delete(r) == run[r].phase # "Deleted" /\ Move(r, "Deleted")

Next == \E r \in Runs : \/ Place(r) \/ Claim(r) \/ Finalize(r) \/ Retry(r)
                        \/ Reset(r) \/ End(r) \/ Delete(r)

Spec == Init /\ [][Next]_run

------------------------------------------------------------------------------
(* Properties.                                                              *)

\* The shape of the statuses: an attempt within the retry budget.
TypeOK == run \in [Runs -> [phase : Live \cup Outcomes \cup {"Deleted"},
                            pod : Pods \cup {NoPod}, attempt : 1 .. MaxAttempts]]

\* A live Run has a Pod exactly when it is past Pending: what the scheduler's
\* assigned-usage index and the runtimed of that Pod select Runs by.
PodMatchesPhase ==
    \A r \in Runs : /\ run[r].phase = "Pending" => run[r].pod = NoPod
                    /\ run[r].phase \in Live \ {"Pending"} => run[r].pod \in Pods

\* An attempt never changes Pods, attempts only grow, and an outcome is final,
\* across the writes of the scheduler, runtimed and the reaper.
AttemptStaysPut ==
    [][\A r \in Runs :
          /\ run'[r].attempt >= run[r].attempt
          /\ run[r].pod # NoPod /\ run'[r].pod # run[r].pod
                => run'[r].attempt > run[r].attempt
          /\ run[r].phase \in Outcomes => run'[r].phase \in {run[r].phase, "Deleted"}]_run
==============================================================================
