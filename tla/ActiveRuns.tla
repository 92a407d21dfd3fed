------------------------------ MODULE ActiveRuns ------------------------------
(***************************************************************************)
(* The claims of one runtimed (Controller.activeRuns) for Runs of every    *)
(* mode: the gate tryClaimActiveRun, the claims given up when their status *)
(* update fails, the ones released when the Run ends, and the ones a       *)
(* restarted process puts back. A Session shares its Pod with nothing.     *)
(***************************************************************************)
EXTENDS Naturals, FiniteSets

CONSTANTS
    Runs,
    Mode,      \* "Task", "Session" or "Function" of each Run
    Capacity   \* Controller.capacity

ASSUME ActiveRunsAssumption ==
    /\ IsFiniteSet(Runs)
    /\ Mode \in [Runs -> {"Task", "Session", "Function"}]
    /\ Capacity \in Nat \ {0}

VARIABLES
    phase,      \* persisted phase of each Run; Running stands for Ready and Finalizing too
    shown,      \* Runs the cache shows Running
    claims,     \* keys of activeRuns
    unsaved,    \* claims whose status update is not yet answered
    recovered   \* history: claims put back by addRecoveredRun

vars == <<phase, shown, claims, unsaved, recovered>>

Sessions == {r \in Runs : Mode[r] = "Session"}

\* (Mutant of Admits: a Session is checked against other Sessions only.)
AdmitsBesideTasks(r) ==
    /\ r \notin claims
    /\ claims \cap Sessions = {}
    /\ Cardinality(claims) < Capacity

\* (Mutant of Admits: the room is compared off by one.)
AdmitsOneMore(r) ==
    /\ r \notin claims
    /\ IF r \in Sessions THEN claims = {} ELSE claims \cap Sessions = {}
    /\ Cardinality(claims) <= Capacity

\* tryClaimActiveRun, under activeRunsMu.
Admits(r) ==
    /\ r \notin claims
    /\ IF r \in Sessions THEN claims = {} ELSE claims \cap Sessions = {}
    /\ Cardinality(claims) < Capacity

\* The scheduler assigns the Run to this Pod; its accounting knows no modes.
Assign(r) == /\ phase[r] = "Unassigned"
             /\ phase' = [phase EXCEPT ![r] = "Scheduled"]
             /\ UNCHANGED <<shown, claims, unsaved, recovered>>

\* reconcileScheduled.
ClaimScheduled(r) ==
    /\ phase[r] = "Scheduled" /\ Admits(r)
    /\ claims' = claims \cup {r} /\ unsaved' = unsaved \cup {r}
    /\ UNCHANGED <<phase, shown, recovered>>

Saved(r) ==
    /\ r \in unsaved /\ unsaved' = unsaved \ {r}
    /\ phase' = [phase EXCEPT ![r] = "Running"]
    /\ UNCHANGED <<shown, claims, recovered>>

\* unclaimActiveRun after a refused update.
Unclaim(r) ==
    /\ r \in unsaved /\ unsaved' = unsaved \ {r}
    /\ claims' = claims \ {r}
    /\ UNCHANGED <<phase, shown, recovered>>

\* The cache catches up with the Run.
Show(r) ==
    /\ shown' = IF phase[r] = "Running" THEN shown \cup {r} ELSE shown \ {r}
    /\ UNCHANGED <<phase, claims, unsaved, recovered>>

\* reconcileSessionRecovery, reconcileRunningFunction, reconcileReadyFunction:
\* a Running Run without a claim goes through the gate again.
Reclaim(r) ==
    /\ r \in shown /\ Mode[r] # "Task" /\ Admits(r)
    /\ claims' = claims \cup {r}
    /\ UNCHANGED <<phase, shown, unsaved, recovered>>

\* addRecoveredRun: a Running Run goes straight back into the map. Startup
\* recovery does not look at its mode: a Session or a Function gets here when
\* Status gives no answer for it.
AddRecovered(r) ==
    /\ r \in shown /\ r \notin claims
    /\ claims' = claims \cup {r} /\ recovered' = recovered \cup {r}
    /\ UNCHANGED <<phase, shown, unsaved>>

\* A terminal status is persisted.
End(r) ==
    /\ phase[r] = "Running" /\ phase' = [phase EXCEPT ![r] = "Ended"]
    /\ UNCHANGED <<shown, claims, unsaved, recovered>>

\* releaseLocalRunState, after the end or the deletion of the Run.
Release(r) ==
    /\ r \in claims /\ phase[r] = "Ended"
    /\ claims' = claims \ {r} /\ unsaved' = unsaved \ {r} /\ recovered' = recovered \ {r}
    /\ UNCHANGED <<phase, shown>>

\* The process restarts with an empty map.
Restart ==
    /\ claims' = {} /\ unsaved' = {} /\ recovered' = {}
    /\ shown' = {r \in Runs : phase[r] = "Running"}
    /\ UNCHANGED phase

Init ==
    /\ phase = [r \in Runs |-> "Unassigned"]
    /\ shown = {} /\ claims = {} /\ unsaved = {} /\ recovered = {}

Next ==
    \/ Restart
    \/ \E r \in Runs : \/ Assign(r) \/ ClaimScheduled(r) \/ Saved(r) \/ Unclaim(r)
                       \/ Show(r) \/ Reclaim(r) \/ AddRecovered(r) \/ End(r) \/ Release(r)

Spec == Init /\ [][Next]_vars

------------------------------------------------------------------------------
(* Properties.                                                              *)

\* The shape of the state of activeRuns and of the Runs it is about.
TypeOK ==
    /\ phase \in [Runs -> {"Unassigned", "Scheduled", "Running", "Ended"}]
    /\ shown \subseteq Runs /\ claims \subseteq Runs
    /\ recovered \subseteq claims /\ unsaved \subseteq claims \ recovered

\* A Session that tryClaimActiveRun let in shares the Pod with no other Run it
\* let in: only what startup recovery put back can stand beside it.
GateKeepsSessionsAlone ==
    \A s \in Sessions : s \in claims \ recovered => claims \ recovered = {s}

\* The claims that came through the gate never exceed the workers, whatever
\* recovery has added.
GateKeepsCapacity == Cardinality(claims \ recovered) <= Capacity
==============================================================================
