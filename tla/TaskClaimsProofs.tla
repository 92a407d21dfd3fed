--------------------------- MODULE TaskClaimsProofs ---------------------------
(***************************************************************************)
(* Theorems about the claims of Task Runs and their executions: what runs  *)
(* on a Pod, which Run it belongs to and who still counts it.              *)
(***************************************************************************)
EXTENDS TaskExecutionProofs

\* Where a leaf names no prover it is Zenon's.
USE Zenon

(* What a scenario rules out.                                               *)

NoSilence == "silence" \notin env.kinds
NoLoss == "loss" \notin env.kinds

\* A Run has a Pod from its assignment to its end; only users withdraw Runs,
\* only timed Runs expire, and Pods fall silent or disappear only where they may.
Steady ==
    /\ \A r \in Runs : /\ store[r].phase = "Pending" => store[r].pod = NoPod
                       /\ store[r].phase \in {"Scheduled", "Running"} => store[r].pod \in Pods
                       /\ store[r].cancel \/ store[r].phase = "Deleted" => r \in env.withdrawn
    /\ \A p \in Pods : expired[p] \subseteq env.timed
    /\ NoSilence => \A p \in Pods : pods[p] # "silent"
    /\ NoLoss => \A r \in Runs : store[r].pod \in Pods => pods[store[r].pod] # "gone"

\* How Pods and deadlines change.
LEMMA PodsStep ==
    ASSUME Sound, [Next]_vars
    PROVE  /\ UNCHANGED env
           /\ \A p \in Pods :
                /\ pods'[p] = "silent" => pods[p] = "silent" \/ ~NoSilence
                /\ pods'[p] = "gone" => pods[p] = "gone" \/ ~NoLoss
                /\ pods[p] = "gone" => pods'[p] = "gone"
                /\ expired'[p] \subseteq expired[p] \cup env.timed
<1> DEFINE P == \A p \in Pods :
                /\ pods'[p] = "silent" => pods[p] = "silent" \/ ~NoSilence
                /\ pods'[p] = "gone" => pods[p] = "gone" \/ ~NoLoss
                /\ pods[p] = "gone" => pods'[p] = "gone"
           Q == \A p \in Pods : expired'[p] \subseteq expired[p] \cup env.timed
<1>a. PodsOK /\ ExpiredOK
  BY DEF Sound
<1>b. ASSUME UNCHANGED <<pods, expired>> PROVE P /\ Q
  BY <1>b
<1>1. ASSUME NEW p \in Pods, Silence(p) \/ Heartbeat(p) PROVE P /\ Q
  BY <1>1, <1>a DEF Silence, Heartbeat, Fault, NoSilence, PodsOK, local
<1>2. ASSUME NEW p \in Pods, Lose(p) PROVE P /\ Q
  BY <1>2, <1>a DEF Lose, Fault, NoLoss, PodsOK, ExpiredOK
<1>3. ASSUME NEW p \in Pods, NEW r \in Runs, Reconcile(p, r) \/ Relist(p, r) \/ Expire(p, r)
      PROVE  P /\ Q
  <2>1. UNCHANGED pods
    BY <1>3 DEF Reconcile, Ignore, CleanupDeleted, ReconcileScheduled, ReconcileRecovered,
                StatusFails, ReconcileCancel, ReconcileBackoff, ReconcileTimeout, StartExecution,
                ReconcileMissing, ReconcileActive, Take, Relist, Expire
  <2>2. \/ UNCHANGED expired \/ expired' = [expired EXCEPT ![p] = @ \ {r}]
        \/ r \in env.timed /\ expired' = [expired EXCEPT ![p] = @ \cup {r}]
    BY <1>3 DEF Reconcile, Ignore, CleanupDeleted, ReconcileScheduled, ReconcileRecovered,
                StatusFails, ReconcileCancel, ReconcileBackoff, ReconcileTimeout, StartExecution,
                ReconcileMissing, ReconcileActive, Relist, Expire
  <2> QED
    BY <1>a, <2>1, <2>2 DEF ExpiredOK
<1>4. ASSUME NEW p \in Pods, Deliver(p) \/ Restart(p) \/ RecoverList(p) \/ RuntimeServer(p)
                            \/ \E t \in recovery[p].todo : RecoverRun(p, t)
      PROVE  P /\ Q
  BY <1>4, <1>b DEF Deliver, Restart, RecoverList, Recovering, RuntimeServer, Wipe,
                    ExecutionEnds, RecoverRun
<1>8. ASSUME NEW p \in Pods, NEW w \in Workers,
             Commit(p, w) \/ Refused(p, w) \/ Forget(p, w) \/ Release(p, w)
      PROVE  P /\ Q
  BY <1>8, <1>b DEF Commit, Refused, Forget, Release
<1>9. ASSUME NEW p \in Pods, NEW c \in calls[p],
             Execute(p, c) \/ ExecuteFails(p, c) \/ Started(p, c)
      PROVE  P /\ Q
  BY <1>9, <1>b DEF Execute, ExecuteFails, Started, Calling
<1>5. ASSUME NEW r \in Runs,
             \/ CancelPending(r) \/ Reap(r) \/ RequestTermination(r) \/ Delete(r)
             \/ \E p \in Pods : Bind(r, p)
      PROVE  P /\ Q
  BY <1>5, <1>b DEF CancelPending, Reap, RequestTermination, Delete, Bind, Update, local
<1>6. ASSUME UNCHANGED vars PROVE P /\ Q
  BY <1>6, <1>b DEF vars, state
<1> HIDE DEF P, Q
<1>7. P /\ Q
  <2>1. ASSUME ControlPlane PROVE P /\ Q
    BY <1>1, <1>2, <1>5, <2>1 DEF ControlPlane
  <2>2. ASSUME NEW p \in Pods, Runtimed(p) PROVE P /\ Q
    BY <1>3, <1>4, <1>8, <1>9, <2>2 DEF Runtimed
  <2>3. ASSUME NEW p \in Pods, RuntimeServer(p) PROVE P /\ Q
    BY <1>4, <2>3
  <2> QED
    BY <1>6, <2>1, <2>2, <2>3 DEF Next
<1>10. UNCHANGED env
  BY DEF Next, vars
<1> QED
  BY <1>7, <1>10 DEF P, Q

\* Every step keeps assignments, deadlines and withdrawals steady.
LEMMA SteadyStep ==
    ASSUME Sound, Steady, [Next]_vars
    PROVE  Steady'
<1>a. /\ UNCHANGED env
      /\ \A p \in Pods : /\ pods'[p] = "silent" => pods[p] = "silent" \/ ~NoSilence
                         /\ pods'[p] = "gone" => pods[p] = "gone" \/ ~NoLoss
                         /\ expired'[p] \subseteq expired[p] \cup env.timed
  BY PodsStep
<1>b. StoreOK /\ NoPod \notin Pods /\ NoSilence' = NoSilence /\ NoLoss' = NoLoss
  BY <1>a, EnvFacts DEF Sound, NoSilence, NoLoss
<1>1. ASSUME NEW r \in Runs, NEW o \in Objects, Changes(r, store[r], o)
      PROVE  /\ o.phase = "Pending" => o.pod = NoPod
             /\ o.phase \in {"Scheduled", "Running"} => o.pod \in Pods
             /\ o.cancel \/ o.phase = "Deleted" => r \in env.withdrawn
             /\ o.pod \in Pods => o.pod = store[r].pod \/ pods[o.pod] = "healthy"
  <2> DEFINE old == store[r]
  <2>1. /\ old \in Objects
        /\ old.phase = "Pending" => old.pod = NoPod
        /\ old.phase \in {"Scheduled", "Running"} => old.pod \in Pods
        /\ old.cancel \/ old.phase = "Deleted" => r \in env.withdrawn
    BY <1>b DEF Steady, StoreOK
  <2> HIDE DEF old
  <2>2. CASE Placed(old, o)
    BY <2>1, <2>2 DEF Placed, Objects
  <2>3. CASE Reported(old, o)
    <3>1. PICK then \in Thens : Advances(old, o, then)
      BY <2>3 DEF Reported
    <3>2. o.pod = old.pod /\ o.cancel = old.cancel
      BY <2>1, <3>1, ZenonT(30) DEF Advances, Objects, Accepted, Retried, Ended
    <3>3. old.phase \in {"Scheduled", "Running"} /\ o.phase \in {"Running"} \cup Outcomes
      BY <2>1, <3>1 DEF Advances, Objects, Accepted, Retried, Ended
    <3>4. o.phase # "Pending" /\ o.phase # "Scheduled" /\ o.phase # "Deleted"
      BY <3>3 DEF Outcomes
    <3> QED
      BY <2>1, <3>2, <3>3, <3>4 DEF old
  <2>4. CASE Dropped(old, o) \/ Abandoned(old, o)
    <3>1. o.pod = old.pod /\ o.cancel = old.cancel /\ o.phase \in {"Cancelled", "Failed"}
      BY <2>1, <2>4 DEF Dropped, Abandoned, Objects, Ended
    <3> QED
      BY <2>1, <3>1 DEF old
  <2>5. CASE Returned(old, o)
    BY <1>b, <2>1, <2>5 DEF Returned, Retried, Objects
  <2>6. CASE Requested(r, old, o) \/ Removed(r, old, o)
    <3>1. /\ r \in env.withdrawn /\ o.pod = old.pod
          /\ o.phase = old.phase \/ o.phase = "Deleted"
      BY <2>1, <2>6 DEF Requested, Removed, Objects
    <3> QED
      BY <2>1, <3>1 DEF old
  <2> QED
    BY <1>1, <2>2, <2>3, <2>4, <2>5, <2>6 DEF Changes, Steered, old
<1>2. ASSUME NEW r \in Runs
      PROVE  /\ store'[r].phase = "Pending" => store'[r].pod = NoPod
             /\ store'[r].phase \in {"Scheduled", "Running"} => store'[r].pod \in Pods
             /\ store'[r].cancel \/ store'[r].phase = "Deleted" => r \in env.withdrawn
             /\ store'[r].pod \in Pods =>
                   store'[r].pod = store[r].pod \/ pods[store'[r].pod] = "healthy"
  <2>1. CASE UNCHANGED store
    BY <2>1 DEF Steady
  <2>2. ASSUME NEW q \in Runs, NEW o \in Objects, Put(q, o), Changes(q, store[q], o)
        PROVE  store'[r] = store[r] \/ (r = q /\ store'[r] = o)
    BY <1>b, <2>2 DEF Put, StoreOK
  <2>3. CASE store'[r] = store[r]
    BY <2>3 DEF Steady
  <2> QED
    BY <1>1, <2>1, <2>2, <2>3, StoreStep
<1>3. NoLoss => \A r \in Runs : store'[r].pod \in Pods => pods'[store'[r].pod] # "gone"
  BY <1>a, <1>2 DEF Steady
<1>4. \A p \in Pods : expired'[p] \subseteq env.timed
  BY <1>a DEF Steady
<1> QED
  BY <1>a, <1>b, <1>2, <1>3, <1>4 DEF Steady

------------------------------------------------------------------------------
(* No live execution is replaced.                                           *)

\* A claim that has not been persisted.
ClaimStep(k, r) == k.step = "write" /\ k.then = "claimed" /\ k.run = r
Claiming(p, r) == ClaimStep(work[p]["main"], r)

\* The second half of the cleanup of a Run.
Ending(k) == k.step = "release" \/ (k.step = "forget" /\ k.then = "end")
Ends == \A p \in Pods, w \in Workers : Ending(work[p][w]) => Finished(store[work[p][w].run])

\* A Run that has ended stays ended.
LEMMA FinishedKept ==
    ASSUME Sound, [Next]_vars, NEW r \in Runs, Finished(store[r])
    PROVE  Finished(store'[r])
BY StepsAdvance DEF Precedes

\* Only a Run that has ended or is deleted is cleaned up.
LEMMA EndsStep ==
    ASSUME Sound, Ordered, Ends, [Next]_vars
    PROVE  Ends'
<1> SUFFICES ASSUME NEW p \in Pods, NEW w \in Workers, NEW k, k = work'[p][w], Ending(k)
             PROVE  Finished(store'[k.run])
  BY DEF Ends, Ending, Finished
<1>a. ASSUME k = work[p][w] PROVE Finished(store'[k.run])
  <2>1. k \in Steps /\ Finished(store[k.run])
    BY <1>a, SMT DEF Ends, Sound, WorkOK
  <2>2. k.run \in Runs
    BY <2>1, SMT DEF Ending, Steps, WriteSteps, ForgetSteps, ReleaseSteps, Idle
  <2> QED
    BY <2>1, <2>2, FinishedKept
<1>b. ~Ending(Idle) /\ k.step # "write" /\ Workers = {"main", "recovery"}
  BY DEF Ending, Idle, Workers
<1>1. ASSUME NEW r \in Runs, Reconcile(p, r) PROVE Finished(store'[k.run])
  <2>1. Reconciled(p, r) /\ UNCHANGED store
    BY <1>1, ReconcileEffects
  <2>2. CASE k = work[p][w]
    BY <1>a, <2>2
  <2>3. CASE k # work[p][w]
    <3>1. k = ToForget(r, "end") /\ cache[p][r].phase = "Deleted"
      BY <1>b, <2>1, <2>3 DEF Reconciled, RecoveredAt, Deciding, Becoming
    <3>2. k.run = r
      BY <3>1, SMT DEF ToForget
    <3> QED
      BY <2>1, <3>1, <3>2 DEF Ordered, CacheSeen, Seen, Precedes, Finished
  <2> QED
    BY <2>2, <2>3
<1>2. ASSUME NEW v \in Workers, NEW j, j = work[p][v], Commit(p, v) PROVE Finished(store'[k.run])
  <2>1. /\ Fits(v, j) /\ j \in WriteSteps /\ store'[j.run] = j.to
        /\ \/ Deciding(p, v, j.run, j.to, {"retry", "end"}, "source") \/ Becoming(p, v, Idle)
           \/ j.then \in {"retry", "end"} /\ Becoming(p, v, ToForget(j.run, j.then))
    <3>1. Committed(p, v, j, j.run)
      BY <1>2, CommitEffect
    <3> QED
      BY <3>1 DEF Committed
  <2>2. CASE k = work[p][w]
    BY <1>a, <2>2
  <2>3. CASE k # work[p][w]
    <3>1. k = ToForget(j.run, j.then)
      BY <1>b, <2>1, <2>3 DEF Deciding, Becoming
    <3>2. k.run = j.run /\ j.then = "end"
      BY <3>1, SMT DEF ToForget, Ending
    <3>3. j.to.phase \in Outcomes
      <4>1. j.from \in Objects /\ Advances(j.from, j.to, "end")
        BY <2>1, <3>2 DEF Fits, WriteSteps
      <4> QED
        BY <4>1 DEF Advances, Ended, Accepted, Objects
    <3> QED
      BY <2>1, <3>2, <3>3 DEF Finished
  <2> QED
    BY <2>2, <2>3
<1>3. ASSUME NEW v \in Workers, NEW j, j = work[p][v], Refused(p, v) \/ Forget(p, v) \/ Release(p, v)
      PROVE  Finished(store'[k.run])
  <2>1. \/ Becoming(p, v, Idle)
        \/ /\ j.then = "end" /\ j.step = "forget" /\ j.run \in Runs
           /\ Becoming(p, v, [step |-> "release", run |-> j.run])
    BY <1>3, RefusedEffect, ForgetEffect, ReleaseEffect, SMT DEF ForgetSteps
  <2>2. CASE k = work[p][w]
    BY <1>a, <2>2
  <2>3. CASE k # work[p][w]
    <3>1. k.run = j.run /\ j.then = "end" /\ j.step = "forget" /\ j.run \in Runs
      BY <1>b, <2>1, <2>3, SMT DEF Becoming
    <3>2. Finished(store[j.run])
      BY <1>3, <3>1 DEF Ends, Ending
    <3> QED
      BY <3>1, <3>2, FinishedKept
  <2> QED
    BY <2>2, <2>3
<1>4. ASSUME NEW t \in recovery[p].todo, RecoverRun(p, t) PROVE k = work[p][w]
  <2>1. work' = work \/ RecoveredAt(p, "recovery", t.run, t.obj)
    BY <1>4, RecoverEffect
  <2> QED
    BY <1>b, <2>1 DEF RecoveredAt, Deciding
<1>5. ASSUME Restart(p) \/ Lose(p) PROVE FALSE
  BY <1>b, <1>5, SMTT(30) DEF Restart, Lose, Sound, WorkOK
<1>6. ASSUME NEW c \in calls[p], Execute(p, c) \/ ExecuteFails(p, c) \/ Started(p, c)
      PROVE  k = work[p][w]
  BY <1>6, CallEffects
<1>7. ASSUME RuntimeServer(p) PROVE k = work[p][w]
  BY <1>7 DEF RuntimeServer, Wipe, ExecutionEnds
<1>8. ASSUME Deliver(p) \/ RecoverList(p) \/ \E r \in Runs : Relist(p, r) \/ Expire(p, r)
      PROVE  k = work[p][w]
  BY <1>8, Idly
<1>9. ASSUME AtPod(p)' = AtPod(p) PROVE k = work[p][w]
  BY <1>9 DEF AtPod
<1>10. ASSUME Runtimed(p) PROVE Finished(store'[k.run])
  BY <1>a, <1>1, <1>2, <1>3, <1>4, <1>5, <1>6, <1>8, <1>10 DEF Runtimed
<1> QED
  BY <1>a, <1>5, <1>7, <1>9, <1>10, Remote

\* A call that has not reached the server has no execution yet. The goroutine of a
\* claim belongs to a persisted claim, and while it calls, nothing was seen of an
\* execution or of a failure. A goroutine whose claim is gone outlived its Run.
CallOK(p, c) ==
    LET a == active[p][c.run]
    IN /\ c.stage = "calling" => server[p][c.run] = NoExec
       /\ c.mine => a.claimed /\ ~Claiming(p, c.run)
       /\ c.mine /\ c.stage = "calling" => ~a.started /\ ~a.failure
       /\ ~c.mine => /\ Finished(store[c.run])
                     /\ a.claimed => a.started \/ Claiming(p, c.run)

CallsAt(p, r) == /\ \A c, d \in calls[p] : c.run = r /\ d.run = r => c = d
                 /\ \A c \in calls[p] : c.run = r => CallOK(p, c)
OneCall == \A p \in Pods, r \in Runs : CallsAt(p, r)

\* What a step about Run r does to the work in hand for another Run: nothing.
LEMMA OtherWork ==
    ASSUME Sound, NEW p \in Pods, NEW r \in Runs, NEW s \in Runs, s # r,
           \/ Reconcile(p, r)
           \/ \E w \in Workers : /\ work[p][w].run = r
                                 /\ Commit(p, w) \/ Refused(p, w) \/ Forget(p, w) \/ Release(p, w)
           \/ \E c \in calls[p] : c.run = r /\ (Execute(p, c) \/ ExecuteFails(p, c) \/ Started(p, c))
           \/ \E t \in recovery[p].todo : t.run = r /\ RecoverRun(p, t)
           \/ ExecutionEnds(p, r),
           NEW w \in Workers, NEW k, k.step # "idle", k.run = s
    PROVE  work'[p][w] = k <=> work[p][w] = k
<1>a. Idle.step = "idle" /\ Workers = {"main", "recovery"}
  BY DEF Idle, Workers
<1>b. \A then : ToForget(r, then).run = r
  BY DEF ToForget
<1>1. ASSUME Reconcile(p, r) PROVE work'[p][w] = k <=> work[p][w] = k
  <2>1. Reconciled(p, r) /\ work[p]["main"] = Idle
    BY <1>1, ReconcileEffects
  <2>2. \/ work' = work
        \/ work'[p]["main"].run = r /\ work'[p]["recovery"] = work[p]["recovery"]
    BY <1>a, <1>b, <2>1 DEF Reconciled, RecoveredAt, Deciding, Becoming
  <2> QED
    BY <1>a, <2>1, <2>2
<1>2. ASSUME NEW v \in Workers, work[p][v].run = r,
             Commit(p, v) \/ Refused(p, v) \/ Forget(p, v) \/ Release(p, v)
      PROVE  work'[p][w] = k <=> work[p][w] = k
  <2>1. /\ work'[p][v] = Idle \/ work'[p][v].run = r
        /\ \A x \in Workers \ {v} : work'[p][x] = work[p][x]
    <3>1. ASSUME Commit(p, v)
          PROVE  /\ work'[p][v] = Idle \/ work'[p][v].run = r
                 /\ \A x \in Workers \ {v} : work'[p][x] = work[p][x]
      <4>1. Committed(p, v, work[p][v], r)
        BY <1>2, <3>1, CommitEffect
      <4> QED
        BY <1>b, <4>1 DEF Committed, Deciding, Becoming
    <3>2. ASSUME Refused(p, v) \/ Release(p, v)
          PROVE  /\ work'[p][v] = Idle \/ work'[p][v].run = r
                 /\ \A x \in Workers \ {v} : work'[p][x] = work[p][x]
      BY <1>2, <3>2, RefusedEffect, ReleaseEffect, SMT DEF Becoming
    <3>3. ASSUME Forget(p, v)
          PROVE  /\ work'[p][v] = Idle \/ work'[p][v].run = r
                 /\ \A x \in Workers \ {v} : work'[p][x] = work[p][x]
      <4>1. Becoming(p, v, Idle) \/ Becoming(p, v, [step |-> "release", run |-> r])
        BY <1>2, <3>3, ForgetEffect
      <4> QED
        BY <4>1, SMT DEF Becoming
    <3> QED
      BY <1>2, <3>1, <3>2, <3>3
  <2> QED
    BY <1>a, <1>2, <2>1
<1>3. ASSUME NEW t \in recovery[p].todo, t.run = r, RecoverRun(p, t)
      PROVE  work'[p][w] = k <=> work[p][w] = k
  <2>1. work[p]["recovery"] = Idle /\ (work' = work \/ RecoveredAt(p, "recovery", r, t.obj))
    BY <1>3, RecoverEffect
  <2>2. \/ work' = work
        \/ work'[p]["recovery"].run = r /\ work'[p]["main"] = work[p]["main"]
    BY <1>a, <2>1 DEF RecoveredAt, Deciding
  <2> QED
    BY <1>a, <2>1, <2>2
<1>4. ASSUME NEW c \in calls[p], Execute(p, c) \/ ExecuteFails(p, c) \/ Started(p, c)
      PROVE  work' = work
  BY <1>4, CallEffects
<1>5. ASSUME ExecutionEnds(p, r) PROVE work' = work
  BY <1>5 DEF ExecutionEnds
<1> QED
  BY <1>1, <1>2, <1>3, <1>4, <1>5

\* The calls of a Run stay in order where nothing happens to it.
LEMMA CallFrame ==
    ASSUME Sound, [Next]_vars, NEW p \in Pods, NEW r \in Runs, CallsAt(p, r), Same(p, r),
           ClaimStep(work'[p]["main"], r) <=> ClaimStep(work[p]["main"], r)
    PROVE  CallsAt(p, r)'
<1>1. Finished(store[r]) => Finished(store'[r])
  BY FinishedKept
<1> QED
  BY <1>1 DEF CallsAt, CallOK, Same, Finished, Claiming

\* A reconcile keeps the calls of its Run in order.
LEMMA ReconcileCalls ==
    ASSUME Sound, [Next]_vars, NEW p \in Pods, NEW r \in Runs, CallsAt(p, r), Reconcile(p, r)
    PROVE  CallsAt(p, r)'
<1> DEFINE a == active[p][r]
           b == active'[p][r]
           o == cache[p][r]
           k == work'[p]["main"]
<1>a. /\ Reconciled(p, r) /\ UNCHANGED store /\ work[p]["main"] = Idle
  BY ReconcileEffects
<1>b. ~ClaimStep(work[p]["main"], r) /\ a \in Claims
  BY <1>a, SMT DEF ClaimStep, Idle, Sound, ActiveOK
<1>c. a.claimed => a \in [claimed : {TRUE}, started : BOOLEAN, failure : BOOLEAN]
  BY <1>b, ClaimRecord
<1>d. work' = work => ~ClaimStep(k, r)
  BY <1>b
<1>e. ASSUME NEW thens, NEW why, Deciding(p, "main", r, o, thens, why)
      PROVE  ClaimStep(k, r) <=> k.then = "claimed"
  BY <1>e DEF ClaimStep, Deciding
<1>f. ASSUME calls'[p] = calls[p],
             \A c \in calls[p] : c.run = r /\ CallOK(p, c) => CallOK(p, c)'
      PROVE  CallsAt(p, r)'
  <2>1. \A c \in calls'[p] : c.run = r => CallOK(p, c)'
    BY <1>f DEF CallsAt
  <2>2. \A c, d \in calls'[p] : c.run = r /\ d.run = r => c = d
    BY <1>f DEF CallsAt
  <2> QED
    BY <2>1, <2>2 DEF CallsAt
<1>1. ASSUME calls'[p] = calls[p], server'[p][r] = server[p][r] \/ server'[p][r] = NoExec,
             ~ClaimStep(k, r),
             b = a \/ (a.claimed /\ b = [a EXCEPT !.failure = FALSE])
      PROVE  CallsAt(p, r)'
  <2>1. b.claimed = a.claimed /\ (a.claimed => b.started = a.started /\ (b.failure => a.failure))
    BY <1>1, <1>c
  <2>2. ASSUME NEW c \in calls[p], c.run = r, CallOK(p, c) PROVE CallOK(p, c)'
    BY <1>1, <1>a, <1>b, <2>1, <2>2 DEF CallOK, Finished, Claiming
  <2> QED
    BY <1>1, <1>f, <2>2
<1>2. ASSUME calls'[p] = calls[p], server'[p][r] = server[p][r], ~a.claimed,
             ClaimStep(k, r) \/ b = Claimed(TRUE)
      PROVE  CallsAt(p, r)'
  <2>1. Claimed(TRUE).started
    BY DEF Claimed
  <2>2. ASSUME NEW c \in calls[p], c.run = r, CallOK(p, c) PROVE CallOK(p, c)'
    BY <1>2, <1>a, <1>b, <2>1, <2>2 DEF CallOK, Finished, Claiming
  <2> QED
    BY <1>2, <1>f, <2>2
<1>3. ASSUME calls'[p] = calls[p], server'[p][r] = server[p][r], server[p][r].state = "running",
             a.claimed, b = [a EXCEPT !.started = TRUE], ~ClaimStep(k, r)
      PROVE  CallsAt(p, r)'
  <2>1. b.claimed /\ b.started /\ server[p][r] # NoExec
    BY <1>3, <1>c, SMT DEF NoExec
  <2>2. ASSUME NEW c \in calls[p], c.run = r, CallOK(p, c) PROVE CallOK(p, c)'
    BY <1>3, <1>a, <1>b, <2>1, <2>2 DEF CallOK, Finished, Claiming
  <2> QED
    BY <1>3, <1>f, <2>2
<1>4. ASSUME a.claimed, ~a.started, ~a.failure, server[p][r] = NoExec, ~InFlight(p, r), b = a,
             server'[p][r] = server[p][r], work' = work,
             calls'[p] = calls[p] \cup {[run |-> r, stage |-> "calling", mine |-> TRUE]}
      PROVE  CallsAt(p, r)'
  <2> DEFINE d == [run |-> r, stage |-> "calling", mine |-> TRUE]
  <2>1. \A c \in calls[p] : c.run # r
    BY <1>4, <1>b DEF InFlight, CallsAt, CallOK, Claiming
  <2>2. d.run = r /\ d.stage = "calling" /\ d.mine
    OBVIOUS
  <2>3. calls'[p] = calls[p] \cup {d}
    BY <1>4
  <2> HIDE DEF d
  <2>4. CallOK(p, d)'
    BY <1>4, <1>d, <2>2 DEF CallOK, Claiming
  <2> QED
    BY <2>1, <2>3, <2>4 DEF CallsAt
<1>5. RecoveredAt(p, "main", r, o) =>
        b = Claimed(TRUE) \/ (b = a /\ Deciding(p, "main", r, o, {"retry", "end"}, "lost"))
  BY DEF RecoveredAt
<1> HIDE DEF a, b, o, k
<1>6. Becoming(p, "main", ToForget(r, "end")) => ~ClaimStep(k, r)
  BY SMT DEF Becoming, ToForget, ClaimStep, k
<1>7. \A thens, why : Deciding(p, "main", r, o, thens, why) => k.then \in thens
  BY DEF Deciding, k
<1> QED
  BY <1>a, <1>d, <1>e, <1>1, <1>2, <1>3, <1>4, <1>5, <1>6, <1>7
  DEF Reconciled, Still, Killed, a, b, o

\* Recording, cleaning up and releasing keep the calls of the Run in order.
LEMMA WorkerCalls ==
    ASSUME Sound, Ends, [Next]_vars, NEW p \in Pods, NEW w \in Workers, NEW r \in Runs,
           r = work[p][w].run, CallsAt(p, r),
           Commit(p, w) \/ Refused(p, w) \/ Forget(p, w) \/ Release(p, w)
    PROVE  CallsAt(p, r)'
<1> DEFINE a == active[p][r]
           b == active'[p][r]
           k == work[p][w]
           m == work'[p]["main"]
<1>a. a \in Claims /\ (a.claimed => a \in [claimed : {TRUE}, started : BOOLEAN, failure : BOOLEAN])
  BY ClaimRecord DEF Sound, ActiveOK
<1>b. Finished(store[r]) => Finished(store'[r])
  BY FinishedKept
<1>c. ~NoClaim.claimed /\ Workers = {"main", "recovery"}
  BY DEF NoClaim, Workers
<1>d. ~ClaimStep(Idle, r)
  BY DEF ClaimStep, Idle
<1>1. CASE Commit(p, w)
  <2>1. Committed(p, w, k, r)
    BY <1>1, CommitEffect
  <2>2. store[r].phase \in {"Scheduled", "Running"}
    BY <2>1 DEF Committed, Fits, Advances
  <2>3. \A c \in calls[p] : c.run = r => c.mine
    BY <2>2 DEF CallsAt, CallOK, Finished, Outcomes
  <2>4. ~ClaimStep(m, r) \/ m = work[p]["main"]
    <3>1. ~ClaimStep(ToForget(r, k.then), r)
      BY DEF ToForget, ClaimStep
    <3>2. \/ Deciding(p, w, r, k.to, {"retry", "end"}, "source") \/ Becoming(p, w, Idle)
          \/ Becoming(p, w, ToForget(r, k.then))
      BY <2>1 DEF Committed
    <3> QED
      BY <1>c, <1>d, <3>1, <3>2 DEF Deciding, Becoming, ClaimStep
  <2>5. b = a \/ (a.claimed /\ b = [a EXCEPT !.started = FALSE])
    BY <2>1 DEF Committed
  <2>6. b.claimed = a.claimed
        /\ (a.claimed => (b.started => a.started) /\ (b.failure = a.failure))
    BY <1>a, <2>5
  <2>7. server[p][r] = NoExec => server'[p][r] = NoExec
    BY <2>1 DEF Committed
  <2>8. ASSUME NEW c \in calls[p], c.run = r PROVE CallOK(p, c)'
    <3>1. CallOK(p, c) /\ c.mine
      BY <2>3, <2>8 DEF CallsAt
    <3> HIDE DEF a, b, k, m
    <3> QED
      BY <2>4, <2>6, <2>7, <2>8, <3>1 DEF CallOK, Claiming, a, b, m
  <2>9. calls' = calls
    BY <2>1 DEF Committed
  <2> QED
    BY <2>8, <2>9 DEF CallsAt
<1>2. CASE Refused(p, w)
  <2>1. /\ Fits(w, k) /\ UNCHANGED <<store, calls, server>> /\ Becoming(p, w, Idle)
        /\ b = IF k.then = "claimed" THEN NoClaim ELSE a
        /\ k.step = "write"
    BY <1>2, RefusedEffect, SMTT(30) DEF WriteSteps
  <2>2. CASE k.then = "claimed"
    <3>1. w = "main" /\ Claiming(p, r)
      BY <1>c, <2>1, <2>2 DEF Fits, Claiming, ClaimStep
    <3>2. ASSUME NEW c \in calls[p], c.run = r PROVE CallOK(p, c)'
      BY <1>c, <2>1, <2>2, <3>1, <3>2 DEF CallsAt, CallOK, Finished
    <3> QED
      BY <2>1, <3>2 DEF CallsAt
  <2>3. CASE k.then # "claimed"
    <3>1. ClaimStep(m, r) <=> ClaimStep(work[p]["main"], r)
      BY <1>c, <1>d, <2>1, <2>3 DEF ClaimStep, Becoming
    <3>2. Same(p, r)
      BY <2>1, <2>3 DEF Same
    <3> QED
      BY <3>1, <3>2, CallFrame
  <2> QED
    BY <2>2, <2>3
<1>3. CASE Forget(p, w)
  <2>1. /\ k.step = "forget" /\ UNCHANGED <<store, active, calls>> /\ Swept(p, r)
        /\ Becoming(p, w, Idle) \/ Becoming(p, w, [step |-> "release", run |-> r])
    BY <1>3, ForgetEffect, SMT DEF ForgetSteps
  <2>2. ClaimStep(m, r) <=> ClaimStep(work[p]["main"], r)
    BY <1>c, <1>d, <2>1, SMT DEF ClaimStep, Becoming
  <2>3. ASSUME NEW c \in calls[p], c.run = r PROVE CallOK(p, c)'
    BY <2>1, <2>2, <2>3 DEF CallsAt, CallOK, Finished, Swept, Claiming
  <2> QED
    BY <2>1, <2>3 DEF CallsAt
<1>4. CASE Release(p, w)
  <2>1. /\ k \in ReleaseSteps /\ UNCHANGED <<store, server>> /\ b = NoClaim
        /\ \A c \in calls'[p] : c.run = r =>
              ~c.mine /\ \E d \in calls[p] : d.run = r /\ c = [d EXCEPT !.mine = FALSE]
    BY <1>4, ReleaseEffect, SMT
  <2>2. Finished(store'[r])
    BY <1>b, <2>1 DEF Ends, Ending, ReleaseSteps
  <2>3. ASSUME NEW c \in calls'[p], c.run = r PROVE CallOK(p, c)'
    <3>1. ~c.mine /\ \E d \in calls[p] : d.run = r /\ c = [d EXCEPT !.mine = FALSE]
      BY <2>1, <2>3
    <3>2. PICK d \in calls[p] : d.run = r /\ c = [d EXCEPT !.mine = FALSE]
      BY <3>1
    <3>3. d \in Calls
      BY DEF Sound, CallsOK
    <3>4. c.stage = d.stage
      BY <3>2, <3>3 DEF Calls
    <3>5. CallOK(p, d)
      BY <3>2 DEF CallsAt
    <3>6. server' = server
      BY <2>1
    <3> QED
      BY <1>c, <2>1, <2>2, <2>3, <3>1, <3>2, <3>4, <3>5, <3>6 DEF CallOK, Finished
  <2>4. ASSUME NEW c \in calls'[p], NEW d \in calls'[p], c.run = r, d.run = r PROVE c = d
    BY <2>1, <2>4 DEF CallsAt
  <2> QED
    BY <2>3, <2>4 DEF CallsAt
<1> QED
  BY <1>1, <1>2, <1>3, <1>4

\* An Execute call and its answers keep the calls of the Run in order.
LEMMA ExecuteCalls ==
    ASSUME Sound, [Next]_vars, NEW p \in Pods, NEW c \in calls[p], CallsAt(p, c.run),
           Execute(p, c) \/ ExecuteFails(p, c) \/ Started(p, c)
    PROVE  CallsAt(p, c.run)'
<1> DEFINE r == c.run
<1>1. /\ c \in Calls /\ r \in Runs /\ UNCHANGED <<store, work>>
      /\ \/ /\ calls'[p] = (calls[p] \ {c}) \cup {[c EXCEPT !.stage = "accepted"]}
            /\ active' = active
         \/ calls'[p] = calls[p] \ {c}
  BY CallEffects DEF FailedAt
<1>2. \A d \in calls[p] : d.run = r => d = c
  BY DEF CallsAt
<1>3. CASE calls'[p] = calls[p] \ {c}
  BY <1>2, <1>3 DEF CallsAt
<1>4. CASE /\ calls'[p] = (calls[p] \ {c}) \cup {[c EXCEPT !.stage = "accepted"]}
           /\ active' = active
  <2> DEFINE d == [c EXCEPT !.stage = "accepted"]
  <2>1. d.run = r /\ d.stage = "accepted" /\ d.mine = c.mine
    BY <1>1 DEF Calls
  <2>2. calls'[p] = (calls[p] \ {c}) \cup {d}
    BY <1>4
  <2>3. CallOK(p, c)
    BY DEF CallsAt
  <2> HIDE DEF d
  <2>4. CallOK(p, d)'
    BY <1>1, <1>4, <2>1, <2>3 DEF CallOK, Claiming, Finished
  <2> QED
    BY <1>2, <2>1, <2>2, <2>4 DEF CallsAt
<1> QED
  BY <1>1, <1>3, <1>4

\* Every step keeps at most one call per claim.
LEMMA OneCallStep ==
    ASSUME Sound, Ordered, Ends, OneCall, [Next]_vars
    PROVE  OneCall'
<1> SUFFICES ASSUME NEW p \in Pods, NEW s \in Runs, CallsAt(p, s) PROVE CallsAt(p, s)'
  BY DEF OneCall
<1>a. ASSUME UNCHANGED <<active[p], calls[p], server[p], work[p]>> PROVE CallsAt(p, s)'
  BY <1>a, CallFrame DEF Same
<1>b. Workers = {"main", "recovery"}
  BY DEF Workers
<1>c. ASSUME NEW r \in Runs, s # r,
             \/ Reconcile(p, r)
             \/ \E w \in Workers :
                   /\ work[p][w].run = r
                   /\ Commit(p, w) \/ Refused(p, w) \/ Forget(p, w) \/ Release(p, w)
             \/ \E c \in calls[p] :
                   c.run = r /\ (Execute(p, c) \/ ExecuteFails(p, c) \/ Started(p, c))
             \/ \E t \in recovery[p].todo : t.run = r /\ RecoverRun(p, t)
             \/ ExecutionEnds(p, r)
      PROVE  CallsAt(p, s)'
  <2>1. Same(p, s)
    BY <1>c, OtherRuns
  <2>2. ASSUME NEW k, ClaimStep(k, s) PROVE work'[p]["main"] = k <=> work[p]["main"] = k
    <3>1. k.step # "idle" /\ k.run = s /\ "main" \in Workers
      BY <1>b, <2>2 DEF ClaimStep
    <3> QED
      BY <1>c, <3>1, OtherWork, SMTT(30)
  <2>3. ClaimStep(work'[p]["main"], s) <=> ClaimStep(work[p]["main"], s)
    BY <2>2 DEF ClaimStep
  <2> QED
    BY <2>1, <2>3, CallFrame
<1>1. ASSUME NEW r \in Runs, Reconcile(p, r) PROVE CallsAt(p, s)'
  BY <1>1, <1>c, ReconcileCalls
<1>2. ASSUME NEW w \in Workers, Commit(p, w) \/ Refused(p, w) \/ Forget(p, w) \/ Release(p, w)
      PROVE  CallsAt(p, s)'
  <2>1. work[p][w].run \in Runs
    BY <1>2, WorkerRun
  <2> QED
    BY <1>2, <1>c, <2>1, WorkerCalls
<1>3. ASSUME NEW c \in calls[p], Execute(p, c) \/ ExecuteFails(p, c) \/ Started(p, c)
      PROVE  CallsAt(p, s)'
  <2>1. c.run \in Runs
    BY <1>3, CallEffects
  <2> QED
    BY <1>3, <1>c, <2>1, ExecuteCalls
<1>4. ASSUME NEW t \in recovery[p].todo, RecoverRun(p, t) PROVE CallsAt(p, s)'
  <2>1. /\ t.run \in Runs /\ UNCHANGED <<store, calls, server>>
        /\ \/ active' = active /\ work' = work
           \/ /\ ~active[p][t.run].claimed
              /\ \/ RecoveredAt(p, "recovery", t.run, t.obj)
                 \/ active'[p][t.run] = Claimed(TRUE) /\ work' = work
    BY <1>4, RecoverEffect
  <2>2. CASE s # t.run
    BY <1>4, <1>c, <2>1, <2>2
  <2>3. CASE active' = active /\ work' = work
    BY <1>a, <2>1, <2>3
  <2>4. CASE /\ s = t.run /\ ~active[p][s].claimed
             /\ \/ RecoveredAt(p, "recovery", s, t.obj)
                \/ active'[p][s] = Claimed(TRUE) /\ work' = work
    <3>1. active'[p][s] = active[p][s] \/ active'[p][s].started
      BY <2>4, SMT DEF RecoveredAt, Claimed
    <3>2. work'[p]["main"] = work[p]["main"]
      BY <1>b, <2>4 DEF RecoveredAt, Deciding
    <3>3. ASSUME NEW c \in calls[p], c.run = s PROVE CallOK(p, c)'
      BY <2>1, <2>4, <3>1, <3>2, <3>3 DEF CallsAt, CallOK, Claiming, Finished
    <3> QED
      BY <2>1, <3>3 DEF CallsAt
  <2> QED
    BY <2>1, <2>2, <2>3, <2>4
<1>5. ASSUME Restart(p) \/ Lose(p) PROVE CallsAt(p, s)'
  <2>1. calls'[p] = {}
    BY <1>5 DEF Restart, Lose, Sound, CallsOK
  <2> QED
    BY <2>1 DEF CallsAt
<1>6. ASSUME Wipe(p) PROVE CallsAt(p, s)'
  <2>1. server'[p][s] = NoExec /\ UNCHANGED <<store, active, calls, work>>
    BY <1>6 DEF Wipe, Sound, ServerOK
  <2>2. ASSUME NEW c \in calls[p], c.run = s PROVE CallOK(p, c)'
    BY <2>1, <2>2 DEF CallsAt, CallOK, Claiming, Finished
  <2> QED
    BY <2>1, <2>2 DEF CallsAt
<1>7. ASSUME NEW r \in Runs, ExecutionEnds(p, r) PROVE CallsAt(p, s)'
  <2>1. /\ UNCHANGED <<store, active, calls, work>> /\ server[p][r] # NoExec
    BY <1>7, EndEffect
  <2>2. CASE s = r
    <3>1. ASSUME NEW c \in calls[p], c.run = s PROVE CallOK(p, c)'
      BY <2>1, <2>2, <3>1 DEF CallsAt, CallOK, Claiming, Finished
    <3> QED
      BY <2>1, <3>1 DEF CallsAt
  <2> QED
    BY <1>7, <1>c, <2>2
<1>8. ASSUME Deliver(p) \/ RecoverList(p) \/ \E r \in Runs : Relist(p, r) \/ Expire(p, r)
      PROVE  CallsAt(p, s)'
  BY <1>8, <1>a, Idly
<1>9. ASSUME AtPod(p)' = AtPod(p) PROVE CallsAt(p, s)'
  BY <1>9, <1>a DEF AtPod
<1>10. ASSUME Runtimed(p) PROVE CallsAt(p, s)'
  BY <1>1, <1>2, <1>3, <1>4, <1>5, <1>8, <1>10 DEF Runtimed
<1>11. ASSUME RuntimeServer(p) PROVE CallsAt(p, s)'
  BY <1>6, <1>7, <1>11 DEF RuntimeServer
<1> QED
  BY <1>5, <1>9, <1>10, <1>11, Remote

\* The invariants of claims, calls and executions.
Tracking == Sound /\ Ordered /\ Ends /\ OneCall

\* At first no Run ends and no call is made.
LEMMA TrackingInit == Init => Ends /\ OneCall
BY SMTT(30) DEF Init, Ends, Ending, Idle, OneCall, CallsAt

\* Calls, ends and copies are in order in every state.
THEOREM TrackingAlways == Spec => []Tracking
<1>1. Init => Tracking
  BY SoundInit, TrackingInit, SMTT(30)
     DEF Init, Tracking, Ordered, CacheSeen, InboxSeen, WorkSeen, TodoSeen, Seen, Idle
<1>2. Tracking /\ [Next]_vars => Tracking'
  BY SoundStep, OrderedStep, EndsStep, OneCallStep DEF Tracking
<1> QED
  BY <1>1, <1>2, PTL DEF Spec

\* A step about one Run queues no other Run and lists none for recovery.
LEMMA OtherKeys ==
    ASSUME Sound, NEW p \in Pods, NEW r \in Runs, NEW s \in Runs, s # r,
           \/ Reconcile(p, r) \/ Relist(p, r)
           \/ \E w \in Workers : /\ work[p][w].run = r
                                 /\ Commit(p, w) \/ Refused(p, w) \/ Forget(p, w) \/ Release(p, w)
           \/ \E c \in calls[p] : c.run = r /\ (Execute(p, c) \/ ExecuteFails(p, c) \/ Started(p, c))
           \/ \E t \in recovery[p].todo : t.run = r /\ RecoverRun(p, t)
           \/ ExecutionEnds(p, r)
    PROVE  /\ s \in queue'[p] => s \in queue[p]
           /\ recovery'[p].todo \subseteq recovery[p].todo
<1>a. QueueOK /\ RecoveryOK
  BY DEF Sound
<1>1. \/ UNCHANGED queue \/ Enqueue(p, r) \/ Dequeue(p, r)
  BY DEF Reconcile, Ignore, CleanupDeleted, ReconcileScheduled, ReconcileRecovered, StatusFails,
         ReconcileCancel, ReconcileBackoff, ReconcileTimeout, StartExecution, ReconcileMissing,
         ReconcileActive, Relist, Commit, Refused, Forget, Release, Execute, ExecuteFails,
         Started, RecordFailure, RecoverRun, Recovering, ExecutionEnds
<1>2. s \in queue'[p] => s \in queue[p]
  BY <1>a, <1>1 DEF Enqueue, Dequeue, QueueOK
<1>3. ASSUME NEW t \in recovery[p].todo, RecoverRun(p, t)
      PROVE  recovery'[p].todo \subseteq recovery[p].todo
  BY <1>3, RecoverEffect
<1>4. \/ UNCHANGED recovery \/ \E t \in recovery[p].todo : RecoverRun(p, t)
  BY DEF Reconcile, Ignore, CleanupDeleted, ReconcileScheduled, ReconcileRecovered, StatusFails,
         ReconcileCancel, ReconcileBackoff, ReconcileTimeout, StartExecution, ReconcileMissing,
         ReconcileActive, Take, Relist, Commit, Refused, Forget, Release, Execute, ExecuteFails,
         Started, Calling, ExecutionEnds
<1> QED
  BY <1>2, <1>3, <1>4

\* While no live Pod looks stale, a Run stays assigned to a Pod that is there.
LEMMA PodKept ==
    ASSUME Sound, Steady, NoSilence, [Next]_vars, NEW r \in Runs, NEW p \in Pods,
           Alive(p), store[r].pod = p
    PROVE  store'[r].pod = p
<1>a. /\ store[r] \in Objects /\ StoreOK /\ pods[p] = "healthy" /\ p # NoPod
      /\ store[r].phase # "Pending"
  <2>1. pods[p] \in {"healthy", "silent", "gone"} /\ pods[p] # "silent" /\ pods[p] # "gone"
    BY DEF Sound, PodsOK, Steady, Alive
  <2>2. NoPod \notin Pods
    BY EnvFacts DEF Sound
  <2> QED
    BY <2>1, <2>2 DEF Sound, StoreOK, Steady
<1>1. ASSUME NEW o \in Objects, Changes(r, store[r], o) PROVE o.pod = p
  <2> DEFINE old == store[r]
  <2>1. old \in Objects /\ old.pod = p /\ old.phase # "Pending" /\ pods[old.pod] = "healthy"
    BY <1>a
  <2> HIDE DEF old
  <2>2. \/ Reported(old, o) \/ Dropped(old, o) \/ Abandoned(old, o) \/ Requested(r, old, o)
        \/ Removed(r, old, o)
    BY <1>1, <2>1 DEF Changes, Steered, Placed, Returned, old
  <2>3. CASE Reported(old, o)
    BY <2>1, <2>3 DEF Reported, Advances, Objects, Accepted, Retried, Ended
  <2> QED
    BY <2>1, <2>2, <2>3 DEF Dropped, Abandoned, Requested, Removed, Objects, Ended
<1>2. CASE store'[r] = store[r]
  BY <1>2
<1>3. ASSUME NEW q \in Runs, NEW o \in Objects, Put(q, o), Changes(q, store[q], o)
      PROVE  store'[r] = store[r] \/ (r = q /\ store'[r] = o)
  BY <1>a, <1>3 DEF Put, StoreOK
<1> QED
  BY <1>1, <1>2, <1>3, StoreStep

\* The runtimed of Pod p has Run r in hand, in whatever way.
Engaged(p, r) == \/ r \in queue[p] \/ active[p][r].claimed
                 \/ \E w \in Workers : work[p][w].step # "idle" /\ work[p][w].run = r
                 \/ \E c \in calls[p] : c.run = r
                 \/ \E t \in recovery[p].todo : t.run = r

\* A Run gets into the hands of a runtimed by a watch event that assigns it to the
\* Pod, or by the lists of a new process.
LEMMA Engaging ==
    ASSUME Sound, [Next]_vars, NEW p \in Pods, NEW s \in Runs, Engaged(p, s)'
    PROVE  \/ Engaged(p, s) /\ ~Lose(p)
           \/ Alive(p) /\ UNCHANGED <<store, pods>> /\ store[s].pod = p
           \/ Deliver(p) /\ s = Head(inbox[p])[1] /\ Head(inbox[p])[2].pod = p
<1>z. QueueOK /\ ActiveOK /\ CallsOK /\ WorkOK /\ RecoveryOK /\ ~NoClaim.claimed /\ Idle.step = "idle"
  BY DEF Sound, NoClaim, Idle
<1>a. ASSUME Lose(p) PROVE FALSE
  <2>1. /\ queue'[p] = {} /\ calls'[p] = {} /\ active'[p] = [x \in Runs |-> NoClaim]
        /\ work'[p] = [w \in Workers |-> Idle] /\ recovery'[p].todo = {}
    BY <1>z, <1>a DEF Lose, QueueOK, ActiveOK, CallsOK, WorkOK, RecoveryOK
  <2> QED
    BY <1>z, <2>1 DEF Engaged
<1>b. ASSUME UNCHANGED <<active[p], calls[p], work[p], recovery[p]>>, s \in queue'[p] => s \in queue[p]
      PROVE  Engaged(p, s)
  BY <1>b DEF Engaged
<1>c. ASSUME NEW r \in Runs, s # r,
             \/ Reconcile(p, r)
             \/ \E w \in Workers :
                   /\ work[p][w].run = r
                   /\ Commit(p, w) \/ Refused(p, w) \/ Forget(p, w) \/ Release(p, w)
             \/ \E c \in calls[p] :
                   c.run = r /\ (Execute(p, c) \/ ExecuteFails(p, c) \/ Started(p, c))
             \/ \E t \in recovery[p].todo : t.run = r /\ RecoverRun(p, t)
             \/ ExecutionEnds(p, r)
      PROVE  Engaged(p, s)
  <2>1. Same(p, s)
    BY <1>c, OtherRuns
  <2>2. s \in queue'[p] => s \in queue[p]
    BY <1>c, OtherKeys
  <2>3. recovery'[p].todo \subseteq recovery[p].todo
    BY <1>c, OtherKeys
  <2>4. ASSUME NEW w \in Workers, work'[p][w].step # "idle", work'[p][w].run = s
        PROVE  work[p][w] = work'[p][w]
    BY <1>c, <2>4, OtherWork, SMTT(30)
  <2> QED
    BY <2>1, <2>2, <2>3, <2>4 DEF Engaged, Same
<1>1. ASSUME NEW r \in Runs, Reconcile(p, r) PROVE Engaged(p, s)
  <2>1. r \in queue[p]
    BY <1>1, ReconcileEffects
  <2> QED
    BY <1>1, <1>c, <2>1 DEF Engaged
<1>2. ASSUME NEW w \in Workers, Commit(p, w) \/ Refused(p, w) \/ Forget(p, w) \/ Release(p, w)
      PROVE  Engaged(p, s)
  <2>1. work[p][w].run \in Runs
    BY <1>2, WorkerRun
  <2>2. work[p][w].step # "idle"
    BY <1>2 DEF Commit, Refused, Forget, Release, Writing
  <2> QED
    BY <1>2, <1>c, <2>1, <2>2 DEF Engaged
<1>3. ASSUME NEW c \in calls[p], Execute(p, c) \/ ExecuteFails(p, c) \/ Started(p, c)
      PROVE  Engaged(p, s)
  <2>1. c.run \in Runs
    BY <1>3, CallEffects
  <2> QED
    BY <1>3, <1>c, <2>1 DEF Engaged
<1>4. ASSUME NEW t \in recovery[p].todo, RecoverRun(p, t) PROVE Engaged(p, s)
  <2>1. t.run \in Runs
    BY <1>4, RecoverEffect
  <2> QED
    BY <1>4, <1>c, <2>1 DEF Engaged
<1>5. ASSUME RuntimeServer(p) PROVE Engaged(p, s)
  BY <1>5, <1>b DEF RuntimeServer, Wipe, ExecutionEnds
<1>6. ASSUME NEW r \in Runs, Relist(p, r) PROVE Engaged(p, s)
  <2>1. CASE r = s
    BY <1>6, <2>1 DEF Relist, Engaged
  <2>2. CASE r # s
    <3>1. s \in queue'[p] => s \in queue[p]
      BY <1>6, <2>2, OtherKeys
    <3> QED
      BY <1>6, <1>b, <3>1 DEF Relist
  <2> QED
    BY <2>1, <2>2
<1>7. ASSUME NEW r \in Runs, Expire(p, r) PROVE Engaged(p, s)
  BY <1>7, <1>b DEF Expire
<1>8. ASSUME AtPod(p)' = AtPod(p) PROVE Engaged(p, s)
  BY <1>8, <1>b DEF AtPod
<1>9. ASSUME Deliver(p), ~Engaged(p, s) PROVE s = Head(inbox[p])[1] /\ Head(inbox[p])[2].pod = p
  <2>1. ~(s \in queue'[p] => s \in queue[p])
    BY <1>9, <1>b DEF Deliver
  <2> QED
    BY <1>9, <1>z, <2>1 DEF Deliver, QueueOK
<1>10. ASSUME Restart(p)
       PROVE  Alive(p) /\ UNCHANGED <<store, pods>> /\ store[s].pod = p
  <2>1. /\ queue'[p] = {r \in Runs : store[r].pod = p /\ store[r].phase # "Deleted"}
        /\ calls'[p] = {} /\ active'[p] = [x \in Runs |-> NoClaim]
        /\ work'[p] = [w \in Workers |-> Idle] /\ recovery'[p].todo = {}
    BY <1>z, <1>10 DEF Restart, QueueOK, ActiveOK, CallsOK, WorkOK, RecoveryOK
  <2> QED
    BY <1>z, <1>10, <2>1, SMTT(30) DEF Engaged, Restart
<1>11. ASSUME RecoverList(p), ~Engaged(p, s)
       PROVE  Alive(p) /\ UNCHANGED <<store, pods>> /\ store[s].pod = p
  <2>1. /\ Alive(p) /\ UNCHANGED <<store, pods, active, calls, work, queue>>
        /\ \A t \in recovery'[p].todo : store[t.run].pod = p
    BY <1>z, <1>11, SMTT(30) DEF RecoverList, Recovering, RecoveryOK
  <2> QED
    BY <1>11, <2>1 DEF Engaged
<1>12. CASE Runtimed(p)
  BY <1>a, <1>1, <1>2, <1>3, <1>4, <1>6, <1>7, <1>9, <1>10, <1>11, <1>12 DEF Runtimed
<1> QED
  BY <1>a, <1>5, <1>8, <1>12, Remote

\* A Pod that is there stays unless it is lost.
LEMMA AliveKept ==
    ASSUME Sound, [Next]_vars, NEW p \in Pods, Alive(p)
    PROVE  Alive(p)' \/ Lose(p)
<1>1. UNCHANGED pods \/ \E q \in Pods : Silence(q) \/ Heartbeat(q) \/ Lose(q)
  <2>1. ASSUME NEW q \in Pods, NEW r \in Runs, Reconcile(q, r) \/ Relist(q, r) \/ Expire(q, r)
        PROVE  UNCHANGED pods
    BY <2>1 DEF Reconcile, Ignore, CleanupDeleted, ReconcileScheduled, ReconcileRecovered,
                StatusFails, ReconcileCancel, ReconcileBackoff, ReconcileTimeout, StartExecution,
                ReconcileMissing, ReconcileActive, Take, Relist, Expire
  <2>2. ASSUME NEW q \in Pods, Runtimed(q) \/ RuntimeServer(q) PROVE UNCHANGED pods
    BY <2>1, <2>2 DEF Runtimed, RuntimeServer, Deliver, Commit, Refused, Forget, Release, Execute,
       ExecuteFails, Started, Calling, Restart, RecoverList, Recovering, RecoverRun, Wipe,
       ExecutionEnds
  <2>3. ASSUME NEW r \in Runs,
               \/ CancelPending(r) \/ Reap(r) \/ RequestTermination(r) \/ Delete(r)
               \/ \E q \in Pods : Bind(r, q)
        PROVE  UNCHANGED pods
    BY <2>3 DEF CancelPending, Reap, RequestTermination, Delete, Bind, Update
  <2> QED
    BY <2>2, <2>3 DEF Next, ControlPlane, vars, state
<1>2. ASSUME NEW q \in Pods, Silence(q) \/ Heartbeat(q) PROVE Alive(p)'
  BY <1>2 DEF Silence, Heartbeat, Alive, Sound, PodsOK
<1>3. ASSUME NEW q \in Pods, Lose(q), q # p PROVE Alive(p)'
  BY <1>3 DEF Lose, Alive, Sound, PodsOK
<1> QED
  BY <1>1, <1>2, <1>3 DEF Alive

\* While no live Pod looks stale to the reaper, a runtimed has only Runs in hand,
\* and is only told of Runs, that are assigned to its Pod.
Assigned == NoSilence =>
    /\ \A p \in Pods, r \in Runs : Engaged(p, r) => Alive(p) /\ store[r].pod = p
    /\ \A p \in Pods : \A i \in DOMAIN inbox[p] :
          inbox[p][i][2].pod = p => Alive(p) /\ store[inbox[p][i][1]].pod = p

\* Every step keeps what a runtimed has in hand assigned to its Pod.
LEMMA AssignedStep ==
    ASSUME Sound, Steady, Assigned, [Next]_vars
    PROVE  Assigned'
<1> SUFFICES ASSUME NoSilence'
             PROVE  /\ \A p \in Pods, r \in Runs : Engaged(p, r)' => Alive(p)' /\ store'[r].pod = p
                    /\ \A p \in Pods : \A i \in DOMAIN inbox'[p] :
                          inbox'[p][i][2].pod = p => Alive(p)' /\ store'[inbox'[p][i][1]].pod = p
  BY DEF Assigned
<1>a. UNCHANGED env /\ NoSilence
  BY PodsStep DEF NoSilence
<1>b. /\ \A p \in Pods, r \in Runs : Engaged(p, r) => Alive(p) /\ store[r].pod = p
      /\ \A p \in Pods : \A i \in DOMAIN inbox[p] :
            inbox[p][i][2].pod = p => Alive(p) /\ store[inbox[p][i][1]].pod = p
  BY <1>a DEF Assigned
<1>1. ASSUME NEW p \in Pods, NEW r \in Runs, Engaged(p, r)' PROVE Alive(p)' /\ store'[r].pod = p
  <2>1. CASE Engaged(p, r) /\ ~Lose(p)
    BY <1>a, <1>b, <2>1, PodKept, AliveKept
  <2>2. CASE Alive(p) /\ UNCHANGED <<store, pods>> /\ store[r].pod = p
    BY <2>2 DEF Alive
  <2>3. CASE Deliver(p) /\ r = Head(inbox[p])[1] /\ Head(inbox[p])[2].pod = p
    <3>1. UNCHANGED <<store, pods>> /\ inbox[p] # <<>>
      BY <2>3 DEF Deliver
    <3>2. inbox[p] \in Seq(Runs \X Objects)
      BY DEF Sound, StoreOK
    <3>3. 1 \in DOMAIN inbox[p] /\ Head(inbox[p]) = inbox[p][1]
      BY <3>1, <3>2, SMT
    <3>4. Alive(p) /\ store[r].pod = p
      BY <1>b, <2>3, <3>3, SMT
    <3> QED
      BY <3>1, <3>4 DEF Alive
  <2> QED
    BY <1>1, <2>1, <2>2, <2>3, Engaging
<1>2. ASSUME NEW p \in Pods, NEW i \in DOMAIN inbox'[p], inbox'[p][i][2].pod = p
      PROVE  Alive(p)' /\ store'[inbox'[p][i][1]].pod = p
  <2> DEFINE e == inbox'[p][i]
  <2>a. inbox[p] \in Seq(Runs \X Objects) /\ inbox'[p] \in Seq(Runs \X Objects)
    BY SoundStep DEF Sound, StoreOK
  <2>b. ~Lose(p)
    <3>1. ASSUME Lose(p) PROVE inbox'[p] = <<>>
      BY <3>1 DEF Lose, Sound, StoreOK
    <3> QED
      BY <3>1, <1>2, SMT
  <2>1. ASSUME NEW j \in DOMAIN inbox[p], e = inbox[p][j]
        PROVE  Alive(p)' /\ store'[e[1]].pod = p
    <3>1. e[1] \in Runs
      BY <2>a, <2>1, SMT
    <3>2. Alive(p) /\ store[e[1]].pod = p
      BY <1>b, <1>2, <2>1, SMT
    <3> QED
      BY <1>a, <2>b, <3>1, <3>2, PodKept, AliveKept
  <2>2. ASSUME NEW r \in Runs, Alive(p), e = <<r, store'[r]>>
        PROVE  Alive(p)' /\ store'[e[1]].pod = p
    BY <1>2, <2>b, <2>2, AliveKept, SMT
  <2> QED
    BY <2>1, <2>2, ArrivalsStep, SMTT(30) DEF Arrivals
<1> QED
  BY <1>1, <1>2

------------------------------------------------------------------------------
(* Undisturbed, a Running Run is claimed and a result is counted once.      *)

\* An undisturbed Pod of a Run is healthy.
LEMMA HealthyPods ==
    ASSUME Sound, Steady, Undisturbed, NEW r \in Runs, store[r].pod \in Pods
    PROVE  pods[store[r].pod] = "healthy"
BY DEF Sound, PodsOK, Steady, Undisturbed, NoSilence, NoLoss

\* Undisturbed, the Run of a Pod becomes Running by the Pod's own update.
LEMMA BecomesRunning ==
    ASSUME Sound, Steady, Assigned, Undisturbed, [Next]_vars, NEW p \in Pods, NEW r \in Runs,
           store'[r].phase = "Running", store'[r].pod = p
    PROVE  \/ store[r].phase = "Running" /\ store[r].pod = p
           \/ \E w \in Workers : Commit(p, w) /\ work[p][w].run = r
<1>a. StoreOK /\ store[r] \in Objects /\ NoSilence
  BY DEF Sound, StoreOK, Undisturbed, NoSilence
<1>1. ASSUME NEW q \in Pods, NEW w \in Workers, Commit(q, w), store'[r] # store[r]
      PROVE  q = p /\ work[q][w].run = r
  <2> DEFINE k == work[q][w]
  <2>1. /\ k.run \in Runs /\ k.from \in Objects /\ store[k.run] = k.from /\ k.step = "write"
        /\ Advances(k.from, k.to, k.then) /\ Put(k.run, k.to)
    BY <1>1, CommitStep DEF WriteSteps
  <2>2. k.run = r /\ store'[r] = k.to
    BY <1>a, <1>1, <2>1 DEF Put, StoreOK
  <2>3. k.to.pod = k.from.pod
    BY <2>1 DEF Advances, Objects, Accepted, Retried, Ended
  <2>4. Engaged(q, r)
    BY <2>1, <2>2 DEF Engaged
  <2> QED
    BY <1>a, <2>1, <2>2, <2>3, <2>4, SMT DEF Assigned
<1>2. ASSUME NEW s \in Runs, NEW o \in Objects, Put(s, o), Steered(s, store[s], o),
             store'[r] # store[r]
      PROVE  store[r].phase = "Running" /\ store[r].pod = p
  <2> DEFINE old == store[r]
  <2>1. s = r /\ store'[r] = o
    BY <1>a, <1>2 DEF Put, StoreOK
  <2>2. old \in Objects /\ (old.phase = "Running" => pods[old.pod] = "healthy")
    BY <1>a, HealthyPods DEF Steady
  <2>3. Steered(r, old, o) /\ o.phase = "Running" /\ o.pod = p
    BY <1>2, <2>1
  <2> HIDE DEF old
  <2>4. ~Placed(old, o)
    BY <2>2, <2>3 DEF Placed, Objects
  <2>5. ~Dropped(old, o) /\ ~Removed(r, old, o)
    BY <2>2, <2>3 DEF Dropped, Removed, Ended, Objects
  <2>6. ~Returned(old, o) /\ ~Abandoned(old, o)
    BY <2>2 DEF Returned, Abandoned
  <2>7. Requested(r, old, o)
    BY <2>3, <2>4, <2>5, <2>6 DEF Steered
  <2>8. old.phase = "Running" /\ old.pod = p
    BY <2>2, <2>3, <2>7 DEF Requested, Objects
  <2> QED
    BY <2>8 DEF old
<1> QED
  BY <1>1, <1>2, UpdateStep

\* A call that has not reached the server, and the update that records a result.
Dialling(p, r) == \E c \in calls[p] : c.run = r /\ c.stage = "calling"
ResultStep(k, r) == k.step = "write" /\ k.why = "result" /\ k.run = r

\* No recovery is under way.
Settled(p) == work[p]["recovery"] = Idle /\ recovery[p].listed /\ recovery[p].todo = {}

\* A Running Run is claimed, from before its claim is persisted. Nothing touches the
\* execution whose result is being recorded, and a recorded result is about to be
\* forgotten.
KeptAt(p, r) ==
    LET k == work[p]["main"]
        e == server[p][r]
    IN /\ store[r].phase = "Running" /\ store[r].pod = p => active[p][r].claimed
       /\ ClaimStep(k, r) => active[p][r].claimed /\ store[r].phase # "Running"
       /\ ResultStep(k, r) => e.state \in {"none", "failed"} /\ ~Counted(e) /\ ~Dialling(p, r)
       /\ Counted(e) => e.state = "failed" /\ k.step = "forget" /\ k.run = r
Kept == Undisturbed => \A p \in Pods : Settled(p) /\ \A r \in Runs : KeptAt(p, r)

\* What a step needs to show of a Run it does not touch.
LEMMA KeptFrame ==
    ASSUME Sound, Steady, Assigned, Undisturbed, [Next]_vars, NEW p \in Pods, NEW r \in Runs,
           KeptAt(p, r), Same(p, r),
           \A k : k.step # "idle" /\ k.run = r => (work'[p]["main"] = k <=> work[p]["main"] = k),
           ~\E w \in Workers : Commit(p, w) /\ work[p][w].run = r
    PROVE  KeptAt(p, r)'
<1> DEFINE k == work[p]["main"]
           m == work'[p]["main"]
<1>a. NoSilence /\ r \in Runs
  BY DEF Undisturbed, NoSilence
<1>1. store'[r].phase = "Running" /\ store'[r].pod = p => store[r].phase = "Running" /\ store[r].pod = p
  BY BecomesRunning
<1>2. /\ ClaimStep(m, r) => m = k
      /\ ResultStep(m, r) => m = k
      /\ k.step = "forget" /\ k.run = r => m = k
  BY DEF ClaimStep, ResultStep
<1>3. active'[p][r] = active[p][r] /\ server'[p][r] = server[p][r] /\ Dialling(p, r)' = Dialling(p, r)
  BY DEF Same, Dialling
<1>4. ASSUME ClaimStep(m, r) PROVE store'[r].phase # "Running"
  <2>1. Engaged(p, r)
    BY <1>2, <1>4 DEF Engaged, ClaimStep, Workers
  <2>2. Alive(p) /\ store[r].pod = p
    BY <1>a, <2>1 DEF Assigned
  <2>3. store'[r].pod = p
    BY <1>a, <2>2, PodKept
  <2> QED
    BY <1>1, <1>2, <1>4, <2>3 DEF KeptAt
<1> QED
  BY <1>1, <1>2, <1>3, <1>4 DEF KeptAt

\* A reconcile keeps the claim of a Running Run.
LEMMA KeptReconcile ==
    ASSUME Sound, OneCall, Steady, Assigned, Undisturbed, NEW p \in Pods, NEW r \in Runs,
           KeptAt(p, r), Reconcile(p, r)
    PROVE  KeptAt(p, r)'
<1> DEFINE a == active[p][r]
           b == active'[p][r]
           e == server[p][r]
           f == server'[p][r]
           o == cache[p][r]
           k == work[p]["main"]
           m == work'[p]["main"]
<1>a. Reconciled(p, r) /\ UNCHANGED store /\ k = Idle /\ r \in queue[p]
  BY ReconcileEffects
<1>b. /\ ~ClaimStep(Idle, r) /\ ~ResultStep(Idle, r) /\ Idle.step # "forget"
  BY DEF ClaimStep, ResultStep, Idle
<1>c. ~Counted(e)
  BY <1>a, <1>b DEF KeptAt
<1>d. a \in Claims /\ (a.claimed => a \in [claimed : {TRUE}, started : BOOLEAN, failure : BOOLEAN])
  BY ClaimRecord DEF Sound, ActiveOK
<1>e. store[r].phase = "Running" => a.claimed
  BY <1>a DEF Undisturbed, NoSilence, Assigned, Engaged, KeptAt
<1>f. Claimed(TRUE).claimed /\ Claimed(FALSE).claimed
  BY DEF Claimed
<1>1. b.claimed \/ ~a.claimed
  BY <1>a, <1>d, <1>f DEF Reconciled, RecoveredAt, Still
<1>2. ~Counted(f)
  <2>1. f = e \/ f = NoExec
    BY <1>a DEF Reconciled, RecoveredAt, Still, Killed
  <2> QED
    BY <1>c, <2>1 DEF Counted
<1>3. ~ToForget(r, "end").step = "write"
  BY DEF ToForget
<1>4. ClaimStep(m, r) => b.claimed /\ ~a.claimed
  BY <1>a, <1>b, <1>f, <1>3 DEF Reconciled, RecoveredAt, Still, Deciding, Becoming, ClaimStep
<1>5. ResultStep(m, r) => e.state = "failed" /\ f = e /\ calls'[p] = calls[p]
  BY <1>a, <1>b, <1>3 DEF Reconciled, RecoveredAt, Still, Deciding, Becoming, ResultStep
<1>6. ResultStep(m, r) => ~Dialling(p, r)'
  BY <1>5, SMT DEF Dialling, OneCall, CallsAt, CallOK, NoExec
<1> HIDE DEF m
<1> QED
  BY <1>a, <1>e, <1>1, <1>2, <1>4, <1>5, <1>6 DEF KeptAt, m

\* Recording, cleaning up and releasing keep the claim of a Running Run.
LEMMA KeptWorker ==
    ASSUME Sound, Ends, Undisturbed, NEW p \in Pods, NEW r \in Runs,
           r = work[p]["main"].run, KeptAt(p, r),
           Commit(p, "main") \/ Refused(p, "main") \/ Forget(p, "main") \/ Release(p, "main")
    PROVE  KeptAt(p, r)'
<1> DEFINE a == active[p][r]
           b == active'[p][r]
           e == server[p][r]
           f == server'[p][r]
           k == work[p]["main"]
           m == work'[p]["main"]
<1>a. "main" \in Workers
  BY DEF Workers
<1>b. /\ ~ClaimStep(Idle, r) /\ ~ResultStep(Idle, r) /\ Idle.step # "forget"
  BY DEF ClaimStep, ResultStep, Idle
<1>c. ASSUME NEW then
      PROVE  /\ ~ClaimStep(ToForget(r, then), r) /\ ~ResultStep(ToForget(r, then), r)
             /\ ToForget(r, then).step = "forget" /\ ToForget(r, then).run = r
  BY DEF ClaimStep, ResultStep, ToForget
<1>d. a \in Claims /\ (a.claimed => a \in [claimed : {TRUE}, started : BOOLEAN, failure : BOOLEAN])
  BY ClaimRecord DEF Sound, ActiveOK
<1>e. e \in Executions
  BY DEF Sound, ServerOK
<1>1. CASE Commit(p, "main")
  <2>a. Committed(p, "main", k, r)
    BY <1>1, <1>a, CommitEffect
  <2>1. /\ k \in WriteSteps /\ Fits("main", k) /\ store[r] = k.from /\ store'[r] = k.to
        /\ k.from \in Objects
    BY <2>a DEF Committed, WriteSteps
  <2>2. a.claimed => b.claimed
    BY <1>d, <2>a DEF Committed
  <2>3. ~ClaimStep(m, r) /\ ~ResultStep(m, r)
    BY <1>b, <1>c, <2>a DEF Committed, Deciding, Becoming, ClaimStep, ResultStep
  <2>4. k.then = "claimed" => ClaimStep(k, r)
    BY <2>1 DEF ClaimStep, WriteSteps
  <2>5. ASSUME k.to.phase = "Running", k.then # "claimed"
        PROVE  k.from.phase = "Running" /\ k.from.pod = k.to.pod
    <3>1. Advances(k.from, k.to, k.then)
      BY <2>1 DEF Fits
    <3>2. k.from.pod = k.to.pod
      BY <2>1, <3>1 DEF Advances, Objects, Accepted, Retried, Ended
    <3>3. k.then # "end"
      BY <2>1, <2>5, <3>1 DEF Advances, Objects, Accepted, Ended, Outcomes
    <3> QED
      BY <2>5, <3>1, <3>2, <3>3 DEF Advances
  <2>6. k.to.phase = "Running" /\ k.to.pod = p => b.claimed
    BY <2>1, <2>2, <2>4, <2>5 DEF KeptAt
  <2>7. Counted(f) => f.state = "failed" /\ m.step = "forget" /\ m.run = r
    <3>0. k.step = "write"
      BY <2>1 DEF WriteSteps
    <3>1. ~Counted(e)
      BY <3>0 DEF KeptAt
    <3>2. CASE k.why = "result" /\ e # NoExec
      <4>1. ResultStep(k, r) /\ k.then \in {"retry", "end"}
        BY <2>1, <3>0, <3>2 DEF ResultStep, Fits
      <4>2. e.state \in {"none", "failed"} /\ f = [e EXCEPT !.counted = TRUE]
        BY <2>a, <3>2, <4>1 DEF KeptAt, Committed
      <4>3. e.state = "failed" /\ f.state = "failed"
        BY <1>e, <3>2, <4>2 DEF Executions
      <4>4. m = ToForget(r, k.then)
        BY <2>a, <4>1 DEF Committed, Becoming
      <4> QED
        BY <1>c, <4>3, <4>4
    <3>3. CASE ~(k.why = "result" /\ e # NoExec)
      BY <2>a, <3>1, <3>3 DEF Committed
    <3> QED
      BY <3>2, <3>3
  <2> QED
    BY <2>1, <2>3, <2>6, <2>7 DEF KeptAt
<1>2. CASE Refused(p, "main")
  <2>1. /\ k \in WriteSteps /\ UNCHANGED <<store, calls, server>> /\ m = Idle
        /\ b = IF k.then = "claimed" THEN NoClaim ELSE a
    BY <1>2, <1>a, RefusedEffect, SMT DEF Becoming
  <2>2. k.step = "write" /\ (k.then = "claimed" => ClaimStep(k, r))
    BY <2>1 DEF ClaimStep, WriteSteps
  <2> QED
    BY <1>b, <2>1, <2>2 DEF KeptAt
<1>3. CASE Forget(p, "main")
  <2>1. /\ UNCHANGED <<store, active>> /\ Swept(p, r) /\ k.step = "forget"
        /\ m = Idle \/ m = [step |-> "release", run |-> r]
    BY <1>3, <1>a, ForgetEffect, SMTT(30) DEF Becoming, ForgetSteps
  <2>2. ~ClaimStep(m, r) /\ ~ResultStep(m, r)
    BY <1>b, <2>1, SMT DEF ClaimStep, ResultStep
  <2>3. ~Counted(f)
    BY <2>1 DEF Swept, KeptAt, Counted
  <2> QED
    BY <2>1, <2>2, <2>3 DEF KeptAt
<1>4. CASE Release(p, "main")
  <2>1. UNCHANGED <<store, server>> /\ k.step = "release" /\ m = Idle
    BY <1>4, <1>a, ReleaseEffect, SMT DEF Becoming, ReleaseSteps
  <2>2. store[r].phase # "Running"
    BY <1>a, <2>1 DEF Ends, Ending, Finished, Outcomes
  <2> QED
    BY <1>b, <2>1, <2>2 DEF KeptAt
<1> QED
  BY <1>1, <1>2, <1>3, <1>4

\* An Execute call and its answers keep the claim of a Running Run.
LEMMA KeptCall ==
    ASSUME Sound, OneCall, NEW p \in Pods, NEW c \in calls[p], KeptAt(p, c.run),
           Execute(p, c) \/ ExecuteFails(p, c) \/ Started(p, c)
    PROVE  KeptAt(p, c.run)'
<1> DEFINE r == c.run
           a == active[p][r]
           b == active'[p][r]
           e == server[p][r]
           f == server'[p][r]
           k == work[p]["main"]
<1>1. /\ c \in Calls /\ r \in Runs /\ UNCHANGED <<store, work>>
      /\ \/ c.stage = "calling" /\ f = NewExec
         \/ f = e \/ Swept(p, r)
      /\ b = a \/ (c.mine /\ b = [a EXCEPT !.failure = TRUE])
      /\ \/ c.stage = "calling"
         \/ calls'[p] = calls[p] \ {c}
  BY CallEffects DEF FailedAt
<1>2. a.claimed => b.claimed
  <2>1. a \in Claims
    BY <1>1, SMT DEF Sound, ActiveOK
  <2> HIDE DEF a
  <2>2. a.claimed => a \in [claimed : {TRUE}, started : BOOLEAN, failure : BOOLEAN]
    BY <2>1, ClaimRecord
  <2> QED
    BY <1>1, <2>2
<1>3. c.stage = "calling" => Dialling(p, r)
  BY DEF Dialling
<1>4. ~Counted(NewExec) /\ ~Counted(NoExec) /\ NoExec.state = "none"
  BY DEF Counted, NewExec, NoExec
<1>5. ASSUME ResultStep(k, r) PROVE f.state \in {"none", "failed"} /\ ~Counted(f) /\ ~Dialling(p, r)'
  <2>1. c.stage # "calling" /\ e.state \in {"none", "failed"} /\ ~Counted(e) /\ ~Dialling(p, r)
    BY <1>3, <1>5 DEF KeptAt
  <2>2. f = e \/ f = NoExec
    BY <1>1, <2>1 DEF Swept
  <2>3. calls'[p] \subseteq calls[p]
    BY <1>1, <2>1
  <2> QED
    BY <1>4, <2>1, <2>2, <2>3 DEF Dialling
<1>6. ASSUME Counted(f) PROVE f.state = "failed" /\ Counted(e)
  <2>1. f = e
    BY <1>1, <1>4, <1>6 DEF Swept
  <2> QED
    BY <1>6, <2>1 DEF KeptAt
<1> QED
  BY <1>1, <1>2, <1>5, <1>6 DEF KeptAt

\* No undisturbed Pod starts a recovery.
LEMMA SettledStep ==
    ASSUME Sound, Undisturbed, [Next]_vars, NEW p \in Pods, Settled(p)
    PROVE  Settled(p)' /\ ~Restart(p) /\ ~Lose(p) /\ ~RecoverList(p)
<1>a. ~Restart(p) /\ ~Lose(p)
  BY DEF Undisturbed, Restart, Lose, Fault
<1>b. ~RecoverList(p)
  BY DEF Settled, RecoverList
<1>c. "main" # "recovery" /\ "recovery" \in Workers /\ "main" \in Workers
  BY DEF Workers
<1>d. ~\E t \in recovery[p].todo : RecoverRun(p, t)
  BY DEF Settled
<1>1. ASSUME NEW r \in Runs, Reconcile(p, r) PROVE Settled(p)'
  <2>1. Reconciled(p, r) /\ UNCHANGED recovery
    BY <1>1, ReconcileEffects
  <2>2. work'[p]["recovery"] = work[p]["recovery"]
    BY <1>c, <2>1 DEF Reconciled, RecoveredAt, Deciding, Becoming
  <2> QED
    BY <2>1, <2>2 DEF Settled
<1>2. ASSUME NEW w \in Workers, Commit(p, w) \/ Refused(p, w) \/ Forget(p, w) \/ Release(p, w)
      PROVE  Settled(p)'
  <2>1. w = "main"
    <3>1. work[p][w].step # "idle"
      BY <1>2 DEF Commit, Refused, Forget, Release, Writing
    <3> QED
      BY <3>1, SMT DEF Settled, Workers, Idle
  <2>2. UNCHANGED recovery
    BY <1>2 DEF Commit, Refused, Forget, Release
  <2>3. work'[p]["recovery"] = work[p]["recovery"]
    <3>1. CASE Commit(p, w)
      <4>1. Committed(p, w, work[p][w], work[p][w].run)
        BY <3>1, CommitEffect
      <4> QED
        BY <1>c, <2>1, <4>1 DEF Committed, Deciding, Becoming
    <3>2. CASE Refused(p, w) \/ Release(p, w)
      BY <1>c, <2>1, <3>2, RefusedEffect, ReleaseEffect, SMT DEF Becoming
    <3>3. CASE Forget(p, w)
      <4>1. Becoming(p, w, Idle) \/ Becoming(p, w, [step |-> "release", run |-> work[p][w].run])
        BY <3>3, ForgetEffect
      <4> QED
        BY <1>c, <2>1, <4>1 DEF Becoming
    <3> QED
      BY <1>2, <3>1, <3>2, <3>3
  <2> QED
    BY <2>1, <2>2, <2>3 DEF Settled
<1>3. ASSUME UNCHANGED <<work[p], recovery[p]>> PROVE Settled(p)'
  BY <1>3 DEF Settled
<1>4. ASSUME NEW c \in calls[p], Execute(p, c) \/ ExecuteFails(p, c) \/ Started(p, c)
      PROVE  Settled(p)'
  BY <1>3, <1>4, CallEffects
<1>5. ASSUME Deliver(p) \/ RuntimeServer(p) \/ \E r \in Runs : Relist(p, r) \/ Expire(p, r)
      PROVE  Settled(p)'
  BY <1>3, <1>5 DEF Deliver, RuntimeServer, Wipe, ExecutionEnds, Relist, Expire
<1>6. ASSUME AtPod(p)' = AtPod(p) PROVE Settled(p)'
  BY <1>3, <1>6 DEF AtPod
<1>7. ASSUME Runtimed(p) PROVE Settled(p)'
  BY <1>a, <1>b, <1>d, <1>1, <1>2, <1>4, <1>5, <1>7 DEF Runtimed
<1> QED
  BY <1>a, <1>b, <1>5, <1>6, <1>7, Remote

\* Every step keeps the claims of Running Runs.
LEMMA KeptStep ==
    ASSUME Tracking, Steady, Assigned, Kept, [Next]_vars
    PROVE  Kept'
<1>a. Sound /\ Ends /\ OneCall
  BY DEF Tracking
<1>b. Undisturbed' = Undisturbed
  BY <1>a, PodsStep DEF Undisturbed
<1>s. Undisturbed => \A p \in Pods : Settled(p)'
  BY <1>a, SettledStep DEF Kept
<1> SUFFICES ASSUME Undisturbed, NEW p \in Pods, NEW s \in Runs, Settled(p), KeptAt(p, s)
             PROVE  KeptAt(p, s)'
  BY <1>b, <1>s DEF Kept
<1>c. Settled(p)' /\ ~Restart(p) /\ ~Lose(p) /\ ~RecoverList(p)
  BY <1>a, SettledStep
<1>d. /\ \A w \in Workers : Commit(p, w) \/ Refused(p, w) \/ Forget(p, w) \/ Release(p, w) => w = "main"
      /\ ~\E t \in recovery[p].todo : RecoverRun(p, t)
  <2>1. ASSUME NEW w \in Workers, Commit(p, w) \/ Refused(p, w) \/ Forget(p, w) \/ Release(p, w)
        PROVE  work[p][w].step # "idle"
    BY <2>1 DEF Commit, Refused, Forget, Release, Writing
  <2> QED
    BY <2>1, SMT DEF Settled, Workers, Idle
<1>e. ASSUME UNCHANGED <<active[p], calls[p], server[p], work[p]>> PROVE KeptAt(p, s)'
  <2>1. ASSUME NEW w \in Workers, Commit(p, w), work[p][w].run = s PROVE KeptAt(p, s)'
    BY <1>a, <1>d, <2>1, KeptWorker
  <2> QED
    BY <1>a, <1>e, <2>1, KeptFrame DEF Same
<1>f. ASSUME NEW r \in Runs, s # r,
             \/ Reconcile(p, r)
             \/ \E w \in Workers :
                   /\ work[p][w].run = r
                   /\ Commit(p, w) \/ Refused(p, w) \/ Forget(p, w) \/ Release(p, w)
             \/ \E c \in calls[p] :
                   c.run = r /\ (Execute(p, c) \/ ExecuteFails(p, c) \/ Started(p, c))
             \/ \E t \in recovery[p].todo : t.run = r /\ RecoverRun(p, t)
             \/ ExecutionEnds(p, r)
      PROVE  KeptAt(p, s)'
  <2>1. Same(p, s)
    BY <1>a, <1>f, OtherRuns
  <2>2. \A k : k.step # "idle" /\ k.run = s => (work'[p]["main"] = k <=> work[p]["main"] = k)
    BY <1>a, <1>f, OtherWork, SMT DEF Workers
  <2>3. ASSUME NEW w \in Workers, Commit(p, w), work[p][w].run = s PROVE KeptAt(p, s)'
    BY <1>a, <1>d, <2>3, KeptWorker
  <2> QED
    BY <1>a, <2>1, <2>2, <2>3, KeptFrame
<1>1. ASSUME NEW r \in Runs, Reconcile(p, r) PROVE KeptAt(p, s)'
  BY <1>a, <1>1, <1>f, KeptReconcile
<1>2. ASSUME NEW w \in Workers, Commit(p, w) \/ Refused(p, w) \/ Forget(p, w) \/ Release(p, w)
      PROVE  KeptAt(p, s)'
  <2>1. work[p][w].run \in Runs /\ w = "main"
    BY <1>a, <1>d, <1>2, WorkerRun
  <2> QED
    BY <1>a, <1>2, <1>f, <2>1, KeptWorker
<1>3. ASSUME NEW c \in calls[p], Execute(p, c) \/ ExecuteFails(p, c) \/ Started(p, c)
      PROVE  KeptAt(p, s)'
  <2>1. c.run \in Runs
    BY <1>a, <1>3, CallEffects
  <2> QED
    BY <1>a, <1>3, <1>f, <2>1, KeptCall
<1>4. ASSUME Wipe(p) PROVE KeptAt(p, s)'
  <2>1. server'[p][s] = NoExec /\ UNCHANGED <<store, active, calls, work>>
    BY <1>a, <1>4 DEF Wipe, Sound, ServerOK
  <2>2. ~Counted(NoExec) /\ NoExec.state = "none"
    BY DEF Counted, NoExec
  <2> QED
    BY <2>1, <2>2 DEF KeptAt, Dialling
<1>5. ASSUME NEW r \in Runs, ExecutionEnds(p, r) PROVE KeptAt(p, s)'
  <2>1. /\ UNCHANGED <<store, active, calls, work>> /\ server[p][r].state = "running"
        /\ server[p][r] # NoExec /\ server'[p][r].counted = server[p][r].counted
    BY <1>a, <1>5, EndEffect
  <2>2. CASE s = r
    BY <2>1, <2>2 DEF KeptAt, Counted
  <2> QED
    BY <1>5, <1>f, <2>2
<1>6. ASSUME Deliver(p) \/ RecoverList(p) \/ \E r \in Runs : Relist(p, r) \/ Expire(p, r)
      PROVE  KeptAt(p, s)'
  BY <1>a, <1>6, <1>e, Idly
<1>7. ASSUME AtPod(p)' = AtPod(p) PROVE KeptAt(p, s)'
  BY <1>7, <1>e DEF AtPod
<1>8. ASSUME Runtimed(p) PROVE KeptAt(p, s)'
  BY <1>c, <1>d, <1>1, <1>2, <1>3, <1>6, <1>8 DEF Runtimed
<1>9. ASSUME RuntimeServer(p) PROVE KeptAt(p, s)'
  BY <1>4, <1>5, <1>9 DEF RuntimeServer
<1> QED
  BY <1>a, <1>c, <1>7, <1>8, <1>9, Remote

\* The invariants about Pods and claims.
Holding == Tracking /\ Steady /\ Assigned /\ Kept

\* At first no Run is assigned, claimed or in hand.
LEMMA ClaimingInit == Init => Steady /\ Assigned /\ Kept
<1> SUFFICES ASSUME Init PROVE Steady /\ Assigned /\ Kept
  OBVIOUS
<1>a. /\ NoPod \notin Pods /\ ~NoClaim.claimed /\ Idle.step = "idle" /\ NewRun.phase = "Pending"
      /\ NewRun.pod = NoPod /\ ~NewRun.cancel /\ Workers = {"main", "recovery"} /\ ~Counted(NoExec)
  BY TaskAssumption DEF NoClaim, Idle, NewRun, Workers, Counted
<1>b. /\ \A r \in Runs : store[r] = NewRun
      /\ \A p \in Pods : /\ queue[p] = {} /\ calls[p] = {} /\ recovery[p].todo = {}
                         /\ recovery[p].listed /\ expired[p] = {} /\ inbox[p] = <<>>
                         /\ pods[p] # "silent"
                         /\ \A w \in Workers : work[p][w] = Idle
                         /\ \A r \in Runs : active[p][r] = NoClaim /\ server[p][r] = NoExec
  BY DEF Init
<1>1. Steady
  BY <1>a, <1>b DEF Steady
<1>2. Assigned
  BY <1>a, <1>b, SMT DEF Assigned, Engaged
<1>3. Kept
  BY <1>a, <1>b DEF Kept, Settled, KeptAt, ClaimStep, ResultStep
<1> QED
  BY <1>1, <1>2, <1>3

\* Assignments and claims are in order in every state.
THEOREM ClaimingAlways == Spec => []Holding
<1>1. Init /\ Tracking => Holding
  BY ClaimingInit DEF Holding
<1>2. Holding /\ Tracking' /\ [Next]_vars => Holding'
  BY SteadyStep, AssignedStep, KeptStep DEF Holding, Tracking
<1> QED
  BY <1>1, <1>2, TrackingAlways, PTL DEF Spec

\* Undisturbed, a Run that is Running is claimed by its runtimed, whatever
\* updates are refused, starts fail, executions are lost or retries happen.
THEOREM RunningIsClaimed == Spec => []ClaimOutlivesRunning
<1>1. Holding => ClaimOutlivesRunning
  BY DEF Holding, Kept, KeptAt, Steady, ClaimOutlivesRunning
<1> QED
  BY <1>1, ClaimingAlways, PTL

\* Undisturbed, no FAILED result is recorded for two attempts.
THEOREM ResultsCountedOnce == Spec => ResultCountedOnce
<1> DEFINE A == \A p \in Pods, w \in Workers :
          LET k == work[p][w]
          IN Undisturbed /\ k.step = "write" /\ k.why = "result" /\ store'[k.run] # store[k.run]
               /\ work'[p][w] # k /\ store'[k.run] = k.to
             => ~Counted(server[p][k.run])
<1>1. Holding => A
  <2> SUFFICES ASSUME Holding, Undisturbed, NEW p \in Pods, NEW w \in Workers, NEW k,
                      k = work[p][w], k.step = "write", k.why = "result"
               PROVE  ~Counted(server[p][k.run])
    OBVIOUS
  <2>1. k \in Steps /\ Settled(p)
    BY DEF Holding, Tracking, Sound, WorkOK, Kept
  <2>2. k.run \in Runs
    BY <2>1, SMT DEF Steps, WriteSteps, ForgetSteps, ReleaseSteps, Idle
  <2>3. w = "main"
    BY <2>1, SMT DEF Settled, Workers, Idle
  <2> QED
    BY <2>2, <2>3 DEF Holding, Kept, KeptAt, ResultStep
<1> QED
  BY <1>1, ClaimingAlways, PTL DEF ResultCountedOnce

------------------------------------------------------------------------------
(* A claim ends with its Run.                                               *)

Quiet == Undisturbed /\ Unhurried /\ "noStatus" \notin env.kinds

\* Where nobody withdraws Runs, no copy of a Run is withdrawn, and nothing expires.
LEMMA QuietFacts ==
    ASSUME Sound, Ordered, Steady, Quiet, NEW p \in Pods, NEW r \in Runs
    PROVE  /\ ~store[r].cancel /\ store[r].phase # "Deleted"
           /\ ~cache[p][r].cancel /\ cache[p][r].phase # "Deleted" /\ r \notin expired[p]
<1>1. ~store[r].cancel /\ store[r].phase # "Deleted" /\ r \notin expired[p]
  BY DEF Steady, Quiet, Unhurried
<1>2. Seen(r, cache[p][r])
  BY DEF Ordered, CacheSeen
<1> QED
  BY <1>1, <1>2, SMT DEF Seen, Precedes

\* Then a Run ends by an update of the runtimed that has it in hand.
LEMMA EndedHere ==
    ASSUME Sound, Ordered, Steady, Assigned, Quiet, [Next]_vars, NEW p \in Pods, NEW r \in Runs,
           Engaged(p, r), Finished(store'[r])
    PROVE  \/ Finished(store[r])
           \/ \E w \in Workers : Commit(p, w) /\ work[p][w].run = r
<1>a. StoreOK /\ store[r] \in Objects /\ NoSilence /\ Undisturbed
  BY DEF Sound, StoreOK, Quiet, Undisturbed, NoSilence
<1>b. store[r].pod = p
  BY <1>a DEF Assigned
<1>1. ASSUME NEW q \in Pods, NEW w \in Workers, Commit(q, w), store'[r] # store[r]
      PROVE  q = p /\ work[q][w].run = r
  <2> DEFINE k == work[q][w]
  <2>1. k.run \in Runs /\ k.step = "write" /\ Put(k.run, k.to)
    BY <1>1, CommitStep DEF WriteSteps
  <2>2. k.run = r
    BY <1>a, <1>1, <2>1 DEF Put, StoreOK
  <2>3. Engaged(q, r)
    BY <2>1, <2>2 DEF Engaged
  <2> QED
    BY <1>a, <1>b, <2>2, <2>3 DEF Assigned
<1>2. ASSUME NEW s \in Runs, NEW o \in Objects, Put(s, o), Steered(s, store[s], o),
             store'[r] # store[r]
      PROVE  FALSE
  <2> DEFINE old == store[r]
  <2>1. s = r /\ store'[r] = o
    BY <1>a, <1>2 DEF Put, StoreOK
  <2>2. /\ old \in Objects /\ (old.phase = "Running" => pods[old.pod] = "healthy") /\ ~old.cancel
        /\ r \notin env.withdrawn
    BY <1>a, HealthyPods, QuietFacts DEF Steady, Quiet, Unhurried
  <2>3. Steered(r, old, o) /\ Finished(o)
    BY <1>2, <2>1
  <2> HIDE DEF old
  <2>4. ~Placed(old, o)
    BY <2>2, <2>3 DEF Placed, Objects, Finished, Outcomes
  <2> QED
    BY <2>2, <2>3, <2>4 DEF Steered, Returned, Abandoned, Dropped, Requested, Removed
<1> QED
  BY <1>1, <1>2, UpdateStep

\* The claim of a Run that has ended is about to be released. An execution, and a
\* call that will start one, belongs to a persisted claim. What is recorded of a
\* claimed Run is recorded of a Run that goes on; what is recorded as its end, and
\* then cleaned up, has no running execution.
LeaklessAt(p, r) ==
    LET k == work[p]["main"]
        e == server[p][r]
        a == active[p][r]
    IN /\ a.claimed /\ Finished(store[r]) => k.step # "idle" /\ k.run = r
       /\ e # NoExec \/ Dialling(p, r) => a.claimed /\ ~ClaimStep(k, r)
       /\ k.step = "write" /\ k.run = r /\ k.then # "claimed" /\ a.claimed => ~Finished(store[r])
       /\ k.step = "forget" /\ k.run = r /\ k.then = "retry" => ~Finished(store[r])
       /\ k.step \in {"write", "forget"} /\ k.run = r /\ k.then = "end" =>
              e.state # "running" /\ ~Dialling(p, r)
       /\ k.step = "release" /\ k.run = r => e = NoExec /\ ~Dialling(p, r)
Leakless == Quiet => \A p \in Pods, r \in Runs : LeaklessAt(p, r)

\* It is kept where nothing happens to the Run at the Pod.
LEMMA LeaklessFrame ==
    ASSUME Sound, Ordered, Steady, Assigned, Quiet, [Next]_vars, NEW p \in Pods, NEW r \in Runs,
           LeaklessAt(p, r), Same(p, r),
           \A k : k.step # "idle" /\ k.run = r => (work'[p]["main"] = k <=> work[p]["main"] = k),
           ~\E w \in Workers : Commit(p, w) /\ work[p][w].run = r
    PROVE  LeaklessAt(p, r)'
<1> DEFINE k == work[p]["main"]
           m == work'[p]["main"]
<1>1. m.step # "idle" /\ m.run = r => m = k
  OBVIOUS
<1>2. k.step # "idle" /\ k.run = r => m = k
  OBVIOUS
<1>3. active'[p][r] = active[p][r] /\ server'[p][r] = server[p][r] /\ Dialling(p, r)' = Dialling(p, r)
  BY DEF Same, Dialling
<1>4. ASSUME active[p][r].claimed \/ (k.step # "idle" /\ k.run = r), Finished(store'[r])
      PROVE  Finished(store[r])
  <2>1. Engaged(p, r)
    BY <1>4 DEF Engaged, Workers
  <2> QED
    BY <1>4, <2>1, EndedHere
<1>5. ClaimStep(m, r) => ClaimStep(k, r)
  BY <1>1 DEF ClaimStep
<1> HIDE DEF k, m
<1>6. LET e == server[p][r]
          a == active[p][r]
      IN /\ a.claimed /\ Finished(store'[r]) => m.step # "idle" /\ m.run = r
         /\ e # NoExec \/ Dialling(p, r) => a.claimed /\ ~ClaimStep(m, r)
         /\ m.step = "write" /\ m.run = r /\ m.then # "claimed" /\ a.claimed => ~Finished(store'[r])
         /\ m.step = "forget" /\ m.run = r /\ m.then = "retry" => ~Finished(store'[r])
         /\ m.step \in {"write", "forget"} /\ m.run = r /\ m.then = "end" =>
                e.state # "running" /\ ~Dialling(p, r)
         /\ m.step = "release" /\ m.run = r => e = NoExec /\ ~Dialling(p, r)
  BY <1>1, <1>2, <1>4, <1>5 DEF LeaklessAt, k
<1> QED
  BY <1>3, <1>6 DEF LeaklessAt, m, Finished

\* A reconcile keeps it.
LEMMA LeaklessReconcile ==
    ASSUME Sound, Ordered, OneCall, Steady, Assigned, Quiet, NEW p \in Pods, NEW r \in Runs,
           LeaklessAt(p, r), Reconcile(p, r)
    PROVE  LeaklessAt(p, r)'
<1> DEFINE a == active[p][r]
           b == active'[p][r]
           e == server[p][r]
           f == server'[p][r]
           o == cache[p][r]
           k == work[p]["main"]
           m == work'[p]["main"]
<1>a. Reconciled(p, r) /\ UNCHANGED store /\ k = Idle /\ Idle.step = "idle"
  BY ReconcileEffects DEF Idle
<1>b. /\ ~o.cancel /\ o.phase # "Deleted" /\ r \notin expired[p] /\ "noStatus" \notin env.kinds
  BY QuietFacts DEF Quiet
<1>c. a \in Claims /\ (a.claimed => a \in [claimed : {TRUE}, started : BOOLEAN, failure : BOOLEAN])
  BY ClaimRecord DEF Sound, ActiveOK
<1>d. /\ a.claimed => ~Finished(store[r])
      /\ e # NoExec \/ Dialling(p, r) => a.claimed
  BY <1>a DEF LeaklessAt
<1>e. /\ e # NoExec => ~Dialling(p, r)
      /\ a.claimed /\ (a.started \/ a.failure) => ~Dialling(p, r)
  BY <1>d, SMTT(30) DEF OneCall, CallsAt, CallOK, Dialling
<1>f. calls'[p] = calls[p] => Dialling(p, r)' = Dialling(p, r)
  BY DEF Dialling
<1>g. Claimed(FALSE).claimed /\ NoExec.state = "none" /\ ~ClaimStep(Idle, r)
  BY DEF Claimed, NoExec, ClaimStep, Idle
<1>h. /\ [a EXCEPT !.failure = FALSE].claimed = a.claimed
      /\ [a EXCEPT !.started = TRUE].claimed = a.claimed
  <2>1. CASE a.claimed
    BY <1>c, <2>1
  <2>2. CASE a = NoClaim
    BY <2>2 DEF NoClaim
  <2> QED
    BY <1>c, <2>1, <2>2 DEF Claims
<1>1. \/ b = a /\ f = e /\ calls'[p] = calls[p] /\ work' = work
      \/ ~a.claimed /\ b = Claimed(FALSE) /\ f = e /\ calls'[p] = calls[p]
           /\ Deciding(p, "main", r, o, {"claimed"}, "claim")
      \/ ~a.claimed /\ e = NoExec /\ b = a /\ f = e /\ calls'[p] = calls[p]
           /\ Deciding(p, "main", r, o, {"retry", "end"}, "lost")
      \/ a.claimed /\ b = a /\ f = e /\ calls'[p] = calls[p]
           /\ Deciding(p, "main", r, o, {"backoff"}, "backoff")
      \/ a.claimed /\ b = a /\ f = e /\ work' = work
      \/ a.claimed /\ e = NoExec /\ b.claimed /\ (a.started \/ a.failure) /\ f = e
           /\ calls'[p] = calls[p] /\ \E why : Deciding(p, "main", r, o, {"retry", "end"}, why)
      \/ a.claimed /\ b.claimed /\ f = e /\ calls'[p] = calls[p]
           /\ (work' = work \/ Deciding(p, "main", r, o, {"poll"}, "accept"))
      \/ a.claimed /\ b.claimed /\ f = e /\ calls'[p] = calls[p] /\ e # NoExec /\ e.state # "running"
           /\ \E thens, why : thens \subseteq {"retry", "end"} /\ Deciding(p, "main", r, o, thens, why)
  BY <1>a, <1>b, <1>d, <1>g, <1>h DEF Reconciled, RecoveredAt, Still
<1> HIDE DEF m, a, b, e, f, o
<1>2. LET d == Dialling(p, r)'
      IN /\ b.claimed /\ Finished(store[r]) => m.step # "idle" /\ m.run = r
         /\ f # NoExec \/ d => b.claimed /\ ~ClaimStep(m, r)
         /\ m.step = "write" /\ m.run = r /\ m.then # "claimed" /\ b.claimed => ~Finished(store[r])
         /\ m.step \in {"write", "forget"} /\ m.run = r /\ m.then = "end" => f.state # "running" /\ ~d
         /\ m.step \notin {"forget", "release"}
  <2>1. ASSUME NEW thens, NEW why, Deciding(p, "main", r, o, thens, why)
        PROVE  m.step = "write" /\ m.run = r /\ m.then \in thens /\ (ClaimStep(m, r) <=> m.then = "claimed")
    BY <2>1 DEF Deciding, ClaimStep, m
  <2>2. work' = work => m = Idle
    BY <1>a DEF m
  <2>3. \/ m = Idle
        \/ /\ m.step = "write" /\ m.run = r /\ (ClaimStep(m, r) <=> m.then = "claimed")
           /\ m.then \in {"claimed", "backoff", "retry", "end", "poll"}
    BY <1>1, <2>1, <2>2
  <2>4. b.claimed /\ Finished(store[r]) => m.step # "idle" /\ m.run = r
    BY <1>a, <1>d, <1>1, <2>1
  <2>5. ASSUME f # NoExec \/ Dialling(p, r)' PROVE b.claimed /\ ~ClaimStep(m, r)
    <3>1. f = e
      BY <1>1
    <3>2. a.claimed
      BY <1>d, <1>f, <1>1, <2>5, <3>1
    <3> QED
      BY <1>g, <1>1, <2>1, <2>2, <3>2, SMTT(30)
  <2>6. m.step = "write" /\ m.then # "claimed" /\ b.claimed => ~Finished(store[r])
    <3>1. ~a.claimed => ~b.claimed \/ m.then = "claimed"
      <4>1. ASSUME Deciding(p, "main", r, o, {"claimed"}, "claim") PROVE m.then = "claimed"
        BY <2>1, <4>1, SMT
      <4> QED
        BY <1>1, <4>1
    <3> QED
      BY <1>d, <3>1
  <2>7. ASSUME m.step # "idle", m.then = "end" PROVE f.state # "running" /\ ~Dialling(p, r)'
    <3>1. \/ ~a.claimed /\ e = NoExec /\ f = e /\ calls'[p] = calls[p]
          \/ a.claimed /\ e = NoExec /\ (a.started \/ a.failure) /\ f = e /\ calls'[p] = calls[p]
          \/ f = e /\ calls'[p] = calls[p] /\ e # NoExec /\ e.state # "running"
      <4>1. work' # work
        BY <1>a, <2>2, <2>7
      <4>2. ASSUME NEW then, NEW why, Deciding(p, "main", r, o, {then}, why) PROVE then = "end"
        BY <2>1, <2>7, <4>2, SMT
      <4> QED
        BY <1>1, <4>1, <4>2
    <3> QED
      BY <1>d, <1>e, <1>f, <1>g, <3>1
  <2> QED
    BY <1>a, <2>3, <2>4, <2>5, <2>6, <2>7
<1> QED
  BY <1>a, <1>2 DEF LeaklessAt, m, b, f

\* What a worker records and cleans up keeps it.
LEMMA LeaklessWorker ==
    ASSUME Sound, NEW p \in Pods, NEW r \in Runs, r = work[p]["main"].run, LeaklessAt(p, r),
           Commit(p, "main") \/ Refused(p, "main") \/ Forget(p, "main") \/ Release(p, "main")
    PROVE  LeaklessAt(p, r)'
<1> DEFINE a == active[p][r]
           b == active'[p][r]
           e == server[p][r]
           f == server'[p][r]
           k == work[p]["main"]
           m == work'[p]["main"]
<1>a. "main" \in Workers
  BY DEF Workers
<1>b. /\ ~ClaimStep(Idle, r) /\ Idle.step = "idle" /\ ~NoClaim.claimed
  BY DEF ClaimStep, Idle, NoClaim
<1>d. a \in Claims /\ (a.claimed => a \in [claimed : {TRUE}, started : BOOLEAN, failure : BOOLEAN])
  BY ClaimRecord DEF Sound, ActiveOK
<1>e. e \in Executions /\ NoExec.state = "none"
  BY DEF Sound, ServerOK, NoExec
<1>1. CASE Commit(p, "main")
  <2>a. Committed(p, "main", k, r)
    BY <1>1, <1>a, CommitEffect
  <2>1. /\ k \in WriteSteps /\ Fits("main", k) /\ store[r] = k.from /\ store'[r] = k.to
        /\ k.from \in Objects /\ k.step = "write" /\ calls' = calls
    BY <2>a DEF Committed, WriteSteps
  <2>2. k.then # "end" => ~Finished(k.to)
    <3>1. Advances(k.from, k.to, k.then)
      BY <2>1 DEF Fits
    <3> QED
      BY <2>1, <3>1 DEF Advances, Objects, Accepted, Retried, Finished, Outcomes
  <2>3. a.claimed <=> b.claimed
    <3>1. CASE a.claimed
      BY <1>d, <2>a, <3>1 DEF Committed
    <3>2. CASE ~a.claimed
      BY <2>a, <3>2 DEF Committed
    <3> QED
      BY <3>1, <3>2
  <2>4. f.state = e.state /\ (f # NoExec => e # NoExec)
    BY <1>e, <2>a DEF Committed, Executions
  <2>5. Dialling(p, r)' = Dialling(p, r)
    BY <2>1 DEF Dialling
  <2>6. \/ m = Idle /\ k.then \in {"claimed", "backoff", "poll", "watch"}
        \/ m.step = "write" /\ m.run = r /\ m.then \in {"retry", "end"} /\ k.then = "claimed"
        \/ m = ToForget(r, k.then) /\ k.then \in {"retry", "end"}
    BY <2>a DEF Committed, Deciding, Becoming
  <2>7. k.then = "claimed" => ClaimStep(k, r)
    BY <2>1 DEF ClaimStep
  <2>8. ~ClaimStep(m, r)
    BY <1>b, <2>6, SMT DEF ClaimStep, ToForget
  <2>9. ToForget(r, k.then).step = "forget" /\ ToForget(r, k.then).run = r /\ ToForget(r, k.then).then = k.then
    BY DEF ToForget
  <2> HIDE DEF a, b, e, f, m
  <2>10. /\ e # NoExec \/ Dialling(p, r) => a.claimed /\ k.then # "claimed"
         /\ k.then = "end" => e.state # "running" /\ ~Dialling(p, r)
    BY <2>1, <2>7 DEF LeaklessAt, a, e
  <2>11. LET d == Dialling(p, r)
         IN /\ b.claimed /\ Finished(k.to) => m.step # "idle" /\ m.run = r
            /\ f # NoExec \/ d => b.claimed /\ ~ClaimStep(m, r)
            /\ m.step = "write" => ~Finished(k.to)
            /\ m.step = "forget" /\ m.then = "retry" => ~Finished(k.to)
            /\ m.step \in {"write", "forget"} /\ m.then = "end" => f.state # "running" /\ ~d
            /\ m.step # "release"
    BY <1>b, <1>e, <2>2, <2>3, <2>4, <2>6, <2>8, <2>9, <2>10
  <2> QED
    BY <2>1, <2>5, <2>11 DEF LeaklessAt, b, f, m
<1>2. CASE Refused(p, "main")
  <2>1. /\ k \in WriteSteps /\ UNCHANGED <<store, calls, server>> /\ m = Idle
        /\ b = IF k.then = "claimed" THEN NoClaim ELSE a
    BY <1>2, <1>a, RefusedEffect, SMTT(30) DEF Becoming
  <2>2. k.step = "write" /\ (k.then = "claimed" => ClaimStep(k, r)) /\ Dialling(p, r)' = Dialling(p, r)
    BY <2>1 DEF ClaimStep, WriteSteps, Dialling
  <2> QED
    BY <1>b, <2>1, <2>2 DEF LeaklessAt
<1>3. CASE Forget(p, "main")
  <2>1. /\ UNCHANGED <<store, active, calls>> /\ Swept(p, r) /\ k.step = "forget"
        /\ \/ k.then = "retry" /\ m = Idle
           \/ k.then = "end" /\ m = [step |-> "release", run |-> r]
    BY <1>3, <1>a, ForgetEffect, SMTT(30) DEF Becoming, ForgetSteps
  <2>2. ~ClaimStep(m, r) /\ ~ClaimStep(k, r) /\ Dialling(p, r)' = Dialling(p, r)
    BY <1>b, <2>1, SMTT(30) DEF ClaimStep, Dialling
  <2>3. f = IF e.state = "running" THEN e ELSE NoExec
    BY <2>1 DEF Swept
  <2>4. /\ e # NoExec \/ Dialling(p, r) => a.claimed
        /\ k.then = "retry" => ~Finished(store[r])
        /\ k.then = "end" => e.state # "running" /\ ~Dialling(p, r)
    BY <2>1, <2>2 DEF LeaklessAt
  <2>5. m.step = "release" => m.run = r
    BY <1>b, <2>1, SMTT(30)
  <2> HIDE DEF a, b, e, f, m
  <2>6. LET d == Dialling(p, r)
        IN /\ a.claimed /\ Finished(store[r]) => m.step # "idle" /\ m.run = r
           /\ f # NoExec \/ d => a.claimed /\ ~ClaimStep(m, r)
           /\ m.step \notin {"write", "forget"}
           /\ m.step = "release" => f = NoExec /\ ~d
    BY <1>b, <2>1, <2>2, <2>3, <2>4, <2>5, SMTT(30)
  <2> QED
    BY <2>1, <2>2, <2>6 DEF LeaklessAt, a, f, m
<1>4. CASE Release(p, "main")
  <2>1. /\ UNCHANGED <<store, server>> /\ k.step = "release" /\ m = Idle /\ b = NoClaim
        /\ \A c \in calls'[p] : c.run = r => \E d \in calls[p] : d.run = r /\ c = [d EXCEPT !.mine = FALSE]
    BY <1>4, <1>a, ReleaseEffect, SMT DEF Becoming, ReleaseSteps
  <2>2. e = NoExec /\ ~Dialling(p, r)
    BY <2>1 DEF LeaklessAt
  <2>3. ~Dialling(p, r)'
    <3> SUFFICES ASSUME NEW c \in calls'[p], c.run = r PROVE c.stage # "calling"
      BY DEF Dialling
    <3>1. PICK d \in calls[p] : d.run = r /\ c = [d EXCEPT !.mine = FALSE]
      BY <2>1
    <3>2. d \in Calls
      BY DEF Sound, CallsOK
    <3>3. c.stage = d.stage
      BY <3>1, <3>2 DEF Calls
    <3> QED
      BY <2>2, <3>1, <3>3 DEF Dialling
  <2> QED
    BY <1>b, <2>1, <2>2, <2>3 DEF LeaklessAt
<1> QED
  BY <1>1, <1>2, <1>3, <1>4

\* An Execute call and its answers keep it.
LEMMA LeaklessCall ==
    ASSUME Sound, NEW p \in Pods, NEW c \in calls[p], LeaklessAt(p, c.run),
           Execute(p, c) \/ ExecuteFails(p, c) \/ Started(p, c)
    PROVE  LeaklessAt(p, c.run)'
<1> DEFINE r == c.run
           a == active[p][r]
           b == active'[p][r]
           e == server[p][r]
           f == server'[p][r]
           k == work[p]["main"]
<1>1. /\ c \in Calls /\ r \in Runs /\ UNCHANGED <<store, work>>
      /\ \/ c.stage = "calling" /\ f = NewExec
         \/ f = e \/ Swept(p, r)
      /\ b = a \/ b = [a EXCEPT !.failure = TRUE]
      /\ \/ calls'[p] = (calls[p] \ {c}) \cup {[c EXCEPT !.stage = "accepted"]}
         \/ calls'[p] = calls[p] \ {c}
  BY CallEffects DEF FailedAt
<1>2. a.claimed => b.claimed
  <2>1. a \in Claims
    BY <1>1 DEF Sound, ActiveOK
  <2> HIDE DEF a
  <2>2. a.claimed => a \in [claimed : {TRUE}, started : BOOLEAN, failure : BOOLEAN]
    BY <2>1, ClaimRecord
  <2> QED
    BY <1>1, <2>2
<1>3. ~a.claimed => ~b.claimed
  <2>1. a \in Claims
    BY <1>1 DEF Sound, ActiveOK
  <2>2. ASSUME a = NoClaim PROVE ~b.claimed
    BY <1>1, <2>2, SMT DEF NoClaim
  <2> QED
    BY <2>1, <2>2 DEF Claims
<1>4. c.stage = "calling" => Dialling(p, r)
  BY DEF Dialling
<1>5. Dialling(p, r)' => Dialling(p, r)
  BY <1>1, SMT DEF Dialling, Calls
<1>6. f # NoExec => e # NoExec \/ Dialling(p, r)
  BY <1>1, <1>4 DEF Swept
<1>7. ~Dialling(p, r) => f = e \/ f = NoExec
  BY <1>1, <1>4 DEF Swept
<1>8. NoExec.state = "none"
  BY DEF NoExec
<1> HIDE DEF r, a, b, e, f, k
<1>9. LeaklessAt(p, r)
  BY DEF r
<1>10. LET d == Dialling(p, r)'
       IN /\ b.claimed /\ Finished(store[r]) => k.step # "idle" /\ k.run = r
          /\ f # NoExec \/ d => b.claimed /\ ~ClaimStep(k, r)
          /\ k.step = "write" /\ k.run = r /\ k.then # "claimed" /\ b.claimed => ~Finished(store[r])
          /\ k.step = "forget" /\ k.run = r /\ k.then = "retry" => ~Finished(store[r])
          /\ k.step \in {"write", "forget"} /\ k.run = r /\ k.then = "end" =>
                 f.state # "running" /\ ~d
          /\ k.step = "release" /\ k.run = r => f = NoExec /\ ~d
  BY <1>2, <1>3, <1>5, <1>6, <1>7, <1>8, <1>9 DEF LeaklessAt, a, e, k
<1> QED
  BY <1>1, <1>10 DEF LeaklessAt, b, f, k, r

\* Every step keeps it.
LEMMA LeaklessStep ==
    ASSUME Holding, Leakless, [Next]_vars
    PROVE  Leakless'
<1>a. Sound /\ Ordered /\ OneCall /\ Steady /\ Assigned
  BY DEF Holding, Tracking
<1>b. Quiet' = Quiet
  BY <1>a, PodsStep DEF Quiet, Undisturbed, Unhurried
<1> SUFFICES ASSUME Quiet, NEW p \in Pods, NEW s \in Runs, LeaklessAt(p, s)
             PROVE  LeaklessAt(p, s)'
  BY <1>b DEF Leakless
<1>s. Undisturbed /\ Settled(p)
  BY DEF Quiet, Holding, Kept
<1>c. ~Restart(p) /\ ~Lose(p) /\ ~RecoverList(p)
  BY <1>a, <1>s, SettledStep
<1>d. /\ \A w \in Workers : Commit(p, w) \/ Refused(p, w) \/ Forget(p, w) \/ Release(p, w) => w = "main"
      /\ ~\E t \in recovery[p].todo : RecoverRun(p, t)
  <2>1. ASSUME NEW w \in Workers, Commit(p, w) \/ Refused(p, w) \/ Forget(p, w) \/ Release(p, w)
        PROVE  work[p][w].step # "idle"
    BY <2>1 DEF Commit, Refused, Forget, Release, Writing
  <2> QED
    BY <1>s, <2>1, SMT DEF Settled, Workers, Idle
<1>e. ASSUME UNCHANGED <<active[p], calls[p], server[p], work[p]>> PROVE LeaklessAt(p, s)'
  <2>1. ASSUME NEW w \in Workers, Commit(p, w), work[p][w].run = s PROVE LeaklessAt(p, s)'
    BY <1>a, <1>d, <2>1, LeaklessWorker
  <2> QED
    BY <1>a, <1>e, <2>1, LeaklessFrame DEF Same
<1>f. ASSUME NEW r \in Runs, s # r,
             \/ Reconcile(p, r)
             \/ \E w \in Workers :
                   /\ work[p][w].run = r
                   /\ Commit(p, w) \/ Refused(p, w) \/ Forget(p, w) \/ Release(p, w)
             \/ \E c \in calls[p] :
                   c.run = r /\ (Execute(p, c) \/ ExecuteFails(p, c) \/ Started(p, c))
             \/ \E t \in recovery[p].todo : t.run = r /\ RecoverRun(p, t)
             \/ ExecutionEnds(p, r)
      PROVE  LeaklessAt(p, s)'
  <2>1. Same(p, s)
    BY <1>a, <1>f, OtherRuns
  <2>2. \A k : k.step # "idle" /\ k.run = s => (work'[p]["main"] = k <=> work[p]["main"] = k)
    BY <1>a, <1>f, OtherWork, SMTT(30) DEF Workers
  <2>3. ASSUME NEW w \in Workers, Commit(p, w), work[p][w].run = s PROVE LeaklessAt(p, s)'
    BY <1>a, <1>d, <2>3, LeaklessWorker
  <2> QED
    BY <1>a, <2>1, <2>2, <2>3, LeaklessFrame
<1>1. ASSUME NEW r \in Runs, Reconcile(p, r) PROVE LeaklessAt(p, s)'
  BY <1>a, <1>1, <1>f, LeaklessReconcile
<1>2. ASSUME NEW w \in Workers, Commit(p, w) \/ Refused(p, w) \/ Forget(p, w) \/ Release(p, w)
      PROVE  LeaklessAt(p, s)'
  <2>1. work[p][w].run \in Runs /\ w = "main"
    BY <1>a, <1>d, <1>2, WorkerRun
  <2> QED
    BY <1>a, <1>2, <1>f, <2>1, LeaklessWorker
<1>3. ASSUME NEW c \in calls[p], Execute(p, c) \/ ExecuteFails(p, c) \/ Started(p, c)
      PROVE  LeaklessAt(p, s)'
  <2>1. c.run \in Runs
    BY <1>a, <1>3, CallEffects
  <2> QED
    BY <1>a, <1>3, <1>f, <2>1, LeaklessCall
<1>4. ASSUME Wipe(p) PROVE LeaklessAt(p, s)'
  <2>1. server'[p][s] = NoExec /\ UNCHANGED <<store, active, calls, work>>
    BY <1>a, <1>4 DEF Wipe, Sound, ServerOK
  <2>2. NoExec.state = "none"
    BY DEF NoExec
  <2> QED
    BY <2>1, <2>2 DEF LeaklessAt, Dialling
<1>5. ASSUME NEW r \in Runs, ExecutionEnds(p, r) PROVE LeaklessAt(p, s)'
  <2>1. /\ UNCHANGED <<store, active, calls, work>> /\ server[p][r] # NoExec
        /\ server[p][r].state = "running" /\ server'[p][r].state # "running"
    BY <1>a, <1>5, EndEffect
  <2>2. CASE s = r
    BY <2>1, <2>2 DEF LeaklessAt, Dialling
  <2> QED
    BY <1>5, <1>f, <2>2
<1>6. ASSUME Deliver(p) \/ RecoverList(p) \/ \E r \in Runs : Relist(p, r) \/ Expire(p, r)
      PROVE  LeaklessAt(p, s)'
  BY <1>a, <1>6, <1>e, Idly
<1>7. ASSUME AtPod(p)' = AtPod(p) PROVE LeaklessAt(p, s)'
  BY <1>7, <1>e DEF AtPod
<1>8. ASSUME Runtimed(p) PROVE LeaklessAt(p, s)'
  BY <1>c, <1>d, <1>1, <1>2, <1>3, <1>6, <1>8 DEF Runtimed
<1>9. ASSUME RuntimeServer(p) PROVE LeaklessAt(p, s)'
  BY <1>4, <1>5, <1>9 DEF RuntimeServer
<1> QED
  BY <1>a, <1>c, <1>7, <1>8, <1>9, Remote

\* The invariants about claims, together with when a claim ends.
THEOREM LeaklessAlways == Spec => []Leakless
<1>1. Init => Leakless
  <2> SUFFICES ASSUME Init, NEW p \in Pods, NEW r \in Runs PROVE LeaklessAt(p, r)
    BY DEF Leakless
  <2>1. /\ "main" \in Workers /\ ~NoClaim.claimed /\ Idle.step = "idle"
        /\ ~ClaimStep(Idle, r)
    BY DEF Workers, NoClaim, Idle, ClaimStep
  <2>2. /\ work[p]["main"] = Idle /\ active[p][r] = NoClaim /\ server[p][r] = NoExec /\ calls[p] = {}
    BY <2>1 DEF Init
  <2> QED
    BY <2>1, <2>2 DEF LeaklessAt, Dialling
<1>2. Holding /\ Leakless /\ [Next]_vars => Leakless'
  BY LeaklessStep
<1> QED
  BY <1>1, <1>2, ClaimingAlways, PTL DEF Spec

\* Undisturbed, the claims of a runtimed are those of the Runs it has in hand: a
\* Running Run is claimed, and unhurried a claim ends with its Run.
THEOREM ClaimsFollowRuns == Spec => []ClaimsMatchRuns
<1>1. Holding /\ Leakless => NoLeakedClaim
  <2> SUFFICES ASSUME Holding, Leakless, Quiet, NEW p \in Pods, NEW r \in Runs, active[p][r].claimed,
                      store[r].phase \notin {"Scheduled", "Running"}
               PROVE  work[p]["main"].step # "idle" /\ work[p]["main"].run = r
    BY DEF NoLeakedClaim, Quiet
  <2>1. Engaged(p, r) /\ NoSilence
    BY DEF Engaged, Quiet, Undisturbed, NoSilence
  <2>2. store[r] \in Objects /\ store[r].pod = p /\ p # NoPod
    BY <2>1, TaskAssumption DEF Holding, Tracking, Sound, StoreOK, Assigned
  <2>3. store[r].phase # "Pending"
    BY <2>2 DEF Holding, Steady
  <2>4. Finished(store[r])
    BY <2>2, <2>3 DEF Objects, Phases, Finished
  <2> QED
    BY <2>4 DEF Leakless, LeaklessAt
<1> QED
  BY <1>1, ClaimingAlways, LeaklessAlways, RunningIsClaimed, TypeCorrect, PTL DEF ClaimsMatchRuns

------------------------------------------------------------------------------
(* No execution is replaced.                                                *)

LOCAL INSTANCE FiniteSetTheorems

\* Execute never replaces, and so never kills, a running execution: there is at most
\* one call per Run and Pod, and none that is still to be made while an execution is
\* there, whatever fails, restarts, is cancelled or is delivered late.
THEOREM NoExecutionReplaced == Spec => NeverKillsLiveExecution
<1> DEFINE A == \A p \in Pods, r \in Runs :
                   server[p][r].state = "running" /\ server'[p][r].state = "running"
                      => Cardinality({c \in calls[p] : c.run = r /\ c.stage = "calling"})
                           <= Cardinality({c \in calls'[p] : c.run = r /\ c.stage = "calling"})
<1>1. Tracking /\ Tracking' => A
  <2> SUFFICES ASSUME Tracking, Tracking', NEW p \in Pods, NEW r \in Runs,
                      server[p][r].state = "running"
               PROVE  Cardinality({c \in calls[p] : c.run = r /\ c.stage = "calling"})
                        <= Cardinality({c \in calls'[p] : c.run = r /\ c.stage = "calling"})
    OBVIOUS
  <2>1. server[p][r] # NoExec
    BY SMT DEF NoExec
  <2>2. {c \in calls[p] : c.run = r /\ c.stage = "calling"} = {}
    <3>1. \A c \in calls[p] : c.run = r => CallOK(p, c)
      BY DEF Tracking, OneCall, CallsAt
    <3>2. \A c \in calls[p] : ~(c.run = r /\ c.stage = "calling")
      BY <2>1, <3>1 DEF CallOK
    <3> QED
      BY <3>2
  <2> DEFINE S == {c \in calls'[p] : c.run = r /\ c.stage = "calling"}
  <2>3. \A c, d \in S : c = d
    BY DEF Tracking, OneCall, CallsAt
  <2>4. S = {} \/ \E c : S = {c}
    BY <2>3
  <2> HIDE DEF S
  <2>5. Cardinality(S) \in Nat
    <3>1. Cardinality({}) = 0
      BY FS_EmptySet
    <3>2. \A c : Cardinality({c}) = 1
      BY FS_Singleton
    <3>3. 0 \in Nat /\ 1 \in Nat
      OBVIOUS
    <3> QED
      BY <2>4, <3>1, <3>2, <3>3
  <2>6. Cardinality({c \in calls[p] : c.run = r /\ c.stage = "calling"}) = 0
    BY <2>2, FS_EmptySet
  <2>7. \A n \in Nat : 0 <= n
    BY SMT
  <2> QED
    BY <2>5, <2>6, <2>7 DEF S
<1> QED
  BY <1>1, TrackingAlways, PTL DEF NeverKillsLiveExecution
===============================================================================
