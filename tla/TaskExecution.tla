---------------------------- MODULE TaskExecution ----------------------------
(***************************************************************************)
(* Task Runs on their Runtime Pods (internal/runtimed, the Runtime Server  *)
(* of runtimes/bash and the stale reaper of internal/controller).          *)
(*                                                                         *)
(* Every Pod has a runtimed with a Run cache fed by watch events, a work   *)
(* queue served by one reconcile worker, a startup recovery that runs      *)
(* beside it, the claims of activeRuns, and one goroutine per Execute call *)
(* in flight. Its Runtime Server keeps executions by Run UID.              *)
(*                                                                         *)
(* A status update carries the version that was read; no sequence of       *)
(* updates gives a Run the same value twice, so a version is current       *)
(* exactly when the object is equal to the stored one.                     *)
(***************************************************************************)
EXTENDS Naturals, Sequences, FiniteSets

CONSTANTS
    Runs, Pods, NoPod,
    Capacity,     \* workers of each Pod's runtimed (Controller.capacity)
    MaxAttempts,  \* largest retry budget
    Scenarios     \* what may happen in one behaviour (env)

FaultKinds == {"restart",   \* the runtimed container restarts
               "wipe",      \* the Runtime Server container restarts
               "silence",   \* a live Pod looks stale to the reaper
               "loss",      \* a Pod disappears
               "refusal",   \* staging or Execute fails
               "noreply",   \* Execute is accepted but its answer is late
               "noStatus",  \* Status of an execution does not answer
               "apiError"}  \* a status update fails without a conflict

\* env, one of Scenarios: the Runs of runs are of this Runtime, whose Pods are
\* pods; those of timed have a spec.timeout, the source of those of badSource
\* cannot be prepared, a user may terminate or delete those of withdrawn; attempts
\* is their retry budget (every failure reason is retryable); ending: commands end
\* by themselves. kinds are the kinds of fault that may happen and budget bounds
\* their number; lag bounds the undelivered watch events of one Pod.
ASSUME TaskAssumption ==
    /\ IsFiniteSet(Runs) /\ NoPod \notin Pods
    /\ Capacity \in Nat \ {0} /\ MaxAttempts \in Nat \ {0}
    /\ \A s \in Scenarios :
         /\ s.runs \cup s.timed \cup s.badSource \cup s.withdrawn \subseteq Runs
         /\ s.pods \subseteq Pods /\ s.attempts \in 1 .. MaxAttempts
         /\ s.kinds \subseteq FaultKinds /\ s.budget \in Nat /\ s.lag \in Nat \ {0}

VARIABLES
    env,
    store,     \* the Runs in the API server
    cache,     \* each Pod's Run cache
    inbox,     \* watch events on their way to each Pod
    queue,     \* keys in each runtimed's work queue
    active,    \* activeRuns: the claims of each runtimed
    expired,   \* Runs whose deadline has passed at the Pod
    calls,     \* Execute goroutines
    server,    \* executions of each Runtime Server
    work,      \* what the reconcile worker and the recovery are in the middle of
    recovery,  \* what is left of each startup recovery
    pods,      \* how each Pod looks to the control plane
    faults     \* faults so far

state == <<store, cache, inbox, queue, active, expired, calls, server, work,
           recovery, pods, faults>>
vars == <<env, state>>
local == <<cache, queue, active, expired, calls, server, work, recovery>>

Outcomes == {"Succeeded", "Failed", "Timeout", "Cancelled"}
Phases == {"Pending", "Scheduled", "Running", "Deleted"} \cup Outcomes

\* running, accepted: the Running and RuntimeAccepted conditions are True;
\* cancel: spec.HasImmediateTermination.
Objects == [phase : Phases, pod : Pods \cup {NoPod}, attempt : 1 .. MaxAttempts,
            running : BOOLEAN, accepted : BOOLEAN, cancel : BOOLEAN]

NewRun == [phase |-> "Pending", pod |-> NoPod, attempt |-> 1,
           running |-> FALSE, accepted |-> FALSE, cancel |-> FALSE]

NoClaim == [claimed |-> FALSE]
Claimed(started) == [claimed |-> TRUE, started |-> started, failure |-> FALSE]
Claims == {NoClaim} \cup [claimed : {TRUE}, started : BOOLEAN, failure : BOOLEAN]

\* counted (history): a failed attempt was already recorded from this result.
NoExec == [state |-> "none"]
NewExec == [state |-> "running", counted |-> FALSE]
Counted(e) == e # NoExec /\ e.counted
Executions == {NoExec} \cup [state : {"running", "succeeded", "failed"}, counted : BOOLEAN]

\* mine: the claim the goroutine started from is still the one in activeRuns.
Calls == [run : Runs, stage : {"calling", "accepted"}, mine : BOOLEAN]

Workers == {"main", "recovery"}
Idle == [step |-> "idle"]

Alive(p) == pods[p] # "gone"
Fault(k) == k \in env.kinds /\ faults < env.budget /\ faults' = faults + 1
NoFault == UNCHANGED faults

------------------------------------------------------------------------------
(* The API server.                                                          *)

CanPut == \A p \in Pods : Len(inbox[p]) < env.lag
Put(r, o) ==
    /\ store' = [store EXCEPT ![r] = o]
    /\ inbox' = [p \in Pods |-> IF Alive(p) THEN Append(inbox[p], <<r, o>>) ELSE <<>>]

\* (Mutant of Current: updates without optimistic concurrency.)
LastWriteWins(r, o) == TRUE

\* Optimistic concurrency: the object in hand is the stored one.
Current(r, o) == store[r] = o

\* runFilter: an update is queued where the Run is assigned.
Deliver(p) ==
    /\ inbox[p] # <<>>
    /\ LET r == Head(inbox[p])[1]
           o == Head(inbox[p])[2]
       IN /\ cache' = [cache EXCEPT ![p][r] = o]
          /\ queue' = IF o.pod = p /\ o.phase # "Deleted"
                      THEN [queue EXCEPT ![p] = @ \cup {r}] ELSE queue
    /\ inbox' = [inbox EXCEPT ![p] = Tail(@)]
    /\ UNCHANGED <<store, active, expired, calls, server, work, recovery, pods, faults>>

------------------------------------------------------------------------------
(* Status updates of runtimed. A reconcile that decides on one leaves it in *)
(* work; Commit or Refused is its outcome.                                  *)

Write(p, w, r, from, to, then, why) ==
    work' = [work EXCEPT ![p][w] = [step |-> "write", run |-> r, from |-> from, to |-> to,
                                    then |-> then, why |-> why]]

Ended(o, phase) == [o EXCEPT !.phase = phase, !.running = FALSE]

\* applyFailureWithOutput: retry while the budget lasts, end otherwise.
ShouldRetry(o) == o.attempt < env.attempts
Retried(o) == [o EXCEPT !.attempt = @ + 1, !.running = FALSE]
Fail(p, w, r, from, o, why) ==
    IF ShouldRetry(o)
    THEN Write(p, w, r, from, Retried(o), "retry", why)
    ELSE Write(p, w, r, from, Ended(o, IF why = "timeout" THEN "Timeout" ELSE "Failed"),
               "end", why)

Accepted(o) == [o EXCEPT !.accepted = TRUE]

\* applySuccess; invalid outputs or artifacts end the Run without a retry.
Succeed(p, w, r, o) ==
    \E phase \in {"Succeeded", "Failed"} :
        Write(p, w, r, o, Ended(Accepted(o), phase), "end", "done")

Enqueue(p, r) == queue' = [queue EXCEPT ![p] = @ \cup {r}]
Dequeue(p, r) == queue' = [queue EXCEPT ![p] = @ \ {r}]
SetWork(p, w, s) == work' = [work EXCEPT ![p][w] = s]

\* (Mutant of ToForget: every failure is cleaned up as if it were retried.)
ForgetOnly(r, then) == [step |-> "forget", run |-> r, then |-> "retry"]

\* What is left of scheduleRetry and of cleanup once the status is persisted.
ToForget(r, then) == [step |-> "forget", run |-> r, then |-> then]

Writing(p, w) == Alive(p) /\ work[p][w].step = "write"

\* The update is accepted. After a claim the source is prepared; a recorded
\* failure or end goes on to release the execution.
Commit(p, w) ==
    /\ Writing(p, w) /\ CanPut
    /\ LET k == work[p][w]
           r == k.run
       IN /\ Current(r, k.from)
          /\ Put(r, k.to)
          /\ \/ /\ k.then = "claimed" /\ r \in env.badSource
                /\ Fail(p, w, r, k.to, k.to, "source") /\ UNCHANGED <<queue, active>>
             \/ /\ k.then = "claimed" /\ r \notin env.badSource
                /\ SetWork(p, w, Idle) /\ Enqueue(p, r) /\ UNCHANGED active
             \/ /\ k.then = "backoff"
                /\ SetWork(p, w, Idle) /\ Enqueue(p, r)
                /\ active' = [active EXCEPT ![p][r] = IF @.claimed THEN [@ EXCEPT !.started = FALSE]
                                                      ELSE @]
             \/ /\ k.then = "poll"
                /\ SetWork(p, w, Idle) /\ Enqueue(p, r) /\ UNCHANGED active
             \/ /\ k.then = "watch"
                /\ SetWork(p, w, Idle) /\ UNCHANGED <<queue, active>>
             \/ /\ k.then \in {"retry", "end"}
                /\ SetWork(p, w, ToForget(r, k.then))
                /\ UNCHANGED <<queue, active>>
          /\ server' = IF k.why = "result" /\ server[p][r] # NoExec
                       THEN [server EXCEPT ![p][r].counted = TRUE] ELSE server
    /\ UNCHANGED <<cache, expired, calls, recovery, pods>> /\ NoFault

\* unclaimActiveRun: only a claim that was not persisted is dropped.
Unclaims(k) == k.then = "claimed"

\* The update is refused: the reconcile fails and its key is queued again.
Refused(p, w) ==
    /\ Writing(p, w)
    /\ LET k == work[p][w]
           r == k.run
       IN /\ \/ ~Current(r, k.from) /\ NoFault
             \/ Fault("apiError")
          /\ SetWork(p, w, Idle)
          /\ IF w = "main" THEN Enqueue(p, r) ELSE UNCHANGED queue
          /\ active' = IF Unclaims(k) THEN [active EXCEPT ![p][r] = NoClaim] ELSE active
    /\ UNCHANGED <<store, cache, inbox, expired, calls, server, recovery, pods>>

------------------------------------------------------------------------------
(* Releasing an execution.                                                  *)

\* (Mutant of Forgotten: the result of a failed attempt is kept.)
ResultKept(p, r) == UNCHANGED server

\* forgetTaskExecution: Forget is refused while the execution runs, and given
\* up after a while.
Forgotten(p, r) ==
    server' = [server EXCEPT ![p][r] = IF @.state = "running" THEN @ ELSE NoExec]

\* The second half of scheduleRetry and of cleanup.
Forget(p, w) ==
    /\ Alive(p) /\ work[p][w].step = "forget"
    /\ LET r == work[p][w].run
       IN /\ Forgotten(p, r)
          /\ \/ /\ work[p][w].then = "retry"
                /\ SetWork(p, w, Idle) /\ Enqueue(p, r)
             \/ /\ work[p][w].then = "end"
                /\ SetWork(p, w, [step |-> "release", run |-> r]) /\ UNCHANGED queue
    /\ UNCHANGED <<store, cache, inbox, active, expired, calls, recovery, pods>> /\ NoFault

\* releaseLocalRunState: from here on a call in flight belongs to no claim.
Release(p, w) ==
    /\ Alive(p) /\ work[p][w].step = "release"
    /\ LET r == work[p][w].run
       IN /\ active' = [active EXCEPT ![p][r] = NoClaim]
          /\ calls' = [calls EXCEPT ![p] = {[c EXCEPT !.mine = @ /\ c.run # r] : c \in @}]
    /\ SetWork(p, w, Idle)
    /\ UNCHANGED <<store, cache, inbox, queue, expired, server, recovery, pods>> /\ NoFault

\* cancelRuntimeExecution: Cancel kills the execution and drops it; a kill that
\* takes too long leaves it.
Cancelled(p, r) ==
    \/ server' = [server EXCEPT ![p][r] = NoExec]
    \/ server[p][r].state = "running" /\ UNCHANGED server

------------------------------------------------------------------------------
(* Reconcile of one key: o is the Run in the cache.                         *)

Take(p, r) == /\ Alive(p) /\ work[p]["main"] = Idle /\ r \in queue[p]
              /\ UNCHANGED <<store, cache, inbox, recovery, pods>> /\ NoFault

Holds(p) == {r \in Runs : active[p][r].claimed}

\* tryClaimActiveRun, among Task Runs.
HasRoom(p) == Cardinality(Holds(p)) < Capacity

\* Terminal and Pending Runs, and a Scheduled Run that already has a claim.
Ignore(p, r) ==
    /\ Take(p, r) /\ Dequeue(p, r)
    /\ \/ cache[p][r].phase \in Outcomes \cup {"Pending"}
       \/ cache[p][r].phase = "Scheduled" /\ active[p][r].claimed
       \/ cache[p][r].phase = "Deleted" /\ ~active[p][r].claimed
    /\ UNCHANGED <<active, expired, calls, server, work>>

\* cleanupDeletedRun.
CleanupDeleted(p, r) ==
    /\ Take(p, r) /\ Dequeue(p, r)
    /\ cache[p][r].phase = "Deleted" /\ active[p][r].claimed
    /\ SetWork(p, "main", ToForget(r, "end"))
    /\ UNCHANGED <<active, expired, calls, server>>

\* reconcileScheduled: a Run without a claim is cancelled or claimed; without
\* room it stays queued.
ReconcileScheduled(p, r) ==
    /\ Take(p, r) /\ Dequeue(p, r)
    /\ LET o == cache[p][r]
       IN /\ o.phase = "Scheduled" /\ ~active[p][r].claimed
          /\ \/ /\ o.cancel
                /\ Write(p, "main", r, o, Ended(o, "Cancelled"), "end", "cancel")
                /\ UNCHANGED <<active, expired>>
             \/ /\ ~o.cancel /\ HasRoom(p)
                /\ active' = [active EXCEPT ![p][r] = Claimed(FALSE)]
                /\ expired' = [expired EXCEPT ![p] = @ \ {r}]
                /\ Write(p, "main", r, o, [o EXCEPT !.phase = "Running", !.running = TRUE,
                                                    !.accepted = FALSE], "claimed", "claim")
    /\ UNCHANGED <<calls, server>>

\* reconcileRunningRecovered: a Running Run this process holds no claim for.
Recovered(p, w, r, o) ==
    \/ /\ server[p][r] = NoExec
       /\ Fail(p, w, r, o, o, "lost") /\ UNCHANGED active
    \/ /\ server[p][r] # NoExec
       /\ active' = [active EXCEPT ![p][r] = Claimed(TRUE)]
       /\ \/ server[p][r].state = "succeeded" /\ Succeed(p, w, r, o)
          \/ server[p][r].state = "failed" /\ Fail(p, w, r, o, Accepted(o), "result")
          \/ /\ server[p][r].state = "running"
             /\ IF o.accepted THEN UNCHANGED work
                ELSE Write(p, w, r, o, Accepted(o), "watch", "accept")

ReconcileRecovered(p, r) ==
    /\ Take(p, r) /\ Dequeue(p, r)
    /\ cache[p][r].phase = "Running" /\ ~active[p][r].claimed
    /\ Recovered(p, "main", r, cache[p][r])
    /\ UNCHANGED <<expired, calls, server>>

\* The same when Status gives no answer: the Run is taken on unchecked and its
\* key is queued again.
StatusFails(p, r) ==
    /\ Take(p, r) /\ UNCHANGED queue /\ "noStatus" \in env.kinds
    /\ cache[p][r].phase = "Running" /\ ~active[p][r].claimed
    /\ active' = [active EXCEPT ![p][r] = Claimed(TRUE)]
    /\ UNCHANGED <<expired, calls, server, work>>

\* (Mutant of TerminationDue: only looked at before the command starts.)
DueBeforeStart(p, r) == cache[p][r].cancel /\ ~active[p][r].started

\* HasImmediateTermination, which takes priority over everything else.
TerminationDue(p, r) == cache[p][r].cancel

RunningWithClaim(p, r) == cache[p][r].phase = "Running" /\ active[p][r].claimed

\* applyCancel.
ReconcileCancel(p, r) ==
    /\ Take(p, r) /\ Dequeue(p, r)
    /\ RunningWithClaim(p, r) /\ TerminationDue(p, r)
    /\ Cancelled(p, r)
    /\ Write(p, "main", r, cache[p][r], Ended(cache[p][r], "Cancelled"), "end", "cancel")
    /\ UNCHANGED <<active, expired, calls>>

\* reconcileRetryBackoff once the backoff has expired.
ReconcileBackoff(p, r) ==
    /\ Take(p, r) /\ Dequeue(p, r)
    /\ RunningWithClaim(p, r) /\ ~TerminationDue(p, r) /\ ~cache[p][r].running
    /\ Write(p, "main", r, cache[p][r],
             [cache[p][r] EXCEPT !.running = TRUE, !.accepted = FALSE], "backoff", "backoff")
    /\ UNCHANGED <<active, expired, calls, server>>

Attempting(p, r) == RunningWithClaim(p, r) /\ ~TerminationDue(p, r) /\ cache[p][r].running

\* handleTimeout.
ReconcileTimeout(p, r) ==
    /\ Take(p, r) /\ Dequeue(p, r)
    /\ Attempting(p, r) /\ r \in expired[p]
    /\ Cancelled(p, r)
    /\ Fail(p, "main", r, cache[p][r], cache[p][r], "timeout")
    /\ UNCHANGED <<active, expired, calls>>

\* (Mutant of Missing: the local observation instead of the Status answer.)
NotObserved(p, r) == ~active[p][r].started

\* pollStatus answers NotFound.
Missing(p, r) == server[p][r] = NoExec

InFlight(p, r) == \E c \in calls[p] : c.run = r /\ c.mine

\* startExecutionAsync; the key is queued again.
StartExecution(p, r) ==
    /\ Take(p, r) /\ UNCHANGED queue
    /\ Attempting(p, r) /\ r \notin expired[p] /\ Missing(p, r)
    /\ ~active[p][r].started /\ ~active[p][r].failure /\ ~InFlight(p, r)
    /\ calls' = [calls EXCEPT ![p] = @ \cup {[run |-> r, stage |-> "calling", mine |-> TRUE]}]
    /\ UNCHANGED <<active, expired, server, work>>

\* The execution is not there: its start failed, or it was seen and is lost.
ReconcileMissing(p, r) ==
    /\ Take(p, r) /\ Dequeue(p, r)
    /\ Attempting(p, r) /\ r \notin expired[p] /\ Missing(p, r)
    /\ \/ /\ active[p][r].started
          /\ Fail(p, "main", r, cache[p][r], cache[p][r], "lost") /\ UNCHANGED active
       \/ /\ ~active[p][r].started /\ active[p][r].failure
          /\ Fail(p, "main", r, cache[p][r], cache[p][r], "start")
          /\ active' = [active EXCEPT ![p][r].failure = FALSE]
    /\ UNCHANGED <<expired, calls, server>>

\* The rest of reconcileRunningActive: the execution is there.
ReconcileActive(p, r) ==
    /\ Take(p, r)
    /\ Attempting(p, r) /\ r \notin expired[p]
    /\ LET o == cache[p][r]
       IN \/ /\ server[p][r].state = "running"
             /\ ~active[p][r].started \/ ~o.accepted
             /\ active' = [active EXCEPT ![p][r].started = TRUE]
             /\ IF o.accepted THEN UNCHANGED <<queue, work>>
                ELSE Dequeue(p, r) /\ Write(p, "main", r, o, Accepted(o), "poll", "accept")
          \/ /\ server[p][r].state = "succeeded"
             /\ Succeed(p, "main", r, o) /\ Dequeue(p, r) /\ UNCHANGED active
          \/ /\ server[p][r].state = "failed"
             /\ Fail(p, "main", r, o, Accepted(o), "result") /\ Dequeue(p, r) /\ UNCHANGED active
    /\ UNCHANGED <<expired, calls, server>>

Reconcile(p, r) ==
    \/ Ignore(p, r) \/ CleanupDeleted(p, r) \/ ReconcileScheduled(p, r)
    \/ ReconcileRecovered(p, r) \/ StatusFails(p, r) \/ ReconcileCancel(p, r)
    \/ ReconcileBackoff(p, r)
    \/ ReconcileTimeout(p, r) \/ StartExecution(p, r) \/ ReconcileMissing(p, r)
    \/ ReconcileActive(p, r)

\* (Mutant of Relist: only a lost execution is noticed.)
RelistLost(p, r) ==
    /\ Alive(p) /\ active[p][r].claimed /\ active[p][r].started /\ r \notin queue[p]
    /\ server[p][r] = NoExec
    /\ Enqueue(p, r)
    /\ UNCHANGED <<store, cache, inbox, active, expired, calls, server, work, recovery,
                   pods, faults>>

\* The relist of the Run lifecycle event generator queues a started Run whose
\* execution has ended or is gone, or whose deadline has passed.
Relist(p, r) ==
    /\ Alive(p) /\ active[p][r].claimed /\ active[p][r].started /\ r \notin queue[p]
    /\ server[p][r].state # "running" \/ r \in expired[p]
    /\ Enqueue(p, r)
    /\ UNCHANGED <<store, cache, inbox, active, expired, calls, server, work, recovery,
                   pods, faults>>

------------------------------------------------------------------------------
(* The Execute goroutines and the Runtime Server.                           *)

Drop(p, c) == calls' = [calls EXCEPT ![p] = @ \ {c}]

\* finishExecutionStart with a failure, and enqueueRun.
RecordFailure(p, c) ==
    /\ Drop(p, c)
    /\ active' = IF c.mine THEN [active EXCEPT ![p][c.run].failure = TRUE] ELSE active
    /\ Enqueue(p, c.run)

Calling(p, c) == /\ Alive(p) /\ c \in calls[p]
                 /\ UNCHANGED <<store, cache, inbox, expired, work, recovery, pods>>

\* Execute replaces whatever execution the server has under this UID.
Execute(p, c) ==
    /\ Calling(p, c) /\ c.stage = "calling"
    /\ server' = [server EXCEPT ![p][c.run] = NewExec]
    /\ \/ /\ calls' = [calls EXCEPT ![p] = (@ \ {c}) \cup {[c EXCEPT !.stage = "accepted"]}]
          /\ UNCHANGED <<queue, active>> /\ NoFault
       \/ Fault("noreply") /\ RecordFailure(p, c)

\* Staging the inputs, or Execute, fails.
ExecuteFails(p, c) ==
    /\ Calling(p, c) /\ c.stage = "calling" /\ Fault("refusal")
    /\ RecordFailure(p, c) /\ UNCHANGED server

\* The goroutine finds its claim, or forgets the execution nobody waits for.
Started(p, c) ==
    /\ Calling(p, c) /\ c.stage = "accepted" /\ Drop(p, c)
    /\ \/ c.mine /\ Enqueue(p, c.run) /\ UNCHANGED server
       \/ ~c.mine /\ Forgotten(p, c.run) /\ UNCHANGED queue
    /\ UNCHANGED active /\ NoFault

\* The command ends.
ExecutionEnds(p, r) ==
    /\ server[p][r].state = "running"
    /\ \E s \in {"succeeded", "failed"} : server' = [server EXCEPT ![p][r].state = s]
    /\ UNCHANGED <<store, cache, inbox, queue, active, expired, calls, work, recovery,
                   pods, faults>>

\* The Runtime Server restarts without its executions.
Wipe(p) ==
    /\ Alive(p) /\ Fault("wipe")
    /\ server' = [server EXCEPT ![p] = [r \in Runs |-> NoExec]]
    /\ UNCHANGED <<store, cache, inbox, queue, active, expired, calls, work, recovery, pods>>

\* The deadline of a claimed Run passes.
Expire(p, r) ==
    /\ r \in env.timed \ expired[p] /\ active[p][r].claimed
    /\ expired' = [expired EXCEPT ![p] = @ \cup {r}]
    /\ UNCHANGED <<store, cache, inbox, queue, active, calls, server, work, recovery,
                   pods, faults>>

------------------------------------------------------------------------------
(* Restart and startup recovery of runtimed.                                *)

\* drainActiveRunsOnShutdown: the results of the Pod's active Runs are forgotten.
Drained(p) == [r \in Runs |-> IF store[r].pod = p /\ store[r].phase = "Running"
                                   /\ server[p][r].state # "running"
                               THEN NoExec ELSE server[p][r]]

\* The process is killed, or drains and stops. A new one lists the Runs; claims
\* and goroutines are gone, the Runtime Server goes on.
Restart(p) ==
    /\ Alive(p) /\ Fault("restart")
    /\ UNCHANGED server \/ server' = [server EXCEPT ![p] = Drained(p)]
    /\ cache' = [cache EXCEPT ![p] = store] /\ inbox' = [inbox EXCEPT ![p] = <<>>]
    /\ queue' = [queue EXCEPT ![p] = {r \in Runs : store[r].pod = p /\ store[r].phase # "Deleted"}]
    /\ active' = [active EXCEPT ![p] = [r \in Runs |-> NoClaim]]
    /\ calls' = [calls EXCEPT ![p] = {}]
    /\ work' = [work EXCEPT ![p] = [w \in Workers |-> Idle]]
    /\ recovery' = [recovery EXCEPT ![p] = [listed |-> FALSE, todo |-> {}]]
    /\ UNCHANGED <<store, expired, pods>>

Recovering(p) == /\ Alive(p) /\ work[p]["recovery"] = Idle
                 /\ UNCHANGED <<store, cache, inbox, queue, expired, calls, server, pods,
                                faults>>

\* recoverActiveRunsOnce lists the executions and the Running Runs of the Pod.
RecoverList(p) ==
    /\ Recovering(p) /\ ~recovery[p].listed
    /\ LET mine == {r \in Runs : store[r].pod = p /\ store[r].phase = "Running"}
       IN recovery' = [recovery EXCEPT ![p] =
              [listed |-> TRUE,
               todo |-> {[run |-> r, obj |-> store[r], there |-> server[p][r] # NoExec] : r \in mine}]]
    /\ UNCHANGED <<active, work>>

\* One Run of the list: claimed meanwhile, not there, or taken on unchecked
\* because it was listed or because Status gives no answer (addRecoveredRun).
RecoverRun(p, t) ==
    /\ Recovering(p) /\ t \in recovery[p].todo
    /\ recovery' = [recovery EXCEPT ![p].todo = @ \ {t}]
    /\ \/ active[p][t.run].claimed /\ UNCHANGED <<active, work>>
       \/ /\ ~active[p][t.run].claimed /\ ~t.there
          /\ Recovered(p, "recovery", t.run, t.obj)
       \/ /\ ~active[p][t.run].claimed /\ (t.there \/ "noStatus" \in env.kinds)
          /\ active' = [active EXCEPT ![p][t.run] = Claimed(TRUE)] /\ UNCHANGED work

------------------------------------------------------------------------------
(* The control plane.                                                       *)

Update(r, o) == CanPut /\ Put(r, o) /\ UNCHANGED local /\ UNCHANGED pods /\ NoFault

\* The scheduler (see Scheduler): it binds to a healthy Pod with a free slot,
\* and cancels a Pending Run on request.
Bind(r, p) ==
    /\ r \in env.runs /\ store[r].phase = "Pending" /\ ~store[r].cancel /\ pods[p] = "healthy"
    /\ Cardinality({q \in Runs : store[q].pod = p /\ store[q].phase \in {"Scheduled", "Running"}})
         < Capacity
    /\ Update(r, [store[r] EXCEPT !.phase = "Scheduled", !.pod = p])

CancelPending(r) == /\ store[r].phase = "Pending" /\ store[r].cancel
                    /\ Update(r, Ended(store[r], "Cancelled"))

\* (Mutant of Monitored: only Runs with attempts left.)
MonitoredIfRetryable(o) == o.phase = "Running" /\ ShouldRetry(o)

\* The stale reaper (handleStaleRun): the phases isStaleMonitoredRunPhase
\* names, on a Pod that is gone or whose heartbeat looks stale.
Monitored(o) == o.phase = "Running"
Reap(r) ==
    /\ Monitored(store[r]) /\ pods[store[r].pod] # "healthy"
    /\ Update(r, IF ShouldRetry(store[r])
                 THEN [Retried(store[r]) EXCEPT !.phase = "Pending", !.pod = NoPod]
                 ELSE Ended(store[r], "Failed"))

RequestTermination(r) == /\ r \in env.withdrawn /\ store[r].phase # "Deleted" /\ ~store[r].cancel
                         /\ Update(r, [store[r] EXCEPT !.cancel = TRUE])

Delete(r) == /\ r \in env.withdrawn /\ store[r].phase # "Deleted"
             /\ Update(r, [store[r] EXCEPT !.phase = "Deleted"])

\* The heartbeat of a live Pod is late, and comes back.
Silence(p) == /\ pods[p] = "healthy" /\ Fault("silence")
              /\ pods' = [pods EXCEPT ![p] = "silent"]
              /\ UNCHANGED local /\ UNCHANGED <<store, inbox>>

Heartbeat(p) == /\ pods[p] = "silent" /\ pods' = [pods EXCEPT ![p] = "healthy"]
                /\ UNCHANGED local /\ UNCHANGED <<store, inbox>> /\ NoFault

\* A Pod is lost with everything in it.
Lose(p) ==
    /\ Alive(p) /\ Fault("loss")
    /\ pods' = [pods EXCEPT ![p] = "gone"]
    /\ inbox' = [inbox EXCEPT ![p] = <<>>] /\ queue' = [queue EXCEPT ![p] = {}]
    /\ active' = [active EXCEPT ![p] = [r \in Runs |-> NoClaim]]
    /\ expired' = [expired EXCEPT ![p] = {}] /\ calls' = [calls EXCEPT ![p] = {}]
    /\ server' = [server EXCEPT ![p] = [r \in Runs |-> NoExec]]
    /\ work' = [work EXCEPT ![p] = [w \in Workers |-> Idle]]
    /\ recovery' = [recovery EXCEPT ![p] = [listed |-> TRUE, todo |-> {}]]
    /\ UNCHANGED <<store, cache>>

------------------------------------------------------------------------------

Init ==
    /\ env \in Scenarios
    /\ store = [r \in Runs |-> NewRun]
    /\ cache = [p \in Pods |-> store]
    /\ inbox = [p \in Pods |-> <<>>]
    /\ queue = [p \in Pods |-> {}]
    /\ active = [p \in Pods |-> [r \in Runs |-> NoClaim]]
    /\ expired = [p \in Pods |-> {}]
    /\ calls = [p \in Pods |-> {}]
    /\ server = [p \in Pods |-> [r \in Runs |-> NoExec]]
    /\ work = [p \in Pods |-> [w \in Workers |-> Idle]]
    /\ recovery = [p \in Pods |-> [listed |-> TRUE, todo |-> {}]]
    /\ pods = [p \in Pods |-> IF p \in env.pods THEN "healthy" ELSE "gone"]
    /\ faults = 0

Runtimed(p) ==
    \/ Deliver(p)
    \/ \E w \in Workers : Commit(p, w) \/ Refused(p, w) \/ Forget(p, w) \/ Release(p, w)
    \/ \E r \in Runs : Reconcile(p, r) \/ Relist(p, r) \/ Expire(p, r)
    \/ \E c \in calls[p] : Execute(p, c) \/ ExecuteFails(p, c) \/ Started(p, c)
    \/ Restart(p) \/ RecoverList(p)
    \/ \E t \in recovery[p].todo : RecoverRun(p, t)

RuntimeServer(p) == Wipe(p) \/ \E r \in Runs : ExecutionEnds(p, r)

ControlPlane ==
    \/ \E r \in Runs : \/ CancelPending(r) \/ Reap(r) \/ RequestTermination(r) \/ Delete(r)
                       \/ \E p \in Pods : Bind(r, p)
    \/ \E p \in Pods : Silence(p) \/ Heartbeat(p) \/ Lose(p)

Next == /\ ControlPlane \/ \E p \in Pods : Runtimed(p) \/ RuntimeServer(p)
        /\ UNCHANGED env

Spec == Init /\ [][Next]_vars

\* Watches deliver, queued keys are served, updates and calls end, the
\* scheduler binds and the reaper reaps. Faults, users and deadlines owe
\* nothing; commands end where env says so.
Fairness ==
    /\ \A p \in Pods :
         /\ WF_state(Deliver(p))
         /\ \A w \in Workers : WF_state(\/ Commit(p, w) \/ Refused(p, w)
                                        \/ Forget(p, w) \/ Release(p, w))
         /\ \A r \in Runs : SF_state(Reconcile(p, r)) /\ WF_state(Relist(p, r))
         /\ WF_state(\E c \in calls[p] : Execute(p, c) \/ Started(p, c))
         /\ WF_state(RecoverList(p) \/ \E t \in recovery[p].todo : RecoverRun(p, t))
         /\ WF_state(Heartbeat(p))
         /\ \A r \in Runs : WF_state(env.ending /\ ExecutionEnds(p, r))
    /\ \A r \in Runs : /\ SF_state(\E p \in Pods : Bind(r, p))
                       /\ WF_state(CancelPending(r) \/ Reap(r))

FairSpec == Spec /\ Fairness

------------------------------------------------------------------------------
(* Properties.                                                              *)

\* The shape of the state: Run objects, claims, executions and the steps a
\* runtimed can be in the middle of.
TypeOK ==
    /\ store \in [Runs -> Objects] /\ cache \in [Pods -> [Runs -> Objects]]
    /\ inbox \in [Pods -> Seq(Runs \X Objects)]
    /\ queue \in [Pods -> SUBSET Runs] /\ expired \in [Pods -> SUBSET Runs]
    /\ active \in [Pods -> [Runs -> Claims]]
    /\ calls \in [Pods -> SUBSET Calls]
    /\ server \in [Pods -> [Runs -> Executions]]
    /\ work \in [Pods -> [Workers -> {Idle}
         \cup [step : {"write"}, run : Runs, from : Objects, to : Objects,
               then : {"claimed", "backoff", "poll", "watch", "retry", "end"},
               why : {"claim", "backoff", "accept", "done", "result", "lost", "start",
                      "source", "timeout", "cancel"}]
         \cup [step : {"forget"}, run : Runs, then : {"retry", "end"}]
         \cup [step : {"release"}, run : Runs]]]
    /\ recovery \in [Pods -> [listed : BOOLEAN,
                              todo : SUBSET [run : Runs, obj : Objects, there : BOOLEAN]]]
    /\ pods \in [Pods -> {"healthy", "silent", "gone"}]
    /\ faults \in 0 .. env.budget

\* What the status of a Run shows of it.
Status == [r \in Runs |-> [phase |-> store[r].phase, pod |-> store[r].pod,
                           attempt |-> store[r].attempt]]
Lifecycle == INSTANCE RunLifecycle WITH run <- Status

\* Whatever the runtimeds, the reaper and the scheduler do to a Run in whatever
\* order, its persisted status lives the life of RunLifecycle.
ImplementsLifecycle == Lifecycle!Spec

\* No runtimed restarts, and no Pod is lost or looks lost to the reaper.
Undisturbed == env.kinds \cap {"restart", "silence", "loss"} = {}

\* Undisturbed, a Run that is Running is claimed by its runtimed: no refused
\* update, failed start, lost execution or retry drops the claim before the end
\* is persisted.
ClaimOutlivesRunning ==
    Undisturbed => \A r \in Runs : store[r].phase = "Running" => active[store[r].pod][r].claimed

\* Nobody ends a Run while its command is being started or runs: no user, no deadline.
Unhurried == env.withdrawn \cup env.timed = {}

\* Undisturbed and unhurried, a claim ends with its Run: it stands for a Run that
\* is Scheduled or Running, or the reconcile that releases it is under way. (A Run
\* that is taken on without an answer from Status may have ended, and keeps its claim.)
NoLeakedClaim ==
    Undisturbed /\ Unhurried /\ "noStatus" \notin env.kinds =>
        \A p \in Pods, r \in Runs : active[p][r].claimed =>
            \/ store[r].phase \in {"Scheduled", "Running"}
            \/ work[p]["main"].step # "idle" /\ work[p]["main"].run = r

\* Undisturbed, a runtimed's claims are those of the Runs it has in hand, within
\* their retry budgets.
ClaimsMatchRuns == TypeOK /\ ClaimOutlivesRunning /\ NoLeakedClaim

\* Execute never replaces, and so kills, a running execution: at most one
\* start is in flight, and none is made while the server reports one.
NeverKillsLiveExecution ==
    [][\A p \in Pods, r \in Runs :
          server[p][r].state = "running" /\ server'[p][r].state = "running"
             => Cardinality({c \in calls[p] : c.run = r /\ c.stage = "calling"})
                  <= Cardinality({c \in calls'[p] : c.run = r /\ c.stage = "calling"})]_vars

\* An execution somebody still has to account for: its Run is claimed, an
\* Execute goroutine is about to look at it, or startup recovery will.
Tracked(p, r) ==
    \/ active[p][r].claimed
    \/ \E c \in calls[p] : c.run = r
    \/ r \in queue[p] \/ ~recovery[p].listed \/ \E t \in recovery[p].todo : t.run = r

\* A command never runs on a Pod whose runtimed has lost track of it: unless a user
\* or a deadline ends its Run while it is being started, or the reaper takes the Run
\* from a live Pod whose runtimed then restarts and no longer finds it.
NoOrphanExecution ==
    Unhurried /\ ~({"restart", "silence"} \subseteq env.kinds) =>
        \A p \in Pods, r \in Runs : server[p][r].state = "running" => Tracked(p, r)

\* Undisturbed, the result of one execution fails one attempt: no FAILED result that was
\* recorded for an attempt is recorded for a later one.
ResultCountedOnce ==
    [][\A p \in Pods, w \in Workers :
          LET k == work[p][w]
          IN Undisturbed /\ k.step = "write" /\ k.why = "result" /\ store'[k.run] # store[k.run]
               /\ work'[p][w] # k /\ store'[k.run] = k.to
             => ~Counted(server[p][k.run])]_vars

\* Bound to a Pod that is lost before it claims the Run: nobody's Run.
Stranded(r) == store[r].phase = "Scheduled" /\ pods[store[r].pod] = "gone"

Over(r) == store[r].phase \in Outcomes \cup {"Deleted"} \/ Stranded(r)

\* A request for immediate termination ends an assigned Run even if its command
\* would run for ever, its updates or its start fail, or the reaper takes it
\* away first; only a stranded Run is not ended.
TerminationHonoured ==
    \A r \in Runs : (store[r].cancel /\ store[r].phase \in {"Scheduled", "Running"}) ~> Over(r)

\* A Run that was Running on a Pod that is lost leaves it: the reaper resets it
\* for another attempt or ends it.
LostRunsLeave ==
    \A r \in Runs : []<>~(store[r].phase = "Running" /\ pods[store[r].pod] = "gone")

\* Every Run that has been assigned ends or is deleted if commands end, whatever
\* starts, answers, updates, processes or Pods fail on the way: unless it is
\* stranded, no claim, queued key or execution is forgotten by everybody.
AssignedRunsEnd ==
    \A r \in Runs : (env.ending /\ store[r].phase \in {"Scheduled", "Running"}) ~> Over(r)

\* "Detects assigned Runs whose Runtime Pod disappeared or stopped heartbeating
\* and applies retry or terminal failure policy" (docs/architecture.md): an
\* assignment never stays without a claim or another assignment for ever. Refuted
\* by a Run whose Pod is lost before it claims the Run.
ScheduledRunsMove ==
    \A r \in Runs : (store[r].phase = "Scheduled") ~> (store[r].phase # "Scheduled")
==============================================================================
