------------------------- MODULE TaskExecutionProofs -------------------------
(***************************************************************************)
(* Theorems about Task Runs on their Pods, for every set of Runs and Pods, *)
(* every capacity, retry budget and scenario of faults.                    *)
(***************************************************************************)
EXTENDS TaskExecution, TLAPS

\* Where a leaf names no prover it is Zenon's.
USE Zenon

Thens == {"claimed", "backoff", "poll", "watch", "retry", "end"}
Whys == {"claim", "backoff", "accept", "done", "result", "lost", "start", "source",
         "timeout", "cancel"}
WriteSteps == [step : {"write"}, run : Runs, from : Objects, to : Objects,
               then : Thens, why : Whys]
ForgetSteps == [step : {"forget"}, run : Runs, then : {"retry", "end"}]
ReleaseSteps == [step : {"release"}, run : Runs]
Steps == {Idle} \cup WriteSteps \cup ForgetSteps \cup ReleaseSteps
Todos == [run : Runs, obj : Objects, there : BOOLEAN]

\* What each kind of status update makes of the object it was computed from.
Advances(from, to, then) ==
    \/ /\ then = "claimed" /\ from.phase = "Scheduled"
       /\ to = [from EXCEPT !.phase = "Running", !.running = TRUE, !.accepted = FALSE]
    \/ /\ then = "backoff" /\ from.phase = "Running" /\ ~from.running
       /\ to = [from EXCEPT !.running = TRUE, !.accepted = FALSE]
    \/ /\ then \in {"poll", "watch"} /\ from.phase = "Running" /\ ~from.accepted
       /\ to = Accepted(from)
    \/ /\ then = "retry" /\ from.phase = "Running" /\ from.attempt < MaxAttempts
       /\ to \in {Retried(from), Retried(Accepted(from))}
    \/ /\ then = "end" /\ from.phase \in {"Scheduled", "Running"}
       /\ \E phase \in Outcomes : to \in {Ended(from, phase), Ended(Accepted(from), phase)}

\* Which updates a reconcile (w = "main") or a recovery decides on: a result fails
\* an attempt, an assigned Run is ended before its claim only on request, and a
\* recovery claims nothing.
Fits(w, k) == /\ Advances(k.from, k.to, k.then)
              /\ k.why = "result" => k.then \in {"retry", "end"}
              /\ k.then = "end" /\ k.from.phase = "Scheduled" => k.from.cancel
              /\ w = "recovery" => k.then \in {"retry", "end", "watch"}

\* The parts of the type invariant, and what every update in hand and every
\* Run of a recovery list is.
StoreOK == store \in [Runs -> Objects] /\ inbox \in [Pods -> Seq(Runs \X Objects)]
CacheOK == cache \in [Pods -> [Runs -> Objects]]
QueueOK == queue \in [Pods -> SUBSET Runs]
ExpiredOK == expired \in [Pods -> SUBSET Runs]
ActiveOK == active \in [Pods -> [Runs -> Claims]]
CallsOK == calls \in [Pods -> SUBSET Calls]
ServerOK == server \in [Pods -> [Runs -> Executions]]
WorkOK == /\ work \in [Pods -> [Workers -> Steps]]
          /\ \A p \in Pods, w \in Workers :
                work[p][w].step = "write" => Fits(w, work[p][w])
RecoveryOK == /\ recovery \in [Pods -> [listed : BOOLEAN, todo : SUBSET Todos]]
              /\ \A p \in Pods : \A t \in recovery[p].todo : t.obj.phase = "Running"
PodsOK == pods \in [Pods -> {"healthy", "silent", "gone"}]
FaultsOK == faults \in 0 .. env.budget

Sound == /\ env \in Scenarios /\ StoreOK /\ CacheOK /\ QueueOK /\ ExpiredOK /\ ActiveOK
         /\ CallsOK /\ ServerOK /\ WorkOK /\ RecoveryOK /\ PodsOK /\ FaultsOK

\* Sound is the type invariant and a little more.
LEMMA SoundTypes == Sound => TypeOK
BY DEF Sound, TypeOK, StoreOK, CacheOK, QueueOK, ExpiredOK, ActiveOK, CallsOK, ServerOK, WorkOK,
       RecoveryOK, PodsOK, FaultsOK, Steps, WriteSteps, ForgetSteps, ReleaseSteps, Thens, Whys,
       Todos

\* What the assumption says of the scenario of a behaviour.
LEMMA EnvFacts ==
    ASSUME env \in Scenarios
    PROVE  /\ env.attempts \in 1 .. MaxAttempts /\ MaxAttempts \in Nat \ {0}
           /\ env.budget \in Nat /\ NoPod \notin Pods
           /\ env.runs \subseteq Runs /\ env.pods \subseteq Pods
BY TaskAssumption

------------------------------------------------------------------------------
(* The shape of what the actions write.                                     *)

\* Every object that somebody writes has the shape of an object.
LEMMA ObjectTypes ==
    ASSUME NEW o \in Objects
    PROVE  /\ Accepted(o) \in Objects
           /\ \A phase \in Phases : Ended(o, phase) \in Objects
           /\ o.attempt < MaxAttempts => Retried(o) \in Objects
           /\ \A phase \in Phases, p \in Pods \cup {NoPod} :
                 [o EXCEPT !.phase = phase, !.pod = p] \in Objects
           /\ \A phase \in Phases, b, c \in BOOLEAN :
                 [o EXCEPT !.phase = phase, !.running = b, !.accepted = c] \in Objects
           /\ \A b, c \in BOOLEAN : [o EXCEPT !.running = b, !.accepted = c] \in Objects
           /\ \A phase \in Phases : [o EXCEPT !.phase = phase] \in Objects
           /\ [o EXCEPT !.cancel = TRUE] \in Objects
<1>1. Accepted(o) \in Objects /\ [o EXCEPT !.cancel = TRUE] \in Objects
  BY DEF Accepted, Objects
<1>2. ASSUME NEW phase \in Phases
      PROVE  Ended(o, phase) \in Objects /\ [o EXCEPT !.phase = phase] \in Objects
  BY DEF Ended, Objects
<1>3. ASSUME o.attempt < MaxAttempts PROVE Retried(o) \in Objects
  <2>1. o.attempt + 1 \in 1 .. MaxAttempts
    BY <1>3, TaskAssumption, SMT DEF Objects
  <2> QED
    BY <2>1 DEF Retried, Objects
<1>4. ASSUME NEW phase \in Phases, NEW p \in Pods \cup {NoPod}
      PROVE  [o EXCEPT !.phase = phase, !.pod = p] \in Objects
  BY DEF Objects
<1>5. ASSUME NEW phase \in Phases, NEW b \in BOOLEAN, NEW c \in BOOLEAN
      PROVE  [o EXCEPT !.phase = phase, !.running = b, !.accepted = c] \in Objects
  BY DEF Objects
<1>6. ASSUME NEW b \in BOOLEAN, NEW c \in BOOLEAN
      PROVE  [o EXCEPT !.running = b, !.accepted = c] \in Objects
  BY DEF Objects
<1> QED
  BY <1>1, <1>2, <1>3, <1>4, <1>5, <1>6

\* A status update keeps the shape of the Runs and of the watch events.
LEMMA PutType ==
    ASSUME StoreOK, NEW r \in Runs, NEW o \in Objects, Put(r, o)
    PROVE  StoreOK'
<1>1. store' \in [Runs -> Objects]
  BY DEF StoreOK, Put
<1>2. <<r, o>> \in Runs \X Objects
  OBVIOUS
<1>3. ASSUME NEW p \in Pods
      PROVE  (IF Alive(p) THEN Append(inbox[p], <<r, o>>) ELSE <<>>) \in Seq(Runs \X Objects)
  <2>1. inbox[p] \in Seq(Runs \X Objects)
    BY DEF StoreOK
  <2> DEFINE e == <<r, o>>
  <2>2. e \in Runs \X Objects
    BY <1>2
  <2> HIDE DEF e
  <2>3. Append(inbox[p], e) \in Seq(Runs \X Objects) /\ <<>> \in Seq(Runs \X Objects)
    BY <2>1, <2>2, SMT
  <2> QED
    BY <2>3 DEF e
<1> QED
  BY <1>1, <1>3 DEF StoreOK, Put

\* What a reconcile leaves in work has the shape of a step.
LEMMA SetWorkType ==
    ASSUME WorkOK, NEW p \in Pods, NEW w \in Workers, NEW s \in Steps \ WriteSteps,
           SetWork(p, w, s)
    PROVE  WorkOK'
<1>1. s \in Steps /\ s.step # "write"
  BY SMT DEF Steps, WriteSteps, ForgetSteps, ReleaseSteps, Idle
<1>2. work' \in [Pods -> [Workers -> Steps]]
  BY <1>1 DEF WorkOK, SetWork
<1>3. \A q \in Pods, v \in Workers : work'[q][v] = work[q][v] \/ work'[q][v] = s
  BY DEF WorkOK, SetWork
<1> QED
  BY <1>1, <1>2, <1>3 DEF WorkOK

\* So does a status update it decides on.
LEMMA WriteType ==
    ASSUME WorkOK, NEW p \in Pods, NEW w \in Workers, NEW r \in Runs,
           NEW from \in Objects, NEW to \in Objects, NEW then \in Thens, NEW why \in Whys,
           Advances(from, to, then), why = "result" => then \in {"retry", "end"},
           then = "end" /\ from.phase = "Scheduled" => from.cancel,
           w = "recovery" => then \in {"retry", "end", "watch"},
           Write(p, w, r, from, to, then, why)
    PROVE  WorkOK'
<1> DEFINE s == [step |-> "write", run |-> r, from |-> from, to |-> to, then |-> then,
                 why |-> why]
<1>1. s \in Steps
  BY DEF Steps, WriteSteps
<1>2. Fits(w, s)
  BY DEF Fits
<1>3. work' = [work EXCEPT ![p][w] = s]
  BY DEF Write
<1> HIDE DEF s
<1>4. work' \in [Pods -> [Workers -> Steps]]
  BY <1>1, <1>3 DEF WorkOK
<1>5. \A q \in Pods, v \in Workers :
        work'[q][v] = work[q][v] \/ (v = w /\ work'[q][v] = s)
  BY <1>3 DEF WorkOK
<1> QED
  BY <1>2, <1>4, <1>5, SMT DEF WorkOK

\* A failed attempt is retried within the budget, or ended.
LEMMA FailType ==
    ASSUME env \in Scenarios, WorkOK, NEW p \in Pods, NEW w \in Workers, NEW r \in Runs,
           NEW from \in Objects, from.phase = "Running", NEW why \in Whys,
           NEW o \in {from, Accepted(from)}, Fail(p, w, r, from, o, why)
    PROVE  WorkOK'
<1>a. o = from \/ o = Accepted(from)
  OBVIOUS
<1>b. Accepted(from) \in Objects /\ Accepted(from).attempt = from.attempt
  BY DEF Accepted, Objects
<1>1. o \in Objects /\ o.attempt = from.attempt
  BY <1>a, <1>b
<1>2. CASE ShouldRetry(o)
  <2>1. Write(p, w, r, from, Retried(o), "retry", why)
    BY <1>2 DEF Fail
  <2>2. from.attempt < MaxAttempts /\ o.attempt < MaxAttempts
    BY <1>1, <1>2, EnvFacts, SMT DEF ShouldRetry, Objects
  <2>3. Retried(o) \in Objects
    BY <1>1, <2>2, ObjectTypes
  <2>4. Advances(from, Retried(o), "retry")
    BY <2>2 DEF Advances
  <2> QED
    BY <2>1, <2>3, <2>4, WriteType DEF Thens
<1>3. CASE ~ShouldRetry(o)
  <2> DEFINE phase == IF why = "timeout" THEN "Timeout" ELSE "Failed"
  <2>1. Write(p, w, r, from, Ended(o, phase), "end", why)
    BY <1>3 DEF Fail
  <2>2. phase \in Outcomes /\ phase \in Phases
    BY DEF Outcomes, Phases
  <2> HIDE DEF phase
  <2>3. Ended(o, phase) \in Objects
    BY <1>1, <2>2, ObjectTypes
  <2>4. Advances(from, Ended(o, phase), "end")
    BY <2>2 DEF Advances
  <2> QED
    BY <2>1, <2>3, <2>4, WriteType DEF Thens
<1> QED
  BY <1>2, <1>3

\* So is a finished command.
LEMMA SucceedType ==
    ASSUME WorkOK, NEW p \in Pods, NEW w \in Workers, NEW r \in Runs,
           NEW o \in Objects, o.phase = "Running", Succeed(p, w, r, o)
    PROVE  WorkOK'
<1>1. PICK phase \in {"Succeeded", "Failed"} :
        Write(p, w, r, o, Ended(Accepted(o), phase), "end", "done")
  BY DEF Succeed
<1>2. phase \in Outcomes /\ phase \in Phases
  BY DEF Outcomes, Phases
<1>3. Accepted(o) \in Objects
  BY ObjectTypes
<1>4. Ended(Accepted(o), phase) \in Objects
  BY <1>2, <1>3, ObjectTypes
<1>5. Advances(o, Ended(Accepted(o), phase), "end")
  BY <1>2 DEF Advances
<1> QED
  BY <1>1, <1>4, <1>5, WriteType DEF Thens, Whys

\* An observed execution becomes an accepted Run.
LEMMA AcceptType ==
    ASSUME WorkOK, NEW p \in Pods, NEW w \in Workers, NEW r \in Runs,
           NEW o \in Objects, o.phase = "Running", ~o.accepted, NEW then \in {"poll", "watch"},
           w = "recovery" => then = "watch",
           Write(p, w, r, o, Accepted(o), then, "accept")
    PROVE  WorkOK'
<1>1. Accepted(o) \in Objects /\ Advances(o, Accepted(o), then)
  BY ObjectTypes DEF Advances
<1> QED
  BY <1>1, WriteType, SMT DEF Thens, Whys

\* Claims and executions keep their shape.
LEMMA ClaimTypes ==
    /\ NoClaim \in Claims /\ \A b \in BOOLEAN : Claimed(b) \in Claims
    /\ \A c \in Claims, b \in BOOLEAN :
          [c EXCEPT !.failure = b] \in Claims /\ [c EXCEPT !.started = b] \in Claims
<1>1. NoClaim \in Claims /\ \A b \in BOOLEAN : Claimed(b) \in Claims
  BY DEF Claims, Claimed
<1>2. ASSUME NEW c \in Claims, NEW b \in BOOLEAN
      PROVE  [c EXCEPT !.failure = b] \in Claims /\ [c EXCEPT !.started = b] \in Claims
  <2>1. CASE c = NoClaim
    <3>1. [c EXCEPT !.failure = b] = NoClaim /\ [c EXCEPT !.started = b] = NoClaim
      BY <2>1 DEF NoClaim
    <3> QED
      BY <3>1, <1>1
  <2>2. CASE c # NoClaim
    BY <1>2, <2>2 DEF Claims
  <2> QED
    BY <2>1, <2>2
<1> QED
  BY <1>1, <1>2

\* What a claim records.
LEMMA ClaimRecord ==
    ASSUME NEW c \in Claims, c.claimed
    PROVE  c \in [claimed : {TRUE}, started : BOOLEAN, failure : BOOLEAN]
<1>1. ~NoClaim.claimed
  BY DEF NoClaim
<1> QED
  BY <1>1 DEF Claims

\* Setting one claim keeps the type of the claims.
LEMMA ActiveType ==
    ASSUME ActiveOK, NEW p \in Pods, NEW r \in Runs, NEW c \in Claims,
           active' = [active EXCEPT ![p][r] = c]
    PROVE  ActiveOK'
BY DEF ActiveOK

\* Setting one execution keeps the type of the Runtime Servers.
LEMMA ServerType ==
    ASSUME ServerOK, NEW p \in Pods, NEW r \in Runs, NEW e \in Executions,
           server' = [server EXCEPT ![p][r] = e]
    PROVE  ServerOK'
BY DEF ServerOK

\* Queueing or taking a key keeps the type of the work queues.
LEMMA QueueType ==
    ASSUME QueueOK, NEW p \in Pods, NEW r \in Runs, Enqueue(p, r) \/ Dequeue(p, r)
    PROVE  QueueOK'
BY DEF QueueOK, Enqueue, Dequeue

\* Cleanup and Cancel keep the type of the Runtime Servers.
LEMMA ForgottenType ==
    ASSUME ServerOK, NEW p \in Pods, NEW r \in Runs, Forgotten(p, r) \/ Cancelled(p, r)
    PROVE  ServerOK'
BY SMT DEF ServerOK, Forgotten, Cancelled, Executions, NoExec

\* What a step leaves alone keeps its shape.
LEMMA KeepTypes ==
    ASSUME Sound
    PROVE  /\ UNCHANGED env => (env \in Scenarios)'
           /\ UNCHANGED <<store, inbox>> => StoreOK'
           /\ UNCHANGED cache => CacheOK'
           /\ UNCHANGED queue => QueueOK'
           /\ UNCHANGED expired => ExpiredOK'
           /\ UNCHANGED active => ActiveOK'
           /\ UNCHANGED calls => CallsOK'
           /\ UNCHANGED server => ServerOK'
           /\ UNCHANGED work => WorkOK'
           /\ UNCHANGED recovery => RecoveryOK'
           /\ UNCHANGED pods => PodsOK'
           /\ UNCHANGED <<env, faults>> => FaultsOK'
           /\ \A k : UNCHANGED env /\ Fault(k) => FaultsOK'
<1>1. ASSUME NEW k, UNCHANGED env, Fault(k) PROVE FaultsOK'
  BY <1>1, EnvFacts, SMT DEF Fault, FaultsOK, Sound
<1> QED
  BY <1>1 DEF Sound, StoreOK, CacheOK, QueueOK, ExpiredOK, ActiveOK, CallsOK, ServerOK, WorkOK,
              RecoveryOK, PodsOK, FaultsOK

------------------------------------------------------------------------------
(* Every step keeps the shape of the state.                                 *)

\* The recovery of one Run.
LEMMA RecoveredSound ==
    ASSUME Sound, NEW p \in Pods, NEW w \in Workers, NEW r \in Runs, NEW o \in Objects,
           o.phase = "Running", Recovered(p, w, r, o)
    PROVE  WorkOK' /\ ActiveOK'
<1>a. env \in Scenarios /\ WorkOK /\ ActiveOK
  BY DEF Sound
<1>b. o \in {o, Accepted(o)} /\ Accepted(o) \in {o, Accepted(o)}
  OBVIOUS
<1>1. CASE Fail(p, w, r, o, o, "lost") /\ UNCHANGED active
  BY <1>1, <1>a, <1>b, FailType, KeepTypes DEF Whys
<1>2. ASSUME active' = [active EXCEPT ![p][r] = Claimed(TRUE)] PROVE ActiveOK'
  BY <1>a, <1>2, ClaimTypes, ActiveType
<1>3. ASSUME Succeed(p, w, r, o) PROVE WorkOK'
  BY <1>a, <1>3, SucceedType
<1>4. ASSUME Fail(p, w, r, o, Accepted(o), "result") PROVE WorkOK'
  BY <1>a, <1>b, <1>4, FailType DEF Whys
<1>5. ASSUME IF o.accepted THEN UNCHANGED work
             ELSE Write(p, w, r, o, Accepted(o), "watch", "accept")
      PROVE  WorkOK'
  BY <1>a, <1>5, AcceptType, KeepTypes
<1> QED
  BY <1>1, <1>2, <1>3, <1>4, <1>5 DEF Recovered

\* Reconciles of one key.
LEMMA ReconcileSound ==
    ASSUME Sound, UNCHANGED env, NEW p \in Pods, NEW r \in Runs, Reconcile(p, r)
    PROVE  Sound'
<1> DEFINE o == cache[p][r]
<1>a. o \in Objects /\ env \in Scenarios /\ active[p][r] \in Claims
  BY DEF Sound, CacheOK, ActiveOK
<1>b. "main" \in Workers
  BY DEF Workers
<1>c. WorkOK /\ QueueOK /\ ActiveOK /\ ServerOK /\ ExpiredOK /\ CallsOK
  BY DEF Sound
<1> SUFFICES ASSUME UNCHANGED <<store, cache, inbox, recovery, pods, faults>>
             PROVE  QueueOK' /\ ActiveOK' /\ ServerOK' /\ ExpiredOK' /\ CallsOK' /\ WorkOK'
  <2>1. UNCHANGED <<store, cache, inbox, recovery, pods, faults>>
    BY DEF Reconcile, Ignore, CleanupDeleted, ReconcileScheduled, ReconcileRecovered,
           StatusFails, ReconcileCancel, ReconcileBackoff, ReconcileTimeout, StartExecution,
           ReconcileMissing, ReconcileActive, Take, NoFault
  <2> QED
    BY <2>1, KeepTypes DEF Sound
<1>1. CASE Ignore(p, r)
  BY <1>1, <1>c, QueueType, KeepTypes DEF Ignore
<1>2. CASE CleanupDeleted(p, r)
  <2>1. ToForget(r, "end") \in Steps \ WriteSteps
    BY DEF ToForget, Steps, ForgetSteps, WriteSteps
  <2>2. WorkOK'
    BY <1>2, <1>b, <1>c, <2>1, SetWorkType DEF CleanupDeleted
  <2> QED
    BY <1>2, <1>c, <2>2, QueueType, KeepTypes DEF CleanupDeleted
<1>3. CASE ReconcileScheduled(p, r)
  <2> USE <1>3 DEF ReconcileScheduled
  <2>1. QueueOK' /\ CallsOK' /\ ServerOK'
    BY <1>c, QueueType, KeepTypes
  <2>2. CASE o.cancel
    <3>1. "Cancelled" \in Phases /\ "Cancelled" \in Outcomes
      BY DEF Phases, Outcomes
    <3>2. Ended(o, "Cancelled") \in Objects /\ Advances(o, Ended(o, "Cancelled"), "end")
      BY <1>a, <3>1, ObjectTypes DEF Advances
    <3>3. WorkOK'
      BY <1>a, <1>b, <1>c, <2>2, <3>2, WriteType DEF Thens, Whys
    <3> QED
      BY <2>1, <2>2, <3>3, KeepTypes
  <2>3. CASE ~o.cancel
    <3> DEFINE to == [o EXCEPT !.phase = "Running", !.running = TRUE, !.accepted = FALSE]
    <3>1. "Running" \in Phases
      BY DEF Phases
    <3>2. to \in Objects /\ Advances(o, to, "claimed")
      BY <1>a, <3>1, ObjectTypes DEF Advances
    <3>3. WorkOK'
      BY <1>a, <1>b, <1>c, <2>3, <3>2, WriteType DEF Thens, Whys
    <3>4. ActiveOK'
      BY <1>c, <2>3, ClaimTypes, ActiveType
    <3>5. ExpiredOK'
      BY <1>c, <2>3 DEF ExpiredOK
    <3> QED
      BY <2>1, <3>3, <3>4, <3>5
  <2> QED
    BY <2>2, <2>3
<1>4. CASE ReconcileRecovered(p, r)
  <2>1. QueueOK' /\ CallsOK' /\ ServerOK' /\ ExpiredOK'
    BY <1>4, <1>c, QueueType, KeepTypes DEF ReconcileRecovered
  <2>2. WorkOK' /\ ActiveOK'
    BY <1>4, <1>a, <1>b, RecoveredSound DEF ReconcileRecovered
  <2> QED
    BY <2>1, <2>2
<1>5. CASE StatusFails(p, r)
  <2>1. ActiveOK'
    BY <1>5, <1>c, ClaimTypes, ActiveType DEF StatusFails
  <2> QED
    BY <1>5, <2>1, KeepTypes DEF StatusFails
<1>6. CASE ReconcileCancel(p, r)
  <2> USE <1>6 DEF ReconcileCancel
  <2>1. "Cancelled" \in Phases /\ "Cancelled" \in Outcomes
    BY DEF Phases, Outcomes
  <2>2. Ended(o, "Cancelled") \in Objects /\ Advances(o, Ended(o, "Cancelled"), "end")
    BY <1>a, <2>1, ObjectTypes DEF Advances, RunningWithClaim
  <2>3. o.phase # "Scheduled"
    BY DEF RunningWithClaim
  <2>4. WorkOK'
    BY <1>a, <1>b, <1>c, <2>2, <2>3, WriteType DEF Thens, Whys
  <2> QED
    BY <1>c, <2>4, QueueType, ForgottenType, KeepTypes
<1>7. CASE ReconcileBackoff(p, r)
  <2> USE <1>7 DEF ReconcileBackoff
  <2> DEFINE to == [o EXCEPT !.running = TRUE, !.accepted = FALSE]
  <2>1. to \in Objects /\ Advances(o, to, "backoff")
    BY <1>a, ObjectTypes DEF Advances, RunningWithClaim
  <2>2. WorkOK'
    BY <1>a, <1>b, <1>c, <2>1, WriteType DEF Thens, Whys
  <2> QED
    BY <1>c, <2>2, QueueType, KeepTypes
<1>8. CASE ReconcileTimeout(p, r)
  <2> USE <1>8 DEF ReconcileTimeout
  <2>1. o.phase = "Running" /\ o \in {o, Accepted(o)}
    BY DEF Attempting, RunningWithClaim
  <2>2. WorkOK'
    BY <1>a, <1>b, <1>c, <2>1, FailType DEF Whys
  <2> QED
    BY <1>c, <2>2, QueueType, ForgottenType, KeepTypes
<1>9. CASE StartExecution(p, r)
  <2> USE <1>9 DEF StartExecution
  <2>1. [run |-> r, stage |-> "calling", mine |-> TRUE] \in Calls
    BY DEF Calls
  <2>2. CallsOK'
    BY <1>c, <2>1 DEF CallsOK
  <2> QED
    BY <2>2, KeepTypes
<1>10. CASE ReconcileMissing(p, r)
  <2> USE <1>10 DEF ReconcileMissing
  <2>1. o.phase = "Running" /\ o \in {o, Accepted(o)}
    BY DEF Attempting, RunningWithClaim
  <2>2. WorkOK'
    BY <1>a, <1>b, <1>c, <2>1, FailType DEF Whys
  <2>3. [active[p][r] EXCEPT !.failure = FALSE] \in Claims
    BY <1>a, ClaimTypes
  <2>4. ActiveOK'
    <3>1. CASE UNCHANGED active
      BY <3>1, KeepTypes
    <3>2. CASE active' = [active EXCEPT ![p][r].failure = FALSE]
      <4>1. active' = [active EXCEPT ![p][r] = [active[p][r] EXCEPT !.failure = FALSE]]
        BY <3>2, <1>c DEF ActiveOK
      <4> QED
        BY <4>1, <2>3, <1>c, ActiveType
    <3> QED
      BY <3>1, <3>2
  <2> QED
    BY <1>c, <2>2, <2>4, QueueType, KeepTypes
<1>11. CASE ReconcileActive(p, r)
  <2> USE <1>11 DEF ReconcileActive
  <2>1. o.phase = "Running" /\ Accepted(o) \in {o, Accepted(o)}
    BY DEF Attempting, RunningWithClaim
  <2>2. QueueOK'
    BY <1>c, QueueType, KeepTypes
  <2>3. CASE server[p][r].state = "running" /\ active' = [active EXCEPT ![p][r].started = TRUE]
             /\ (IF o.accepted THEN UNCHANGED <<queue, work>>
                 ELSE Dequeue(p, r) /\ Write(p, "main", r, o, Accepted(o), "poll", "accept"))
    <3>1. WorkOK'
      BY <1>a, <1>b, <1>c, <2>1, <2>3, AcceptType, KeepTypes
    <3>2. [active[p][r] EXCEPT !.started = TRUE] \in Claims
      BY <1>a, ClaimTypes
    <3>3. active' = [active EXCEPT ![p][r] = [active[p][r] EXCEPT !.started = TRUE]]
      BY <2>3, <1>c DEF ActiveOK
    <3>4. ActiveOK'
      BY <3>2, <3>3, <1>c, ActiveType
    <3> QED
      BY <2>2, <3>1, <3>4, KeepTypes
  <2>4. CASE Succeed(p, "main", r, o) /\ UNCHANGED active
    <3>1. WorkOK'
      BY <1>a, <1>b, <1>c, <2>1, <2>4, SucceedType
    <3> QED
      BY <2>2, <2>4, <3>1, KeepTypes
  <2>5. CASE Fail(p, "main", r, o, Accepted(o), "result") /\ UNCHANGED active
    <3>1. WorkOK'
      BY <1>a, <1>b, <1>c, <2>1, <2>5, FailType DEF Whys
    <3> QED
      BY <2>2, <2>5, <3>1, KeepTypes
  <2> QED
    BY <2>3, <2>4, <2>5
<1> QED
  BY <1>1, <1>2, <1>3, <1>4, <1>5, <1>6, <1>7, <1>8, <1>9, <1>10, <1>11 DEF Reconcile

\* The outcome of a status update, and what follows it.
LEMMA WorkerSound ==
    ASSUME Sound, UNCHANGED env, NEW p \in Pods, NEW w \in Workers,
           Commit(p, w) \/ Refused(p, w) \/ Forget(p, w) \/ Release(p, w)
    PROVE  Sound'
<1> DEFINE k == work[p][w]
<1> DEFINE r == k.run
<1>a. k \in Steps /\ env \in Scenarios
  BY DEF Sound, WorkOK
<1>b. StoreOK /\ WorkOK /\ QueueOK /\ ActiveOK /\ ServerOK /\ CallsOK
  BY DEF Sound
<1>c. Idle \in Steps \ WriteSteps
  BY DEF Idle, Steps, WriteSteps
<1>d. ASSUME k.step = "write"
      PROVE  k \in WriteSteps /\ r \in Runs /\ k.to \in Objects
             /\ Advances(k.from, k.to, k.then)
  BY <1>d, <1>a, SMT DEF Steps, WriteSteps, ForgetSteps, ReleaseSteps, Idle, Sound, WorkOK, Fits
<1>1. CASE Commit(p, w)
  <2>0. /\ k.step = "write" /\ Put(r, k.to)
        /\ UNCHANGED <<cache, expired, calls, recovery, pods, faults>>
    BY <1>1 DEF Commit, Writing, NoFault
  <2>e. /\ UNCHANGED queue \/ Enqueue(p, r)
        /\ \/ UNCHANGED active
           \/ active' = [active EXCEPT ![p][r] = IF @.claimed THEN [@ EXCEPT !.started = FALSE]
                                                ELSE @]
        /\ \/ UNCHANGED server
           \/ server[p][r] # NoExec /\ server' = [server EXCEPT ![p][r].counted = TRUE]
        /\ \/ k.then = "claimed" /\ Fail(p, w, r, k.to, k.to, "source")
           \/ SetWork(p, w, Idle)
           \/ k.then \in {"retry", "end"} /\ SetWork(p, w, ToForget(r, k.then))
    BY <1>1 DEF Commit
  <2>a. k \in WriteSteps /\ r \in Runs /\ k.to \in Objects /\ Advances(k.from, k.to, k.then)
    BY <1>d, <2>0
  <2> HIDE DEF k, r
  <2>1. StoreOK'
    BY <1>b, <2>0, <2>a, PutType
  <2>2. CacheOK' /\ ExpiredOK' /\ CallsOK' /\ RecoveryOK' /\ PodsOK' /\ FaultsOK'
        /\ (env \in Scenarios)'
    BY <2>0, KeepTypes
  <2>3. QueueOK'
    BY <1>b, <2>a, <2>e, QueueType, KeepTypes
  <2>4. ActiveOK'
    <3>1. CASE UNCHANGED active
      BY <3>1, KeepTypes
    <3>2. CASE active' = [active EXCEPT ![p][r] = IF @.claimed THEN [@ EXCEPT !.started = FALSE]
                                                 ELSE @]
      <4> DEFINE c == active[p][r]
      <4> DEFINE d == IF c.claimed THEN [c EXCEPT !.started = FALSE] ELSE c
      <4>1. c \in Claims
        BY <1>b, <2>a DEF ActiveOK
      <4>2. d \in Claims
        BY <4>1, ClaimTypes
      <4>3. active' = [active EXCEPT ![p][r] = d]
        BY <3>2, <1>b, <2>a DEF ActiveOK
      <4> HIDE DEF d, c
      <4> QED
        BY <4>2, <4>3, <1>b, <2>a, ActiveType
    <3> QED
      BY <2>e, <3>1, <3>2
  <2>5. ServerOK'
    <3>1. CASE UNCHANGED server
      BY <3>1, KeepTypes
    <3>2. CASE server[p][r] # NoExec /\ server' = [server EXCEPT ![p][r].counted = TRUE]
      <4> DEFINE e == [server[p][r] EXCEPT !.counted = TRUE]
      <4>1. server[p][r] \in Executions
        BY <1>b, <2>a DEF ServerOK
      <4>2. e \in Executions
        BY <3>2, <4>1 DEF Executions
      <4>3. server' = [server EXCEPT ![p][r] = e]
        BY <3>2, <1>b, <2>a DEF ServerOK
      <4> HIDE DEF e
      <4> QED
        BY <4>2, <4>3, <1>b, <2>a, ServerType
    <3> QED
      BY <2>e, <3>1, <3>2
  <2>6. WorkOK'
    <3>1. CASE k.then = "claimed" /\ Fail(p, w, r, k.to, k.to, "source")
      <4>1. k.to.phase = "Running" /\ k.to \in {k.to, Accepted(k.to)}
        <5>1. k.from \in Objects
          BY <2>a DEF WriteSteps
        <5>2. k.to = [k.from EXCEPT !.phase = "Running", !.running = TRUE, !.accepted = FALSE]
          BY <2>a, <3>1 DEF Advances
        <5> QED
          BY <5>1, <5>2 DEF Objects
      <4>2. "source" \in Whys
        BY DEF Whys
      <4> QED
        BY <1>a, <1>b, <2>a, <3>1, <4>1, <4>2, FailType
    <3>2. CASE SetWork(p, w, Idle)
      BY <3>2, <1>b, <1>c, SetWorkType
    <3>3. CASE k.then \in {"retry", "end"} /\ SetWork(p, w, ToForget(r, k.then))
      <4>1. ToForget(r, k.then) \in Steps \ WriteSteps
        BY <2>a, <3>3 DEF ToForget, Steps, ForgetSteps, WriteSteps
      <4> QED
        BY <4>1, <3>3, <1>b, SetWorkType
    <3> QED
      BY <2>e, <3>1, <3>2, <3>3
  <2> QED
    BY <2>1, <2>2, <2>3, <2>4, <2>5, <2>6 DEF Sound
<1>2. CASE Refused(p, w)
  <2> USE <1>2 DEF Refused
  <2>a. r \in Runs
    BY <1>d DEF Writing
  <2>1. WorkOK'
    BY <1>b, <1>c, SetWorkType
  <2>2. QueueOK'
    BY <1>b, <2>a, QueueType, KeepTypes
  <2>3. ActiveOK'
    BY <1>b, <2>a, ClaimTypes, ActiveType, KeepTypes
  <2>4. FaultsOK'
    BY KeepTypes DEF NoFault
  <2> QED
    BY <2>1, <2>2, <2>3, <2>4, KeepTypes DEF Sound
<1>3. CASE Forget(p, w)
  <2> USE <1>3 DEF Forget
  <2>a. r \in Runs
    BY <1>a, SMTT(30) DEF Steps, WriteSteps, ForgetSteps, ReleaseSteps, Idle
  <2>1. [step |-> "release", run |-> r] \in Steps \ WriteSteps
    BY <2>a DEF Steps, WriteSteps, ReleaseSteps
  <2>2. WorkOK'
    BY <1>b, <1>c, <2>1, SetWorkType
  <2>3. QueueOK' /\ ServerOK'
    BY <1>b, <2>a, QueueType, ForgottenType, KeepTypes
  <2> QED
    BY <2>2, <2>3, KeepTypes DEF Sound, NoFault
<1>4. CASE Release(p, w)
  <2> USE <1>4 DEF Release
  <2>a. r \in Runs
    BY <1>a, SMT DEF Steps, WriteSteps, ForgetSteps, ReleaseSteps, Idle
  <2>1. WorkOK' /\ ActiveOK'
    BY <1>b, <1>c, <2>a, SetWorkType, ActiveType, ClaimTypes
  <2>2. CallsOK'
    <3>1. ASSUME NEW c \in calls[p] PROVE [c EXCEPT !.mine = @ /\ c.run # r] \in Calls
      <4>1. c \in Calls
        BY <1>b, <3>1 DEF CallsOK
      <4> QED
        BY <4>1 DEF Calls
    <3>2. {[c EXCEPT !.mine = @ /\ c.run # r] : c \in calls[p]} \subseteq Calls
      BY <3>1
    <3> QED
      BY <3>2, <1>b DEF CallsOK
  <2> QED
    BY <2>1, <2>2, KeepTypes DEF Sound, NoFault
<1> QED
  BY <1>1, <1>2, <1>3, <1>4

\* The Execute goroutines.
LEMMA CallSound ==
    ASSUME Sound, UNCHANGED env, NEW p \in Pods, NEW c \in calls[p],
           Execute(p, c) \/ ExecuteFails(p, c) \/ Started(p, c)
    PROVE  Sound'
<1>a. c \in Calls /\ c.run \in Runs /\ active[p][c.run] \in Claims
  BY SMT DEF Sound, CallsOK, ActiveOK, Calls
<1>b. QueueOK /\ ActiveOK /\ ServerOK /\ CallsOK
  BY DEF Sound
<1>1. UNCHANGED <<store, cache, inbox, expired, work, recovery, pods>>
  BY DEF Execute, ExecuteFails, Started, Calling
<1>2. FaultsOK'
  BY KeepTypes DEF Execute, ExecuteFails, Started, NoFault
<1>3. ASSUME RecordFailure(p, c) PROVE QueueOK' /\ ActiveOK' /\ CallsOK'
  <2> DEFINE d == [active[p][c.run] EXCEPT !.failure = TRUE]
  <2>1. d \in Claims
    BY <1>a, ClaimTypes
  <2>2. c.mine => active' = [active EXCEPT ![p][c.run] = d]
    BY <1>3, <1>a, <1>b DEF RecordFailure, ActiveOK
  <2>3. ~c.mine => UNCHANGED active
    BY <1>3 DEF RecordFailure
  <2> HIDE DEF d
  <2>4. ActiveOK'
    BY <1>a, <1>b, <2>1, <2>2, <2>3, ActiveType, KeepTypes
  <2>5. CallsOK'
    BY <1>3, <1>b DEF RecordFailure, Drop, CallsOK
  <2> QED
    BY <1>3, <1>a, <1>b, <2>4, <2>5, QueueType DEF RecordFailure
<1>4. CASE Execute(p, c)
  <2>1. ServerOK'
    <3>1. NewExec \in Executions
      BY DEF NewExec, Executions
    <3> QED
      BY <1>4, <1>a, <1>b, <3>1, ServerType DEF Execute
  <2>2. CASE RecordFailure(p, c)
    BY <1>1, <1>2, <1>3, <2>1, <2>2, KeepTypes DEF Sound
  <2>3. CASE calls' = [calls EXCEPT ![p] = (@ \ {c}) \cup {[c EXCEPT !.stage = "accepted"]}]
             /\ UNCHANGED <<queue, active>>
    <3>1. [c EXCEPT !.stage = "accepted"] \in Calls
      BY <1>a DEF Calls
    <3>2. CallsOK'
      BY <1>b, <2>3, <3>1 DEF CallsOK
    <3> QED
      BY <1>1, <1>2, <2>1, <2>3, <3>2, KeepTypes DEF Sound
  <2> QED
    BY <1>4, <2>2, <2>3 DEF Execute
<1>5. CASE ExecuteFails(p, c)
  BY <1>1, <1>2, <1>3, <1>5, KeepTypes DEF Sound, ExecuteFails
<1>6. CASE Started(p, c)
  <2>1. CallsOK'
    BY <1>6, <1>b DEF Started, Drop, CallsOK
  <2>2. QueueOK' /\ ServerOK' /\ ActiveOK'
    BY <1>6, <1>a, <1>b, QueueType, ForgottenType, KeepTypes DEF Started
  <2> QED
    BY <1>1, <1>2, <2>1, <2>2, KeepTypes DEF Sound
<1> QED
  BY <1>4, <1>5, <1>6

\* Watch events, ticks, ends and restarts at one Pod.
LEMMA PodSound ==
    ASSUME Sound, UNCHANGED env, NEW p \in Pods,
           \/ Deliver(p) \/ Restart(p) \/ RecoverList(p) \/ Wipe(p)
           \/ \E r \in Runs : Relist(p, r) \/ Expire(p, r) \/ ExecutionEnds(p, r)
           \/ \E t \in recovery[p].todo : RecoverRun(p, t)
    PROVE  Sound'
<1>a. /\ StoreOK /\ CacheOK /\ QueueOK /\ ExpiredOK /\ ActiveOK /\ CallsOK /\ ServerOK
      /\ WorkOK /\ RecoveryOK /\ PodsOK /\ FaultsOK
  BY DEF Sound
<1>b. [q \in Runs |-> NoClaim] \in [Runs -> Claims] /\ [q \in Runs |-> NoExec] \in [Runs -> Executions]
  BY DEF Claims, Executions
<1>1. CASE Deliver(p)
  <2> DEFINE e == Head(inbox[p])
  <2>1. e \in Runs \X Objects /\ Tail(inbox[p]) \in Seq(Runs \X Objects)
    <3>1. inbox[p] \in Seq(Runs \X Objects) /\ inbox[p] # <<>>
      BY <1>1, <1>a DEF Deliver, StoreOK
    <3> QED
      BY <3>1, SMT
  <2>2. e[1] \in Runs /\ e[2] \in Objects
    BY <2>1
  <2>3. /\ cache' = [cache EXCEPT ![p][e[1]] = e[2]]
        /\ queue' = queue \/ queue' = [queue EXCEPT ![p] = @ \cup {e[1]}]
        /\ inbox' = [inbox EXCEPT ![p] = Tail(@)]
        /\ UNCHANGED <<store, active, expired, calls, server, work, recovery, pods, faults>>
    BY <1>1 DEF Deliver
  <2> HIDE DEF e
  <2>4. StoreOK'
    BY <1>a, <2>1, <2>3 DEF StoreOK
  <2>5. CacheOK'
    BY <1>a, <2>2, <2>3 DEF CacheOK
  <2>6. QueueOK'
    BY <1>a, <2>2, <2>3 DEF QueueOK
  <2> QED
    BY <2>3, <2>4, <2>5, <2>6, KeepTypes DEF Sound
<1>2. CASE Restart(p)
  <2> USE <1>2 DEF Restart
  <2>1. StoreOK'
    BY <1>a, SMTT(30) DEF StoreOK
  <2>2. CacheOK'
    BY <1>a DEF StoreOK, CacheOK
  <2>3. QueueOK'
    BY <1>a DEF QueueOK
  <2>4. ActiveOK' /\ CallsOK'
    BY <1>a, <1>b DEF ActiveOK, CallsOK
  <2>5. ServerOK'
    <3>1. Drained(p) \in [Runs -> Executions]
      BY <1>a DEF ServerOK, Drained, Executions
    <3> QED
      BY <1>a, <3>1 DEF ServerOK
  <2>6. WorkOK'
    <3>1. Idle \in Steps /\ Idle.step # "write"
      BY DEF Steps, Idle
    <3>2. work' \in [Pods -> [Workers -> Steps]]
      BY <1>a, <3>1 DEF WorkOK
    <3>3. \A q \in Pods, w \in Workers : work'[q][w] = work[q][w] \/ work'[q][w] = Idle
      BY <1>a DEF WorkOK
    <3> QED
      BY <1>a, <3>1, <3>2, <3>3 DEF WorkOK
  <2>7. RecoveryOK'
    BY <1>a DEF RecoveryOK
  <2> QED
    BY <2>1, <2>2, <2>3, <2>4, <2>5, <2>6, <2>7, KeepTypes DEF Sound
<1>3. CASE RecoverList(p)
  <2> DEFINE mine == {r \in Runs : store[r].pod = p /\ store[r].phase = "Running"}
  <2> DEFINE todo == {[run |-> r, obj |-> store[r], there |-> server[p][r] # NoExec] : r \in mine}
  <2>1. todo \subseteq Todos /\ \A t \in todo : t.obj.phase = "Running"
    <3>1. ASSUME NEW r \in mine
          PROVE  /\ [run |-> r, obj |-> store[r], there |-> server[p][r] # NoExec] \in Todos
                 /\ store[r].phase = "Running"
      <4>1. r \in Runs /\ store[r] \in Objects /\ (server[p][r] # NoExec) \in BOOLEAN
        BY <1>a DEF StoreOK
      <4> QED
        BY <4>1 DEF Todos
    <3> QED
      BY <3>1, SMTT(30)
  <2>2. recovery' = [recovery EXCEPT ![p] = [listed |-> TRUE, todo |-> todo]]
    BY <1>3 DEF RecoverList
  <2> HIDE DEF todo
  <2>3. RecoveryOK'
    BY <1>a, <2>1, <2>2 DEF RecoveryOK
  <2> QED
    BY <1>3, <2>3, KeepTypes DEF Sound, RecoverList, Recovering
<1>4. CASE Wipe(p)
  <2>1. ServerOK'
    BY <1>4, <1>a, <1>b DEF Wipe, ServerOK
  <2> QED
    BY <1>4, <2>1, KeepTypes DEF Sound, Wipe
<1>5. ASSUME NEW r \in Runs, Relist(p, r) PROVE Sound'
  BY <1>5, <1>a, QueueType, KeepTypes DEF Sound, Relist
<1>6. ASSUME NEW r \in Runs, Expire(p, r) PROVE Sound'
  <2>1. ExpiredOK'
    BY <1>6, <1>a DEF Expire, ExpiredOK
  <2> QED
    BY <1>6, <2>1, KeepTypes DEF Sound, Expire
<1>7. ASSUME NEW r \in Runs, ExecutionEnds(p, r) PROVE Sound'
  <2>1. PICK s \in {"succeeded", "failed"} : server' = [server EXCEPT ![p][r].state = s]
    BY <1>7 DEF ExecutionEnds
  <2> DEFINE e == [server[p][r] EXCEPT !.state = s]
  <2>2. server[p][r] \in Executions /\ server[p][r].state = "running"
    BY <1>7, <1>a DEF ServerOK, ExecutionEnds
  <2>3. e \in Executions
    BY <2>2, SMT DEF Executions, NoExec
  <2>4. server' = [server EXCEPT ![p][r] = e]
    BY <1>a, <2>1 DEF ServerOK
  <2> HIDE DEF e
  <2>5. ServerOK'
    BY <1>a, <2>3, <2>4, ServerType
  <2> QED
    BY <1>7, <2>5, KeepTypes DEF Sound, ExecutionEnds
<1>8. ASSUME NEW t \in recovery[p].todo, RecoverRun(p, t) PROVE Sound'
  <2>1. t.run \in Runs /\ t.obj \in Objects /\ t.obj.phase = "Running" /\ "recovery" \in Workers
    BY <1>a, SMT DEF RecoveryOK, Todos, Workers
  <2>2. RecoveryOK'
    <3>1. recovery[p] \in [listed : BOOLEAN, todo : SUBSET Todos]
      BY <1>a DEF RecoveryOK
    <3> DEFINE v == [recovery[p] EXCEPT !.todo = @ \ {t}]
    <3>2. v \in [listed : BOOLEAN, todo : SUBSET Todos] /\ v.todo \subseteq recovery[p].todo
      BY <3>1
    <3>3. recovery' = [recovery EXCEPT ![p] = v]
      BY <1>8, <1>a DEF RecoverRun, RecoveryOK
    <3> HIDE DEF v
    <3> QED
      BY <1>a, <3>2, <3>3 DEF RecoveryOK
  <2>3. WorkOK' /\ ActiveOK'
    <3>1. CASE UNCHANGED <<active, work>>
      BY <3>1, KeepTypes
    <3>2. CASE Recovered(p, "recovery", t.run, t.obj)
      BY <3>2, <2>1, RecoveredSound
    <3>3. CASE active' = [active EXCEPT ![p][t.run] = Claimed(TRUE)] /\ UNCHANGED work
      BY <3>3, <1>a, <2>1, ActiveType, ClaimTypes, KeepTypes
    <3> QED
      BY <1>8, <3>1, <3>2, <3>3 DEF RecoverRun
  <2> QED
    BY <1>8, <2>2, <2>3, KeepTypes DEF Sound, RecoverRun, Recovering
<1> QED
  BY <1>1, <1>2, <1>3, <1>4, <1>5, <1>6, <1>7, <1>8

\* The control plane and the fate of the Pods.
LEMMA ControlSound ==
    ASSUME Sound, UNCHANGED env, ControlPlane
    PROVE  Sound'
<1>a. /\ StoreOK /\ CacheOK /\ QueueOK /\ ExpiredOK /\ ActiveOK /\ CallsOK /\ ServerOK
      /\ WorkOK /\ RecoveryOK /\ PodsOK /\ FaultsOK /\ env \in Scenarios
  BY DEF Sound
<1>b. ASSUME NEW r \in Runs, NEW o \in Objects, Update(r, o) PROVE Sound'
  <2>1. StoreOK'
    BY <1>a, <1>b, PutType DEF Update
  <2> QED
    BY <1>b, <2>1, KeepTypes DEF Sound, Update, local, NoFault
<1>1. ASSUME NEW r \in Runs,
             \/ CancelPending(r) \/ Reap(r) \/ RequestTermination(r) \/ Delete(r)
             \/ \E p \in Pods : Bind(r, p)
      PROVE  Sound'
  <2> DEFINE o == store[r]
  <2>1. o \in Objects
    BY <1>a DEF StoreOK
  <2>2. {"Cancelled", "Failed", "Pending", "Scheduled", "Deleted"} \subseteq Phases
    BY DEF Phases, Outcomes
  <2>3. CASE CancelPending(r)
    BY <1>b, <2>1, <2>2, <2>3, ObjectTypes DEF CancelPending
  <2>4. CASE Reap(r)
    <3>1. CASE ShouldRetry(o)
      <4>1. o.attempt < MaxAttempts
        BY <1>a, <2>1, <3>1, EnvFacts, SMT DEF ShouldRetry, Objects
      <4>2. Retried(o) \in Objects
        BY <2>1, <4>1, ObjectTypes
      <4>3. [Retried(o) EXCEPT !.phase = "Pending", !.pod = NoPod] \in Objects
        BY <2>2, <4>2, ObjectTypes
      <4> QED
        BY <1>b, <2>4, <3>1, <4>3 DEF Reap
    <3>2. CASE ~ShouldRetry(o)
      BY <1>b, <2>1, <2>2, <2>4, <3>2, ObjectTypes DEF Reap
    <3> QED
      BY <3>1, <3>2
  <2>5. CASE RequestTermination(r)
    BY <1>b, <2>1, <2>5, ObjectTypes DEF RequestTermination
  <2>6. CASE Delete(r)
    BY <1>b, <2>1, <2>2, <2>6, ObjectTypes DEF Delete
  <2>7. ASSUME NEW p \in Pods, Bind(r, p) PROVE Sound'
    <3>1. [o EXCEPT !.phase = "Scheduled", !.pod = p] \in Objects
      BY <2>1, <2>2, ObjectTypes
    <3> QED
      BY <1>b, <2>7, <3>1 DEF Bind
  <2> QED
    BY <1>1, <2>3, <2>4, <2>5, <2>6, <2>7
<1>2. ASSUME NEW p \in Pods, Silence(p) \/ Heartbeat(p) PROVE Sound'
  <2>1. PodsOK'
    BY <1>2, <1>a DEF Silence, Heartbeat, PodsOK
  <2>2. FaultsOK'
    BY <1>2, KeepTypes DEF Silence, Heartbeat, NoFault
  <2> QED
    BY <1>2, <2>1, <2>2, KeepTypes DEF Sound, Silence, Heartbeat, local
<1>3. ASSUME NEW p \in Pods, Lose(p) PROVE Sound'
  <2>1. PodsOK' /\ QueueOK' /\ ExpiredOK' /\ CallsOK'
    BY <1>3, <1>a DEF Lose, PodsOK, QueueOK, ExpiredOK, CallsOK
  <2>2. StoreOK'
    BY <1>3, <1>a, SMT DEF Lose, StoreOK
  <2>5. ActiveOK' /\ ServerOK'
    <3>1. [r \in Runs |-> NoClaim] \in [Runs -> Claims] /\ [r \in Runs |-> NoExec] \in [Runs -> Executions]
      BY DEF Claims, Executions
    <3> QED
      BY <1>3, <1>a, <3>1 DEF Lose, ActiveOK, ServerOK
  <2>3. WorkOK'
    <3>1. Idle \in Steps /\ Idle.step # "write"
      BY DEF Steps, Idle
    <3>2. work' = [work EXCEPT ![p] = [w \in Workers |-> Idle]]
      BY <1>3 DEF Lose
    <3>3. work' \in [Pods -> [Workers -> Steps]]
      BY <1>a, <3>1, <3>2 DEF WorkOK
    <3>4. \A q \in Pods, w \in Workers : work'[q][w] = work[q][w] \/ work'[q][w] = Idle
      BY <1>a, <3>2 DEF WorkOK
    <3> QED
      BY <1>a, <3>1, <3>3, <3>4 DEF WorkOK
  <2>4. RecoveryOK'
    BY <1>3, <1>a DEF Lose, RecoveryOK
  <2> QED
    BY <1>3, <2>1, <2>2, <2>3, <2>4, <2>5, KeepTypes DEF Sound, Lose
<1> QED
  BY <1>1, <1>2, <1>3 DEF ControlPlane

\* The initial state is sound.
LEMMA SoundInit == Init => Sound
<1> SUFFICES ASSUME Init PROVE Sound
  OBVIOUS
<1>1. NewRun \in Objects
  BY TaskAssumption, SMT DEF NewRun, Objects, Phases
<1>2. env \in Scenarios /\ StoreOK /\ CacheOK /\ QueueOK /\ ExpiredOK /\ CallsOK
  BY <1>1, SMT DEF Init, StoreOK, CacheOK, QueueOK, ExpiredOK, CallsOK
<1>3. ActiveOK /\ ServerOK
  BY DEF Init, ActiveOK, ServerOK, Claims, Executions
<1>4. WorkOK /\ RecoveryOK
  BY DEF Init, WorkOK, RecoveryOK, Steps, Idle
<1>5. PodsOK /\ FaultsOK
  BY <1>2, EnvFacts, SMT DEF Init, PodsOK, FaultsOK
<1> QED
  BY <1>2, <1>3, <1>4, <1>5 DEF Sound

\* Every step keeps the state sound.
LEMMA SoundStep ==
    ASSUME Sound, [Next]_vars
    PROVE  Sound'
<1>1. CASE UNCHANGED vars
  BY <1>1, KeepTypes DEF vars, state, Sound
<1>2. CASE Next
  <2>1. UNCHANGED env
    BY <1>2 DEF Next
  <2>2. CASE ControlPlane
    BY <2>1, <2>2, ControlSound
  <2>3. ASSUME NEW p \in Pods, Runtimed(p) PROVE Sound'
    BY <2>1, <2>3, PodSound, WorkerSound, ReconcileSound, CallSound DEF Runtimed
  <2>4. ASSUME NEW p \in Pods, RuntimeServer(p) PROVE Sound'
    BY <2>1, <2>4, PodSound DEF RuntimeServer
  <2> QED
    BY <1>2, <2>2, <2>3, <2>4 DEF Next
<1> QED
  BY <1>1, <1>2

\* The invariant holds in every state of every behaviour.
THEOREM SoundAlways == Spec => []Sound
BY SoundInit, SoundStep, PTL DEF Spec

\* In every behaviour the state has the shape the model gives it, and the attempts
\* of a Run stay within the retry budget.
THEOREM TypeCorrect == Spec => []TypeOK
BY SoundAlways, SoundTypes, PTL

------------------------------------------------------------------------------
(* What the updates make of a Run.                                          *)

Finished(o) == o.phase \in Outcomes \cup {"Deleted"}

\* The updates of runtimed, of the scheduler, of the reaper and of users to Run r.
Placed(old, new) ==
    /\ old.phase = "Pending"
    /\ \E p \in Pods : pods[p] = "healthy" /\ new = [old EXCEPT !.phase = "Scheduled", !.pod = p]
Reported(old, new) == \E then \in Thens : Advances(old, new, then)
Dropped(old, new) == old.phase = "Pending" /\ old.cancel /\ new = Ended(old, "Cancelled")
Returned(old, new) == /\ old.phase = "Running" /\ old.attempt < MaxAttempts
                      /\ pods[old.pod] # "healthy"
                      /\ new = [Retried(old) EXCEPT !.phase = "Pending", !.pod = NoPod]
Abandoned(old, new) == /\ old.phase = "Running" /\ pods[old.pod] # "healthy"
                       /\ new = Ended(old, "Failed")
Requested(r, old, new) == /\ r \in env.withdrawn /\ old.phase # "Deleted" /\ ~old.cancel
                          /\ new = [old EXCEPT !.cancel = TRUE]
Removed(r, old, new) == /\ r \in env.withdrawn /\ old.phase # "Deleted"
                        /\ new = [old EXCEPT !.phase = "Deleted"]

\* Those of the control plane, and all of them.
Steered(r, old, new) ==
    \/ Placed(old, new) \/ Dropped(old, new) \/ Returned(old, new) \/ Abandoned(old, new)
    \/ Requested(r, old, new) \/ Removed(r, old, new)
Changes(r, old, new) == Reported(old, new) \/ Steered(r, old, new)

\* The status updates of the control plane.
LEMMA ControlStep ==
    ASSUME Sound, ControlPlane
    PROVE  \/ UNCHANGED store
           \/ \E r \in Runs, o \in Objects : Put(r, o) /\ Steered(r, store[r], o)
<1>a. StoreOK /\ env \in Scenarios
  BY DEF Sound
<1>1. ASSUME NEW r \in Runs, NEW p \in Pods, Bind(r, p)
      PROVE  \E o \in Objects : Put(r, o) /\ Steered(r, store[r], o)
  <2> DEFINE o == [store[r] EXCEPT !.phase = "Scheduled", !.pod = p]
  <2>1. store[r].phase = "Pending" /\ pods[p] = "healthy" /\ Put(r, o)
    BY <1>1 DEF Bind, Update
  <2>2. o \in Objects /\ Placed(store[r], o)
    BY <1>a, <2>1, ObjectTypes DEF StoreOK, Placed, Phases
  <2> QED
    BY <2>1, <2>2 DEF Steered
<1>2. ASSUME NEW r \in Runs, CancelPending(r)
      PROVE  \E o \in Objects : Put(r, o) /\ Steered(r, store[r], o)
  <2> DEFINE o == Ended(store[r], "Cancelled")
  <2>1. store[r].phase = "Pending" /\ store[r].cancel /\ Put(r, o)
    BY <1>2 DEF CancelPending, Update
  <2>2. o \in Objects /\ Dropped(store[r], o)
    BY <1>a, <2>1, ObjectTypes DEF StoreOK, Dropped, Phases, Outcomes
  <2> QED
    BY <2>1, <2>2 DEF Steered
<1>3. ASSUME NEW r \in Runs, Reap(r)
      PROVE  \E o \in Objects : Put(r, o) /\ Steered(r, store[r], o)
  <2>1. store[r] \in Objects /\ store[r].phase = "Running"
    BY <1>a, <1>3 DEF StoreOK, Reap, Monitored
  <2>2. CASE ShouldRetry(store[r])
    <3> DEFINE o == [Retried(store[r]) EXCEPT !.phase = "Pending", !.pod = NoPod]
    <3>1. store[r].attempt < MaxAttempts
      BY <1>a, <2>1, <2>2, EnvFacts, SMT DEF ShouldRetry, Objects
    <3>2. Retried(store[r]) \in Objects
      BY <2>1, <3>1, ObjectTypes
    <3>3. o \in Objects
      BY <3>2, ObjectTypes DEF Phases
    <3>4. Put(r, o) /\ Returned(store[r], o)
      BY <1>3, <2>1, <2>2, <3>1 DEF Reap, Update, Returned
    <3> QED
      BY <3>3, <3>4 DEF Steered
  <2>3. CASE ~ShouldRetry(store[r])
    <3> DEFINE o == Ended(store[r], "Failed")
    <3>1. o \in Objects
      BY <2>1, ObjectTypes DEF Phases, Outcomes
    <3>2. Put(r, o) /\ Abandoned(store[r], o)
      BY <1>3, <2>1, <2>3 DEF Reap, Update, Abandoned
    <3> QED
      BY <3>1, <3>2 DEF Steered
  <2> QED
    BY <2>2, <2>3
<1>4. ASSUME NEW r \in Runs, RequestTermination(r)
      PROVE  \E o \in Objects : Put(r, o) /\ Steered(r, store[r], o)
  <2> DEFINE o == [store[r] EXCEPT !.cancel = TRUE]
  <2>1. Put(r, o) /\ Requested(r, store[r], o)
    BY <1>4 DEF RequestTermination, Update, Requested
  <2>2. o \in Objects
    BY <1>a, ObjectTypes DEF StoreOK
  <2> QED
    BY <2>1, <2>2 DEF Steered
<1>5. ASSUME NEW r \in Runs, Delete(r)
      PROVE  \E o \in Objects : Put(r, o) /\ Steered(r, store[r], o)
  <2> DEFINE o == [store[r] EXCEPT !.phase = "Deleted"]
  <2>1. Put(r, o) /\ Removed(r, store[r], o)
    BY <1>5 DEF Delete, Update, Removed
  <2>2. o \in Objects
    BY <1>a, ObjectTypes DEF StoreOK, Phases
  <2> QED
    BY <2>1, <2>2 DEF Steered
<1>6. ASSUME NEW p \in Pods, Silence(p) \/ Heartbeat(p) \/ Lose(p) PROVE UNCHANGED store
  BY <1>6 DEF Silence, Heartbeat, Lose
<1> QED
  BY <1>1, <1>2, <1>3, <1>4, <1>5, <1>6 DEF ControlPlane

\* The status updates of a runtimed: what was decided, over the object it was
\* decided from.
LEMMA CommitStep ==
    ASSUME Sound, NEW p \in Pods, NEW w \in Workers, Commit(p, w)
    PROVE  LET k == work[p][w]
           IN /\ Alive(p) /\ k \in WriteSteps /\ k.run \in Runs /\ k.from \in Objects
              /\ k.to \in Objects /\ k.then \in Thens /\ store[k.run] = k.from
              /\ Advances(k.from, k.to, k.then) /\ Put(k.run, k.to)
<1>1. work[p][w] \in Steps /\ work[p][w].step = "write"
  BY DEF Sound, WorkOK, Commit, Writing
<1>2. work[p][w] \in WriteSteps
  BY <1>1, SMT DEF Steps, WriteSteps, ForgetSteps, ReleaseSteps, Idle
<1>3. Advances(work[p][w].from, work[p][w].to, work[p][w].then)
  BY <1>1 DEF Sound, WorkOK, Fits
<1>4. Alive(p) /\ store[work[p][w].run] = work[p][w].from /\ Put(work[p][w].run, work[p][w].to)
  BY DEF Commit, Writing, Current
<1> QED
  BY <1>2, <1>3, <1>4 DEF WriteSteps

\* Only runtimeds and the control plane change Runs.
LEMMA UpdateStep ==
    ASSUME Sound, [Next]_vars
    PROVE  \/ UNCHANGED store
           \/ \E p \in Pods, w \in Workers : Commit(p, w)
           \/ \E r \in Runs, o \in Objects : Put(r, o) /\ Steered(r, store[r], o)
<1>1. ASSUME NEW p \in Pods, NEW w \in Workers, Refused(p, w) \/ Forget(p, w) \/ Release(p, w)
      PROVE  UNCHANGED store
  BY <1>1 DEF Refused, Forget, Release
<1>2. ASSUME NEW p \in Pods, NEW r \in Runs,
             Reconcile(p, r) \/ Relist(p, r) \/ Expire(p, r) \/ ExecutionEnds(p, r)
      PROVE  UNCHANGED store
  BY <1>2 DEF Reconcile, Ignore, CleanupDeleted, ReconcileScheduled, ReconcileRecovered,
              StatusFails, ReconcileCancel, ReconcileBackoff, ReconcileTimeout, StartExecution,
              ReconcileMissing, ReconcileActive, Take, Relist, Expire, ExecutionEnds
<1>3. ASSUME NEW p \in Pods, NEW c \in calls[p],
             Execute(p, c) \/ ExecuteFails(p, c) \/ Started(p, c)
      PROVE  UNCHANGED store
  BY <1>3 DEF Execute, ExecuteFails, Started, Calling
<1>4. ASSUME NEW p \in Pods, Deliver(p) \/ Restart(p) \/ RecoverList(p) \/ Wipe(p)
                            \/ \E t \in recovery[p].todo : RecoverRun(p, t)
      PROVE  UNCHANGED store
  BY <1>4 DEF Deliver, Restart, RecoverList, Wipe, RecoverRun, Recovering
<1>5. CASE UNCHANGED vars
  BY <1>5 DEF vars, state
<1> QED
  BY <1>1, <1>2, <1>3, <1>4, <1>5, ControlStep DEF Next, Runtimed, RuntimeServer

\* Every step leaves the Runs alone or changes one of them as above.
LEMMA StoreStep ==
    ASSUME Sound, [Next]_vars
    PROVE  \/ UNCHANGED store
           \/ \E r \in Runs, o \in Objects : Put(r, o) /\ Changes(r, store[r], o)
<1>1. ASSUME NEW p \in Pods, NEW w \in Workers, Commit(p, w)
      PROVE  \E r \in Runs, o \in Objects : Put(r, o) /\ Changes(r, store[r], o)
  <2> DEFINE k == work[p][w]
  <2>1. /\ k.run \in Runs /\ k.to \in Objects /\ k.then \in Thens /\ store[k.run] = k.from
        /\ Advances(k.from, k.to, k.then) /\ Put(k.run, k.to)
    BY <1>1, CommitStep
  <2> HIDE DEF k
  <2>2. Changes(k.run, store[k.run], k.to)
    BY <2>1 DEF Changes, Reported
  <2> QED
    BY <2>1, <2>2
<1> QED
  BY <1>1, UpdateStep DEF Changes

------------------------------------------------------------------------------
(* Task execution implements the life of a Run.                             *)

View(o) == [phase |-> o.phase, pod |-> o.pod, attempt |-> o.attempt]

\* What an update makes of the status.
LEMMA StatusView ==
    ASSUME StoreOK, NEW r \in Runs, NEW o \in Objects, Put(r, o)
    PROVE  /\ Status' = [Status EXCEPT ![r] = View(o)]
           /\ Status[r] = View(store[r])
<1>1. store'[r] = o /\ \A q \in Runs \ {r} : store'[q] = store[q]
  BY DEF StoreOK, Put
<1>2. /\ Status = [q \in Runs |-> View(store[q])]
      /\ Status' = [q \in Runs |-> View(store'[q])]
  BY DEF Status, View
<1>3. \A q \in Runs : View(store'[q]) = IF q = r THEN View(o) ELSE View(store[q])
  BY <1>1
<1> QED
  BY <1>2, <1>3

\* Every update is a step of RunLifecycle or leaves the status as it was.
LEMMA LifecycleStep ==
    ASSUME Sound, [Next]_vars
    PROVE  Lifecycle!Next \/ UNCHANGED Status
<1>a. StoreOK
  BY DEF Sound
<1>1. ASSUME NEW r \in Runs, NEW o \in Objects, Put(r, o), Changes(r, store[r], o)
      PROVE  Lifecycle!Next \/ UNCHANGED Status
  <2> DEFINE old == store[r]
  <2>1. /\ Status' = [Status EXCEPT ![r] = View(o)] /\ Status[r] = View(old)
        /\ old \in Objects
    BY <1>1, <1>a, StatusView DEF StoreOK
  <2>2. Status[r].phase = old.phase /\ Status[r].pod = old.pod /\ Status[r].attempt = old.attempt
    BY <2>1, SMT DEF View
  <2> HIDE DEF old
  <2>3. CASE Placed(old, o)
    <3>1. PICK p \in Pods : o = [old EXCEPT !.phase = "Scheduled", !.pod = p]
      BY <2>3 DEF Placed
    <3>2. View(o) = [phase |-> "Scheduled", pod |-> p, attempt |-> old.attempt]
      BY <2>1, <3>1 DEF View, Objects
    <3>3. Lifecycle!Place(r)
      BY <2>1, <2>2, <2>3, <3>2 DEF Lifecycle!Place, Lifecycle!Set, Placed
    <3> QED
      BY <3>3 DEF Lifecycle!Next
  <2>4. ASSUME old.phase \in {"Pending", "Scheduled", "Running"}, NEW phase \in Outcomes,
               o \in {Ended(old, phase), Ended(Accepted(old), phase)}
        PROVE  Lifecycle!Next
    <3>1. View(o) = [phase |-> phase, pod |-> old.pod, attempt |-> old.attempt]
      BY <2>1, <2>4 DEF View, Objects, Ended, Accepted
    <3>2. Lifecycle!Move(r, phase)
      BY <2>1, <2>2, <3>1 DEF Lifecycle!Move, Lifecycle!Set
    <3>3. Lifecycle!End(r)
      BY <2>2, <2>4, <3>2 DEF Lifecycle!End, Lifecycle!Live
    <3> QED
      BY <3>3 DEF Lifecycle!Next
  <2>5. ASSUME View(o) = View(old) PROVE UNCHANGED Status
    <3>1. Status = [q \in Runs |-> Status[q]]
      BY DEF Status
    <3> QED
      BY <2>1, <2>5, <3>1
  <2>6. CASE Reported(old, o)
    <3>1. PICK then \in Thens : Advances(old, o, then)
      BY <2>6 DEF Reported
    <3>2. CASE then = "claimed"
      <4>1. View(o) = [phase |-> "Running", pod |-> old.pod, attempt |-> old.attempt]
        BY <2>1, <3>1, <3>2 DEF Advances, View, Objects
      <4>2. old.phase = "Scheduled"
        BY <3>1, <3>2 DEF Advances
      <4>3. Lifecycle!Claim(r)
        BY <2>1, <2>2, <4>1, <4>2 DEF Lifecycle!Claim, Lifecycle!Move, Lifecycle!Set
      <4> QED
        BY <4>3 DEF Lifecycle!Next
    <3>3. CASE then \in {"backoff", "poll", "watch"}
      <4>1. View(o) = View(old)
        BY <2>1, <3>1, <3>3 DEF Advances, View, Objects, Accepted
      <4> QED
        BY <2>5, <4>1
    <3>4. CASE then = "retry"
      <4>1. /\ old.phase = "Running" /\ old.attempt < MaxAttempts
            /\ o \in {Retried(old), Retried(Accepted(old))}
        BY <3>1, <3>4 DEF Advances
      <4>2. View(o) = [phase |-> "Running", pod |-> old.pod, attempt |-> old.attempt + 1]
        BY <2>1, <4>1 DEF View, Objects, Retried, Accepted
      <4>3. Lifecycle!Retry(r)
        BY <2>1, <2>2, <4>1, <4>2 DEF Lifecycle!Retry, Lifecycle!Set
      <4> QED
        BY <4>3 DEF Lifecycle!Next
    <3>5. CASE then = "end"
      <4>1. old.phase \in {"Pending", "Scheduled", "Running"}
        BY <3>1, <3>5 DEF Advances
      <4>2. PICK phase \in Outcomes : o \in {Ended(old, phase), Ended(Accepted(old), phase)}
        BY <3>1, <3>5 DEF Advances
      <4> QED
        BY <2>4, <4>1, <4>2
    <3> QED
      BY <3>2, <3>3, <3>4, <3>5 DEF Thens
  <2>7. CASE Dropped(old, o) \/ Abandoned(old, o)
    BY <2>4, <2>7 DEF Dropped, Abandoned, Outcomes
  <2>8. CASE Returned(old, o)
    <3>1. View(o) = [phase |-> "Pending", pod |-> NoPod, attempt |-> old.attempt + 1]
      BY <2>1, <2>8 DEF Returned, View, Objects, Retried
    <3>2. Lifecycle!Reset(r)
      BY <2>1, <2>2, <2>8, <3>1 DEF Lifecycle!Reset, Lifecycle!Set, Returned
    <3> QED
      BY <3>2 DEF Lifecycle!Next
  <2>9. CASE Requested(r, old, o)
    <3>1. View(o) = View(old)
      BY <2>1, <2>9 DEF Requested, View, Objects
    <3> QED
      BY <2>5, <3>1
  <2>10. CASE Removed(r, old, o)
    <3>1. View(o) = [phase |-> "Deleted", pod |-> old.pod, attempt |-> old.attempt]
      BY <2>1, <2>10 DEF Removed, View, Objects
    <3>2. Lifecycle!Delete(r)
      BY <2>1, <2>2, <2>10, <3>1 DEF Lifecycle!Delete, Lifecycle!Move, Lifecycle!Set, Removed
    <3> QED
      BY <3>2 DEF Lifecycle!Next
  <2> QED
    BY <1>1, <2>3, <2>6, <2>7, <2>8, <2>9, <2>10 DEF Changes, Steered, old
<1>2. CASE UNCHANGED store
  BY <1>2 DEF Status
<1> QED
  BY <1>1, <1>2, StoreStep

\* Whatever the runtimeds, the scheduler, the reaper and users do to a Run, with
\* whatever faults, its persisted status lives the life of RunLifecycle: so every
\* theorem about RunLifecycle holds of it.
THEOREM LifecycleImplemented == Spec => ImplementsLifecycle
<1>1. Init => Lifecycle!Init
  BY SMTT(30) DEF Init, Lifecycle!Init, NewRun, Status
<1>2. Sound /\ [Next]_vars => [Lifecycle!Next]_Status
  BY LifecycleStep
<1> QED
  BY <1>1, <1>2, SoundAlways, PTL DEF Spec, ImplementsLifecycle, Lifecycle!Spec

------------------------------------------------------------------------------
(* Updates only move a Run forward, so no value of it ever comes back.      *)

\* How far a Run has come within its attempt.
Stage(o) == CASE o.phase = "Pending" -> 0
              [] o.phase = "Scheduled" -> 1
              [] o.phase = "Running" -> 2 + (IF o.running THEN 2 ELSE 0)
                                          + (IF o.accepted THEN 1 ELSE 0)
              [] o.phase = "Deleted" -> 7
              [] OTHER -> 6
Rank(o) == 16 * o.attempt + 2 * Stage(o) + (IF o.cancel THEN 1 ELSE 0)

\* o is an earlier value of a Run that is now s.
Precedes(o, s) == /\ Rank(o) < Rank(s) /\ (Finished(o) => Finished(s))
                  /\ (o.phase = "Deleted" => s.phase = "Deleted") /\ (o.cancel => s.cancel)

\* The stage of an attempt is one of eight.
LEMMA StageRange == \A o \in Objects : Stage(o) \in 0 .. 7
BY SMT DEF Stage, Objects, Phases, Outcomes

\* The rank of a Run is a natural number.
LEMMA RankType == \A o \in Objects : Rank(o) \in Nat
<1> TAKE o \in Objects
<1>1. Stage(o) \in 0 .. 7 /\ o.attempt \in Nat
  BY StageRange, TaskAssumption, SMT DEF Objects
<1> HIDE DEF Stage
<1> QED
  BY <1>1, SMT DEF Rank

\* Every update leads from an earlier value to a later one.
LEMMA ChangesPrecede ==
    ASSUME NEW r \in Runs, NEW old \in Objects, NEW new \in Objects, Changes(r, old, new)
    PROVE  Precedes(old, new)
<1>a. /\ Stage(old) \in 0 .. 7 /\ Stage(new) \in 0 .. 7
      /\ old.attempt \in Nat /\ new.attempt \in Nat
  BY StageRange, TaskAssumption, SMT DEF Objects
<1>b. ASSUME new.attempt = old.attempt + 1, new.cancel = old.cancel
      PROVE  Rank(old) < Rank(new)
  BY <1>a, <1>b, SMT DEF Rank
<1>c. ASSUME new.attempt = old.attempt, new.cancel = old.cancel, Stage(old) < Stage(new)
      PROVE  Rank(old) < Rank(new)
  BY <1>a, <1>c, SMT DEF Rank
<1>d. old.accepted \in BOOLEAN /\ old.running \in BOOLEAN /\ old.cancel \in BOOLEAN
  BY DEF Objects
<1>1. CASE Placed(old, new)
  <2>1. /\ old.phase = "Pending" /\ new.phase = "Scheduled"
        /\ new.attempt = old.attempt /\ new.cancel = old.cancel
    BY <1>1 DEF Placed, Objects
  <2>2. Stage(old) < Stage(new)
    BY <2>1, SMT DEF Stage
  <2> QED
    BY <1>c, <2>1, <2>2 DEF Precedes, Finished, Outcomes
<1>e. ASSUME old.phase \in {"Pending", "Scheduled", "Running"}, NEW phase \in Outcomes,
             new \in {Ended(old, phase), Ended(Accepted(old), phase)}
      PROVE  Precedes(old, new)
  <2>1. new.phase = phase /\ new.attempt = old.attempt /\ new.cancel = old.cancel
    BY <1>e DEF Objects, Ended, Accepted
  <2>2. Stage(new) = 6 /\ Stage(old) < 6
    BY <1>d, <1>e, <2>1, SMT DEF Stage, Outcomes
  <2> QED
    BY <1>c, <1>e, <2>1, <2>2 DEF Precedes, Finished, Outcomes
<1>2. CASE Reported(old, new)
  <2>1. PICK then \in Thens : Advances(old, new, then)
    BY <1>2 DEF Reported
  <2>2. CASE then = "claimed"
    <3>1. /\ old.phase = "Scheduled" /\ new.phase = "Running"
          /\ new.attempt = old.attempt /\ new.cancel = old.cancel
      BY <2>1, <2>2 DEF Advances, Objects
    <3>2. Stage(old) = 1 /\ Stage(new) >= 2
      BY <3>1, SMT DEF Stage
    <3> QED
      BY <1>a, <1>c, <3>1, <3>2, SMT DEF Precedes, Finished, Outcomes
  <2>3. CASE then = "backoff"
    <3>1. /\ old.phase = "Running" /\ new.phase = "Running" /\ ~old.running /\ new.running
          /\ new.attempt = old.attempt /\ new.cancel = old.cancel
      BY <2>1, <2>3 DEF Advances, Objects
    <3>2. Stage(old) <= 3 /\ Stage(new) >= 4
      BY <3>1, SMT DEF Stage
    <3> QED
      BY <1>a, <1>c, <3>1, <3>2, SMT DEF Precedes, Finished, Outcomes
  <2>4. CASE then \in {"poll", "watch"}
    <3>1. /\ old.phase = "Running" /\ new.phase = "Running" /\ ~old.accepted /\ new.accepted
          /\ new.running = old.running /\ new.attempt = old.attempt /\ new.cancel = old.cancel
      BY <2>1, <2>4 DEF Advances, Objects, Accepted
    <3>2. Stage(old) < Stage(new)
      BY <1>d, <3>1, SMT DEF Stage
    <3> QED
      BY <1>a, <1>c, <3>1, <3>2 DEF Precedes, Finished, Outcomes
  <2>5. CASE then = "retry"
    <3>1. /\ old.phase = "Running" /\ new.phase = "Running"
          /\ new.attempt = old.attempt + 1 /\ new.cancel = old.cancel
      BY <2>1, <2>5 DEF Advances, Objects, Accepted, Retried
    <3> QED
      BY <1>b, <3>1 DEF Precedes, Finished, Outcomes
  <2>6. CASE then = "end"
    <3>1. PICK phase \in Outcomes : new \in {Ended(old, phase), Ended(Accepted(old), phase)}
      BY <2>1, <2>6 DEF Advances
    <3> QED
      BY <1>e, <2>1, <2>6, <3>1 DEF Advances
  <2> QED
    BY <2>2, <2>3, <2>4, <2>5, <2>6 DEF Thens
<1>3. CASE Dropped(old, new) \/ Abandoned(old, new)
  BY <1>3, <1>e DEF Dropped, Abandoned, Outcomes
<1>4. CASE Returned(old, new)
  <2>1. /\ old.phase = "Running" /\ new.phase = "Pending"
        /\ new.attempt = old.attempt + 1 /\ new.cancel = old.cancel
    BY <1>4 DEF Returned, Retried, Objects
  <2> QED
    BY <1>b, <2>1 DEF Precedes, Finished, Outcomes
<1>5. CASE Requested(r, old, new)
  <2>1. /\ new.phase = old.phase /\ new.attempt = old.attempt /\ ~old.cancel /\ new.cancel
        /\ new.running = old.running /\ new.accepted = old.accepted
    BY <1>5 DEF Requested, Objects
  <2>2. Stage(new) = Stage(old)
    BY <2>1 DEF Stage
  <2>3. Rank(old) < Rank(new)
    BY <1>a, <2>1, <2>2, SMT DEF Rank
  <2> QED
    BY <2>1, <2>3 DEF Precedes, Finished
<1>6. CASE Removed(r, old, new)
  <2>1. /\ old.phase # "Deleted" /\ new.phase = "Deleted"
        /\ new.attempt = old.attempt /\ new.cancel = old.cancel
    BY <1>6 DEF Removed, Objects
  <2>2. Stage(new) = 7 /\ Stage(old) < 7
    BY <1>d, <2>1, SMT DEF Stage, Objects, Phases, Outcomes
  <2> QED
    BY <1>c, <2>1, <2>2 DEF Precedes, Finished, Outcomes
<1> QED
  BY <1>1, <1>2, <1>3, <1>4, <1>5, <1>6 DEF Changes, Steered

\* The same of one step.
LEMMA StepsAdvance ==
    ASSUME Sound, [Next]_vars, NEW r \in Runs
    PROVE  store'[r] = store[r] \/ Precedes(store[r], store'[r])
<1>1. ASSUME NEW q \in Runs, NEW o \in Objects, Put(q, o), Changes(q, store[q], o)
      PROVE  store'[r] = store[r] \/ Precedes(store[r], store'[r])
  <2>1. Precedes(store[q], o)
    BY <1>1, ChangesPrecede DEF Sound, StoreOK
  <2>2. store'[r] = IF r = q THEN o ELSE store[r]
    BY <1>1 DEF Sound, StoreOK, Put
  <2> QED
    BY <2>1, <2>2
<1> QED
  BY <1>1, StoreStep

\* A Run whose object differs from an earlier one is further on, for good.
Advancing == \A r \in Runs : store'[r] # store[r] => Precedes(store[r], store'[r])

\* Every status update moves its Run strictly forward (attempt, then phase and
\* conditions, then termination request), never leaves an outcome and never takes
\* back a termination request or a deletion. So no object ever returns to an
\* earlier value, and comparing whole objects (Current) decides exactly what
\* comparing resource versions decides.
THEOREM UpdatesAdvance == Spec => [][Advancing]_vars
<1>1. Sound /\ [Next]_vars => [Advancing]_vars
  BY StepsAdvance DEF Advancing
<1> QED
  BY <1>1, SoundAlways, PTL DEF Spec

------------------------------------------------------------------------------
(* Every copy of a Run that somebody holds is an earlier value or current.  *)

Seen(r, o) == o = store[r] \/ Precedes(o, store[r])

CacheSeen == \A p \in Pods, r \in Runs : Seen(r, cache[p][r])
InboxSeen == \A p \in Pods : \A i \in DOMAIN inbox[p] : Seen(inbox[p][i][1], inbox[p][i][2])
WorkSeen == \A p \in Pods, w \in Workers :
               work[p][w].step = "write" => Seen(work[p][w].run, work[p][w].from)
TodoSeen == \A p \in Pods : \A t \in recovery[p].todo : Seen(t.run, t.obj)
Ordered == CacheSeen /\ InboxSeen /\ WorkSeen /\ TodoSeen

\* What was seen stays seen.
LEMMA SeenKept ==
    ASSUME Sound, [Next]_vars, NEW r \in Runs, NEW o \in Objects, Seen(r, o)
    PROVE  o = store'[r] \/ Precedes(o, store'[r])
<1>1. store'[r] = store[r] \/ Precedes(store[r], store'[r])
  BY StepsAdvance
<1>2. store[r] \in Objects /\ store'[r] \in Objects
  BY SoundStep DEF Sound, StoreOK
<1>3. Rank(o) \in Nat /\ Rank(store[r]) \in Nat /\ Rank(store'[r]) \in Nat
  BY <1>2, RankType
<1> QED
  BY <1>1, <1>3, SMT DEF Seen, Precedes

\* The updates in hand were decided from a cached or listed Run, or follow an
\* update that was just accepted.
Origin(p, k) == \/ k.from = cache[p][k.run]
                \/ \E t \in recovery[p].todo : t.run = k.run /\ t.obj = k.from
Origins == \A p \in Pods, w \in Workers :
              work'[p][w].step = "write" =>
                 \/ work'[p][w] = work[p][w]
                 \/ work'[p][w].run \in Runs /\ Origin(p, work'[p][w])
                 \/ work'[p][w].run \in Runs /\ work'[p][w].from = store'[work'[p][w].run]

\* What a decided update leaves in work.
Wrote(p, w, r, o) == \E k : /\ work' = [work EXCEPT ![p][w] = k]
                            /\ k.step = "write" => k.run = r /\ k.from = o

\* Every way a worker decides on an update starts from the object it read.
LEMMA WroteForms ==
    ASSUME NEW p \in Pods, NEW w \in Workers, NEW r \in Runs, NEW o
    PROVE  /\ \A to, then, why : Write(p, w, r, o, to, then, why) => Wrote(p, w, r, o)
           /\ \A x, why : Fail(p, w, r, o, x, why) => Wrote(p, w, r, o)
           /\ Succeed(p, w, r, o) => Wrote(p, w, r, o)
           /\ \A k : SetWork(p, w, k) /\ k.step # "write" => Wrote(p, w, r, o)
<1>1. ASSUME NEW to, NEW then, NEW why, Write(p, w, r, o, to, then, why) PROVE Wrote(p, w, r, o)
  <2> DEFINE k == [step |-> "write", run |-> r, from |-> o, to |-> to, then |-> then,
                   why |-> why]
  <2>1. work' = [work EXCEPT ![p][w] = k] /\ k.run = r /\ k.from = o
    BY <1>1 DEF Write
  <2> HIDE DEF k
  <2> QED
    BY <2>1 DEF Wrote
<1>2. ASSUME NEW x, NEW why, Fail(p, w, r, o, x, why) PROVE Wrote(p, w, r, o)
  BY <1>1, <1>2 DEF Fail
<1>3. ASSUME Succeed(p, w, r, o) PROVE Wrote(p, w, r, o)
  BY <1>1, <1>3 DEF Succeed
<1>4. ASSUME NEW k, SetWork(p, w, k), k.step # "write" PROVE Wrote(p, w, r, o)
  BY <1>4 DEF SetWork, Wrote
<1> QED
  BY <1>1, <1>2, <1>3, <1>4

\* An update that starts from the cache, the todo or the step before has such an origin.
LEMMA WroteOrigins ==
    ASSUME Sound, NEW p \in Pods, NEW w \in Workers, NEW r \in Runs, NEW o, Wrote(p, w, r, o),
           \/ o = cache[p][r]
           \/ \E t \in recovery[p].todo : t.run = r /\ t.obj = o
           \/ o = store'[r]
    PROVE  Origins
<1>1. PICK k : /\ work' = [work EXCEPT ![p][w] = k]
               /\ k.step = "write" => k.run = r /\ k.from = o
  BY DEF Wrote
<1>2. \A q \in Pods, v \in Workers :
        work'[q][v] = work[q][v] \/ (q = p /\ work'[q][v] = k)
  BY <1>1 DEF Sound, WorkOK
<1> QED
  BY <1>1, <1>2, SMT DEF Origins, Origin

\* Every update a step begins has such an origin.
LEMMA OriginsStep ==
    ASSUME Sound, [Next]_vars
    PROVE  Origins
<1>a. "main" \in Workers /\ "recovery" \in Workers /\ Idle.step # "write"
  BY DEF Workers, Idle
<1>b. ASSUME UNCHANGED work PROVE Origins
  BY <1>b DEF Origins
<1>1. ASSUME NEW p \in Pods, NEW r \in Runs, Reconcile(p, r) PROVE Origins
  <2>1. UNCHANGED work \/ Wrote(p, "main", r, cache[p][r])
    <3>1. CASE Ignore(p, r) \/ StatusFails(p, r) \/ StartExecution(p, r)
      BY <3>1 DEF Ignore, StatusFails, StartExecution
    <3>2. CASE CleanupDeleted(p, r)
      BY <1>a, <3>2, WroteForms DEF CleanupDeleted, ToForget
    <3>3. CASE ReconcileScheduled(p, r) \/ ReconcileCancel(p, r) \/ ReconcileBackoff(p, r)
      BY <1>a, <3>3, WroteForms DEF ReconcileScheduled, ReconcileCancel, ReconcileBackoff
    <3>4. CASE ReconcileRecovered(p, r)
      BY <1>a, <3>4, WroteForms DEF ReconcileRecovered, Recovered
    <3>5. CASE ReconcileTimeout(p, r) \/ ReconcileMissing(p, r)
      BY <1>a, <3>5, WroteForms DEF ReconcileTimeout, ReconcileMissing
    <3>6. CASE ReconcileActive(p, r)
      BY <1>a, <3>6, WroteForms DEF ReconcileActive
    <3> QED
      BY <1>1, <3>1, <3>2, <3>3, <3>4, <3>5, <3>6 DEF Reconcile
  <2> QED
    BY <1>a, <1>b, <2>1, WroteOrigins
<1>2. ASSUME NEW p \in Pods, NEW w \in Workers, Commit(p, w) PROVE Origins
  <2> DEFINE k == work[p][w]
  <2>1. /\ k.run \in Runs /\ k.to \in Objects /\ Put(k.run, k.to)
    BY <1>2, CommitStep
  <2>2. \/ Fail(p, w, k.run, k.to, k.to, "source") \/ SetWork(p, w, Idle)
        \/ SetWork(p, w, ToForget(k.run, k.then))
    BY <1>2 DEF Commit
  <2>3. ToForget(k.run, k.then).step # "write"
    BY DEF ToForget
  <2>4. k.to = store'[k.run]
    BY <2>1 DEF Put, Sound, StoreOK
  <2> HIDE DEF k
  <2>5. Wrote(p, w, k.run, k.to)
    BY <1>a, <2>1, <2>2, <2>3, WroteForms
  <2> QED
    BY <2>1, <2>4, <2>5, WroteOrigins
<1>3. ASSUME NEW p \in Pods, NEW w \in Workers, Refused(p, w) \/ Forget(p, w) \/ Release(p, w)
      PROVE  Origins
  <2>1. PICK k : work' = [work EXCEPT ![p][w] = k] /\ k.step # "write"
    BY <1>a, <1>3, SMT DEF Refused, Forget, Release, SetWork
  <2>2. \A q \in Pods, v \in Workers : work'[q][v] = work[q][v] \/ work'[q][v] = k
    BY <2>1 DEF Sound, WorkOK
  <2> QED
    BY <2>1, <2>2 DEF Origins
<1>4. ASSUME NEW p \in Pods, NEW t \in recovery[p].todo, RecoverRun(p, t) PROVE Origins
  <2>1. t.run \in Runs
    BY SMT DEF Sound, RecoveryOK, Todos
  <2>2. UNCHANGED work \/ Wrote(p, "recovery", t.run, t.obj)
    BY <1>a, <1>4, <2>1, WroteForms DEF RecoverRun, Recovered
  <2> QED
    BY <1>a, <1>b, <2>1, <2>2, WroteOrigins
<1>5. ASSUME NEW p \in Pods, Restart(p) \/ Lose(p) PROVE Origins
  <2>1. \A q \in Pods, w \in Workers : work'[q][w] = work[q][w] \/ work'[q][w] = Idle
    BY <1>5, SMT DEF Restart, Lose, Sound, WorkOK
  <2> QED
    BY <1>a, <2>1 DEF Origins
<1>6. CASE UNCHANGED vars
  BY <1>6, <1>b DEF vars, state
<1>7. ASSUME NEW p \in Pods,
             \/ Deliver(p) \/ RecoverList(p) \/ Wipe(p)
             \/ \E r \in Runs : Relist(p, r) \/ Expire(p, r) \/ ExecutionEnds(p, r)
             \/ \E c \in calls[p] : Execute(p, c) \/ ExecuteFails(p, c) \/ Started(p, c)
             \/ Silence(p) \/ Heartbeat(p)
      PROVE  Origins
  BY <1>7, <1>b DEF Deliver, RecoverList, Wipe, Relist, Expire, ExecutionEnds, Execute,
                    ExecuteFails, Started, Calling, Silence, Heartbeat, local
<1>8. ASSUME NEW r \in Runs,
             \/ CancelPending(r) \/ Reap(r) \/ RequestTermination(r) \/ Delete(r)
             \/ \E p \in Pods : Bind(r, p)
      PROVE  Origins
  BY <1>8, <1>b DEF CancelPending, Reap, RequestTermination, Delete, Bind, Update, local
<1> QED
  BY <1>1, <1>2, <1>3, <1>4, <1>5, <1>6, <1>7, <1>8
  DEF Next, Runtimed, RuntimeServer, ControlPlane

\* Where the entries of the caches, watches and recovery lists come from.
Arrivals ==
    /\ \A p \in Pods : \A i \in DOMAIN inbox'[p] :
          \/ \E j \in DOMAIN inbox[p] : inbox'[p][i] = inbox[p][j]
          \/ Alive(p) /\ \E r \in Runs : inbox'[p][i] = <<r, store'[r]>>
    /\ \A p \in Pods, r \in Runs :
          \/ cache'[p][r] = cache[p][r]
          \/ cache'[p][r] = store'[r]
          \/ \E j \in DOMAIN inbox[p] : inbox[p][j] = <<r, cache'[p][r]>>
    /\ \A p \in Pods : \A t \in recovery'[p].todo :
          t \in recovery[p].todo \/ (t.obj = store'[t.run] /\ t.run \in Runs)

\* Every copy of a Run a step adds comes from the API server or another copy.
LEMMA ArrivalsStep ==
    ASSUME Sound, [Next]_vars
    PROVE  Arrivals
<1>a. StoreOK /\ CacheOK /\ RecoveryOK
  BY DEF Sound
<1>b. ASSUME UNCHANGED inbox
      PROVE  \A p \in Pods : \A i \in DOMAIN inbox'[p] :
                \E j \in DOMAIN inbox[p] : inbox'[p][i] = inbox[p][j]
  BY <1>b
<1>c. ASSUME UNCHANGED <<inbox, cache, recovery>> PROVE Arrivals
  BY <1>b, <1>c DEF Arrivals
<1>1. ASSUME NEW r \in Runs, NEW o \in Objects, Put(r, o), UNCHANGED <<cache, recovery>>
      PROVE  Arrivals
  <2>1. ASSUME NEW p \in Pods, NEW i \in DOMAIN inbox'[p]
        PROVE  \/ \E j \in DOMAIN inbox[p] : inbox'[p][i] = inbox[p][j]
               \/ Alive(p) /\ \E q \in Runs : inbox'[p][i] = <<q, store'[q]>>
    <3> DEFINE e == <<r, o>>
    <3>1. inbox'[p] = IF Alive(p) THEN Append(inbox[p], e) ELSE <<>>
      BY <1>1 DEF Put
    <3>2. store'[r] = o
      BY <1>1, <1>a DEF Put, StoreOK
    <3>3. inbox[p] \in Seq(Runs \X Objects) /\ e \in Runs \X Objects
      BY <1>a DEF StoreOK
    <3>4. CASE ~Alive(p)
      BY <3>1, <3>4, SMT
    <3>5. CASE Alive(p)
      <4> HIDE DEF e
      <4>1. i \in DOMAIN inbox[p] \/ i = Len(inbox[p]) + 1
        BY <3>1, <3>3, <3>5, SMT
      <4>2. i \in DOMAIN inbox[p] => inbox'[p][i] = inbox[p][i]
        BY <3>1, <3>3, <3>5, SMT
      <4>3. i = Len(inbox[p]) + 1 => inbox'[p][i] = e
        BY <3>1, <3>3, <3>5, SMT
      <4> QED
        BY <3>2, <3>5, <4>1, <4>2, <4>3 DEF e
    <3> QED
      BY <3>4, <3>5
  <2> QED
    BY <1>1, <2>1 DEF Arrivals
<1>2. ASSUME NEW p \in Pods, Deliver(p) PROVE Arrivals
  <2>1. inbox[p] \in Seq(Runs \X Objects) /\ inbox[p] # <<>>
    BY <1>2, <1>a DEF Deliver, StoreOK
  <2> DEFINE e == Head(inbox[p])
  <2>2. /\ cache' = [cache EXCEPT ![p][e[1]] = e[2]]
        /\ inbox' = [inbox EXCEPT ![p] = Tail(@)] /\ UNCHANGED <<store, recovery>>
    BY <1>2 DEF Deliver
  <2>3. e \in Runs \X Objects /\ 1 \in DOMAIN inbox[p] /\ inbox[p][1] = e
    BY <2>1, SMT
  <2>4. e[1] \in Runs /\ e = <<e[1], e[2]>>
    BY <2>3, SMT
  <2> HIDE DEF e
  <2>5. ASSUME NEW q \in Pods, NEW i \in DOMAIN inbox'[q]
        PROVE  \E j \in DOMAIN inbox[q] : inbox'[q][i] = inbox[q][j]
    <3>1. CASE q = p
      <4>1. inbox'[q] = Tail(inbox[p])
        BY <1>a, <2>2, <3>1 DEF StoreOK
      <4>2. i + 1 \in DOMAIN inbox[p] /\ inbox'[q][i] = inbox[p][i + 1]
        BY <2>1, <4>1, SMT
      <4> QED
        BY <3>1, <4>2
    <3>2. CASE q # p
      BY <1>a, <2>2, <3>2 DEF StoreOK
    <3> QED
      BY <3>1, <3>2
  <2>6. ASSUME NEW q \in Pods, NEW r \in Runs
        PROVE  cache'[q][r] = cache[q][r] \/ (q = p /\ <<r, cache'[q][r]>> = e)
    BY <1>a, <2>2, <2>4 DEF CacheOK
  <2> QED
    BY <2>2, <2>3, <2>5, <2>6, SMT DEF Arrivals
<1>3. ASSUME NEW p \in Pods, Restart(p) PROVE Arrivals
  <2>1. \A q \in Pods : inbox'[q] = inbox[q] \/ inbox'[q] = <<>>
    BY <1>3, <1>a DEF Restart, StoreOK
  <2>2. \A q \in Pods, r \in Runs : cache'[q][r] = cache[q][r] \/ cache'[q][r] = store'[r]
    BY <1>3, <1>a DEF Restart, CacheOK
  <2>3. \A q \in Pods : recovery'[q] = recovery[q] \/ recovery'[q].todo = {}
    BY <1>3, <1>a DEF Restart, RecoveryOK
  <2> QED
    BY <2>1, <2>2, <2>3, SMT DEF Arrivals
<1>4. ASSUME NEW p \in Pods, Lose(p) PROVE Arrivals
  <2>1. \A q \in Pods : inbox'[q] = inbox[q] \/ inbox'[q] = <<>>
    BY <1>4, <1>a DEF Lose, StoreOK
  <2>2. \A q \in Pods : recovery'[q] = recovery[q] \/ recovery'[q].todo = {}
    BY <1>4, <1>a DEF Lose, RecoveryOK
  <2> QED
    BY <1>4, <2>1, <2>2, SMT DEF Arrivals, Lose
<1>5. ASSUME NEW p \in Pods, RecoverList(p) PROVE Arrivals
  <2> DEFINE mine == {r \in Runs : store[r].pod = p /\ store[r].phase = "Running"}
  <2> DEFINE todo == {[run |-> r, obj |-> store[r], there |-> server[p][r] # NoExec] : r \in mine}
  <2>1. recovery' = [recovery EXCEPT ![p] = [listed |-> TRUE, todo |-> todo]]
        /\ UNCHANGED <<store, cache, inbox>>
    BY <1>5 DEF RecoverList, Recovering
  <2>2. \A t \in todo : t.obj = store[t.run] /\ t.run \in Runs
    BY SMT
  <2> HIDE DEF todo
  <2>3. \A q \in Pods : recovery'[q] = recovery[q] \/ recovery'[q].todo = todo
    BY <1>a, <2>1 DEF RecoveryOK
  <2> QED
    BY <1>b, <2>1, <2>2, <2>3 DEF Arrivals
<1>6. ASSUME NEW p \in Pods, NEW t \in recovery[p].todo, RecoverRun(p, t) PROVE Arrivals
  <2>1. \A q \in Pods : recovery'[q].todo \subseteq recovery[q].todo
    BY <1>6, <1>a DEF RecoverRun, RecoveryOK
  <2> QED
    BY <1>6, <1>b, <2>1 DEF Arrivals, RecoverRun, Recovering
<1>7. ASSUME NEW p \in Pods, NEW w \in Workers, Commit(p, w) PROVE Arrivals
  <2>1. work[p][w].run \in Runs /\ work[p][w].to \in Objects /\ Put(work[p][w].run, work[p][w].to)
    BY <1>7, CommitStep
  <2>2. UNCHANGED <<cache, recovery>>
    BY <1>7 DEF Commit
  <2> QED
    BY <1>1, <2>1, <2>2
<1>8. ASSUME NEW p \in Pods, NEW w \in Workers, Refused(p, w) \/ Forget(p, w) \/ Release(p, w)
      PROVE  Arrivals
  BY <1>8, <1>c DEF Refused, Forget, Release
<1>9. ASSUME NEW p \in Pods, NEW r \in Runs,
             Reconcile(p, r) \/ Relist(p, r) \/ Expire(p, r) \/ ExecutionEnds(p, r)
      PROVE  Arrivals
  BY <1>9, <1>c
  DEF Reconcile, Ignore, CleanupDeleted, ReconcileScheduled, ReconcileRecovered,
      StatusFails, ReconcileCancel, ReconcileBackoff, ReconcileTimeout, StartExecution,
      ReconcileMissing, ReconcileActive, Take, Relist, Expire, ExecutionEnds
<1>10. ASSUME NEW p \in Pods, Wipe(p) \/ Silence(p) \/ Heartbeat(p)
                 \/ \E c \in calls[p] : Execute(p, c) \/ ExecuteFails(p, c) \/ Started(p, c)
      PROVE  Arrivals
  BY <1>10, <1>c DEF Wipe, Silence, Heartbeat, local, Execute, ExecuteFails, Started, Calling
<1>11. ASSUME NEW r \in Runs,
             \/ CancelPending(r) \/ Reap(r) \/ RequestTermination(r) \/ Delete(r)
             \/ \E p \in Pods : Bind(r, p)
      PROVE  Arrivals
  <2>1. PICK o : Put(r, o) /\ UNCHANGED <<cache, recovery>>
    BY <1>11 DEF CancelPending, Reap, RequestTermination, Delete, Bind, Update, local
  <2>2. o \in Objects
    <3>1. store'[r] = o
      BY <1>a, <2>1 DEF Put, StoreOK
    <3>2. store'[r] \in Objects
      BY SoundStep DEF Sound, StoreOK
    <3> QED
      BY <3>1, <3>2
  <2> QED
    BY <1>1, <2>1, <2>2
<1>12. CASE UNCHANGED vars
  BY <1>12, <1>c DEF vars, state
<1> QED
  BY <1>2, <1>3, <1>4, <1>5, <1>6, <1>7, <1>8, <1>9, <1>10, <1>11, <1>12
  DEF Next, Runtimed, RuntimeServer, ControlPlane

\* Every step keeps the copies ordered.
LEMMA OrderedStep ==
    ASSUME Sound, Ordered, [Next]_vars
    PROVE  Ordered'
<1>a. Sound' /\ Arrivals /\ Origins
  BY SoundStep, ArrivalsStep, OriginsStep
<1>b. ASSUME NEW r \in Runs, NEW o \in Objects, Seen(r, o)
      PROVE  o = store'[r] \/ Precedes(o, store'[r])
  BY <1>b, SeenKept
<1>1. CacheSeen'
  <2> SUFFICES ASSUME NEW p \in Pods, NEW r \in Runs
               PROVE  cache'[p][r] = store'[r] \/ Precedes(cache'[p][r], store'[r])
    BY DEF CacheSeen, Seen
  <2>1. CASE cache'[p][r] = cache[p][r]
    BY <1>b, <2>1 DEF Ordered, CacheSeen, Sound, CacheOK
  <2>2. ASSUME NEW j \in DOMAIN inbox[p], inbox[p][j] = <<r, cache'[p][r]>>
        PROVE  cache'[p][r] = store'[r] \/ Precedes(cache'[p][r], store'[r])
    <3>1. Seen(inbox[p][j][1], inbox[p][j][2])
      BY <2>2 DEF Ordered, InboxSeen
    <3>2. Seen(r, cache'[p][r]) /\ cache'[p][r] \in Objects
      BY <1>a, <2>2, <3>1, SMT DEF Sound, CacheOK
    <3> QED
      BY <1>b, <3>2
  <2> QED
    BY <1>a, <2>1, <2>2 DEF Arrivals
<1>2. InboxSeen'
  <2> SUFFICES ASSUME NEW p \in Pods, NEW i \in DOMAIN inbox'[p], NEW e, e = inbox'[p][i]
               PROVE  e[2] = store'[e[1]] \/ Precedes(e[2], store'[e[1]])
    BY DEF InboxSeen, Seen
  <2>1. ASSUME NEW j \in DOMAIN inbox[p], e = inbox[p][j]
        PROVE  e[2] = store'[e[1]] \/ Precedes(e[2], store'[e[1]])
    <3>1. Seen(e[1], e[2])
      BY <2>1 DEF Ordered, InboxSeen
    <3>2. inbox[p] \in Seq(Runs \X Objects)
      BY DEF Sound, StoreOK
    <3>3. e \in Runs \X Objects
      BY <2>1, <3>2, SMT
    <3> QED
      BY <1>b, <3>1, <3>3
  <2>2. ASSUME NEW r \in Runs, e = <<r, store'[r]>> PROVE e[2] = store'[e[1]]
    BY <2>2, SMT
  <2> QED
    BY <1>a, <2>1, <2>2 DEF Arrivals
<1>3. WorkSeen'
  <2> SUFFICES ASSUME NEW p \in Pods, NEW w \in Workers, NEW k, k = work'[p][w], k.step = "write"
               PROVE  k.from = store'[k.run] \/ Precedes(k.from, store'[k.run])
    BY DEF WorkSeen, Seen
  <2>1. k \in WriteSteps
    BY <1>a, SMT DEF Sound, WorkOK, Steps, WriteSteps, ForgetSteps, ReleaseSteps, Idle
  <2>2. k.run \in Runs /\ k.from \in Objects
    BY <2>1 DEF WriteSteps
  <2>3. CASE k = work[p][w]
    BY <1>b, <2>2, <2>3 DEF Ordered, WorkSeen
  <2>4. CASE Origin(p, k)
    BY <1>b, <2>2, <2>4 DEF Ordered, CacheSeen, TodoSeen, Origin
  <2> QED
    BY <1>a, <2>3, <2>4 DEF Origins
<1>4. TodoSeen'
  <2> SUFFICES ASSUME NEW p \in Pods, NEW t \in recovery'[p].todo
               PROVE  t.obj = store'[t.run] \/ Precedes(t.obj, store'[t.run])
    BY DEF TodoSeen, Seen
  <2>1. CASE t \in recovery[p].todo
    BY <1>b, <2>1, SMT DEF Ordered, TodoSeen, Sound, RecoveryOK, Todos
  <2> QED
    BY <1>a, <2>1 DEF Arrivals
<1> QED
  BY <1>1, <1>2, <1>3, <1>4 DEF Ordered

\* Every copy of a Run in a cache, on a watch, in a recovery list or under an
\* update in hand is the stored object or an earlier value of it.
THEOREM CopiesOrdered == Spec => []Ordered
<1>1. Init => Ordered
  BY SMT DEF Init, Ordered, CacheSeen, InboxSeen, WorkSeen, TodoSeen, Seen, Idle
<1> QED
  BY <1>1, OrderedStep, SoundAlways, PTL DEF Spec

------------------------------------------------------------------------------
(* What the steps of one Pod do to the others: nothing.                     *)

AtPod(p) == <<queue[p], active[p], expired[p], calls[p], server[p], work[p], recovery[p]>>

\* A step of one Pod leaves the others alone.
LEMMA Elsewhere ==
    ASSUME Sound, NEW p \in Pods, Runtimed(p) \/ RuntimeServer(p) \/ Lose(p),
           NEW q \in Pods, q # p
    PROVE  AtPod(q)' = AtPod(q)
<1>a. /\ QueueOK /\ ExpiredOK /\ ActiveOK /\ CallsOK /\ ServerOK /\ WorkOK /\ RecoveryOK
  BY DEF Sound
<1>1. queue'[q] = queue[q]
  BY <1>a, ZenonT(30) DEF QueueOK, Runtimed, RuntimeServer, Lose, Deliver, Commit, Refused, Forget, Release,
     Reconcile, Ignore, CleanupDeleted, ReconcileScheduled, ReconcileRecovered, StatusFails,
     ReconcileCancel, ReconcileBackoff, ReconcileTimeout, StartExecution, ReconcileMissing,
     ReconcileActive, Relist, Expire, Execute, ExecuteFails, Started, RecordFailure, Restart,
     RecoverList, RecoverRun, Recovering, Wipe, ExecutionEnds, Enqueue, Dequeue
<1>2. active'[q] = active[q]
  BY <1>a, ZenonT(30) DEF ActiveOK, Runtimed, RuntimeServer, Lose, Deliver, Commit, Refused, Forget, Release,
     Reconcile, Ignore, CleanupDeleted, ReconcileScheduled, ReconcileRecovered, StatusFails,
     ReconcileCancel, ReconcileBackoff, ReconcileTimeout, StartExecution, ReconcileMissing,
     ReconcileActive, Relist, Expire, Execute, ExecuteFails, Started, RecordFailure, Restart,
     RecoverList, RecoverRun, Recovered, Wipe, ExecutionEnds
<1>3. expired'[q] = expired[q]
  BY <1>a, ZenonT(30) DEF ExpiredOK, Runtimed, RuntimeServer, Lose, Deliver, Commit, Refused, Forget, Release,
     Reconcile, Ignore, CleanupDeleted, ReconcileScheduled, ReconcileRecovered, StatusFails,
     ReconcileCancel, ReconcileBackoff, ReconcileTimeout, StartExecution, ReconcileMissing,
     ReconcileActive, Relist, Expire, Execute, ExecuteFails, Started, Calling, Restart,
     RecoverList, RecoverRun, Recovering, Wipe, ExecutionEnds
<1>4. calls'[q] = calls[q]
  BY <1>a, ZenonT(30) DEF CallsOK, Runtimed, RuntimeServer, Lose, Deliver, Commit, Refused, Forget, Release,
     Reconcile, Ignore, CleanupDeleted, ReconcileScheduled, ReconcileRecovered, StatusFails,
     ReconcileCancel, ReconcileBackoff, ReconcileTimeout, StartExecution, ReconcileMissing,
     ReconcileActive, Relist, Expire, Execute, ExecuteFails, Started, RecordFailure, Drop, Restart,
     RecoverList, RecoverRun, Recovering, Wipe, ExecutionEnds
<1>5. server'[q] = server[q]
  BY <1>a, ZenonT(30) DEF ServerOK, Runtimed, RuntimeServer, Lose, Deliver, Commit, Refused, Forget, Release,
     Reconcile, Ignore, CleanupDeleted, ReconcileScheduled, ReconcileRecovered, StatusFails,
     ReconcileCancel, ReconcileBackoff, ReconcileTimeout, StartExecution, ReconcileMissing,
     ReconcileActive, Relist, Expire, Execute, ExecuteFails, Started, Restart, Forgotten, Cancelled,
     RecoverList, RecoverRun, Recovering, Wipe, ExecutionEnds
<1>6. recovery'[q] = recovery[q]
  BY <1>a, ZenonT(30) DEF RecoveryOK, Runtimed, RuntimeServer, Lose, Deliver, Commit, Refused, Forget, Release,
     Reconcile, Ignore, CleanupDeleted, ReconcileScheduled, ReconcileRecovered, StatusFails,
     ReconcileCancel, ReconcileBackoff, ReconcileTimeout, StartExecution, ReconcileMissing,
     ReconcileActive, Take, Relist, Expire, Execute, ExecuteFails, Started, Calling, Restart,
     RecoverList, RecoverRun, Wipe, ExecutionEnds
<1>7. work'[q] = work[q]
  <2>1. ASSUME NEW w, NEW r, NEW from, NEW to, NEW then, NEW why, Write(p, w, r, from, to, then, why)
        PROVE  work'[q] = work[q]
    BY <1>a, <2>1 DEF WorkOK, Write
  <2>2. ASSUME NEW w, NEW r, NEW from, NEW o, NEW why, Fail(p, w, r, from, o, why)
        PROVE  work'[q] = work[q]
    BY <2>1, <2>2 DEF Fail
  <2>3. ASSUME NEW w, NEW r, NEW o, Succeed(p, w, r, o) PROVE work'[q] = work[q]
    BY <2>1, <2>3 DEF Succeed
  <2>4. ASSUME NEW w, NEW k, SetWork(p, w, k) PROVE work'[q] = work[q]
    BY <1>a, <2>4 DEF WorkOK, SetWork
  <2>5. ASSUME NEW r, Reconcile(p, r) PROVE work'[q] = work[q]
    BY <2>1, <2>2, <2>3, <2>4, <2>5
    DEF Reconcile, Ignore, CleanupDeleted, ReconcileScheduled, ReconcileRecovered, StatusFails,
        ReconcileCancel, ReconcileBackoff, ReconcileTimeout, StartExecution, ReconcileMissing,
        ReconcileActive, Recovered
  <2>6. ASSUME Restart(p) \/ Lose(p) PROVE work'[q] = work[q]
    BY <1>a, <2>6 DEF WorkOK, Restart, Lose
  <2>7. ASSUME NEW t, RecoverRun(p, t) PROVE work'[q] = work[q]
    BY <2>1, <2>2, <2>3, <2>7 DEF RecoverRun, Recovered
  <2> QED
    BY <2>2, <2>4, <2>5, <2>6, <2>7
    DEF Runtimed, RuntimeServer, Deliver, Commit, Refused, Forget, Release, Relist, Expire,
        Execute, ExecuteFails, Started, Calling, RecoverList, Wipe, ExecutionEnds
<1> QED
  BY <1>1, <1>2, <1>3, <1>4, <1>5, <1>6, <1>7 DEF AtPod

\* What a step of worker w leaves in its hands.
Deciding(p, w, r, from, thens, why) ==
    LET k == work'[p][w]
    IN /\ k.step = "write" /\ k.run = r /\ k.from = from /\ k.then \in thens /\ k.why = why
       /\ \A v \in Workers \ {w} : work'[p][v] = work[p][v]
Becoming(p, w, k) == work'[p][w] = k /\ \A v \in Workers \ {w} : work'[p][v] = work[p][v]

\* What the update helpers leave in the hands of the worker.
LEMMA DecidingForms ==
    ASSUME WorkOK, NEW p \in Pods, NEW w \in Workers
    PROVE  /\ \A r, from, to, then, why :
                 Write(p, w, r, from, to, then, why) => Deciding(p, w, r, from, {then}, why)
           /\ \A r, from, o, why :
                 Fail(p, w, r, from, o, why) => Deciding(p, w, r, from, {"retry", "end"}, why)
           /\ \A r, o : Succeed(p, w, r, o) => Deciding(p, w, r, o, {"end"}, "done")
           /\ \A k : SetWork(p, w, k) => Becoming(p, w, k)
<1>1. ASSUME NEW k, work' = [work EXCEPT ![p][w] = k] PROVE Becoming(p, w, k)
  BY <1>1 DEF WorkOK, Becoming
<1>2. ASSUME NEW r, NEW from, NEW to, NEW then, NEW why, Write(p, w, r, from, to, then, why)
      PROVE  Deciding(p, w, r, from, {then}, why)
  <2> DEFINE k == [step |-> "write", run |-> r, from |-> from, to |-> to, then |-> then,
                   why |-> why]
  <2>1. /\ work' = [work EXCEPT ![p][w] = k] /\ k.step = "write" /\ k.run = r /\ k.from = from
        /\ k.then = then /\ k.why = why
    BY <1>2 DEF Write
  <2> HIDE DEF k
  <2> QED
    BY <1>1, <2>1 DEF Becoming, Deciding
<1>3. ASSUME NEW r, NEW from, NEW o, NEW why, Fail(p, w, r, from, o, why)
      PROVE  Deciding(p, w, r, from, {"retry", "end"}, why)
  <2>1. Deciding(p, w, r, from, {"retry"}, why) \/ Deciding(p, w, r, from, {"end"}, why)
    BY <1>2, <1>3 DEF Fail
  <2> QED
    BY <2>1 DEF Deciding
<1>4. ASSUME NEW r, NEW o, Succeed(p, w, r, o) PROVE Deciding(p, w, r, o, {"end"}, "done")
  BY <1>2, <1>4 DEF Succeed
<1>5. ASSUME NEW k, SetWork(p, w, k) PROVE Becoming(p, w, k)
  BY <1>1, <1>5 DEF SetWork
<1> QED
  BY <1>2, <1>3, <1>4, <1>5

\* What a step about one Run leaves of the others at the Pod.
Same(p, s) == /\ active'[p][s] = active[p][s] /\ server'[p][s] = server[p][s]
              /\ \A c : c.run = s => (c \in calls'[p] <=> c \in calls[p])

\* A step for one Run leaves the other Runs of the Pod alone.
LEMMA OtherRuns ==
    ASSUME Sound, NEW p \in Pods, NEW r \in Runs, NEW s \in Runs, s # r,
           \/ Reconcile(p, r)
           \/ \E w \in Workers : /\ work[p][w].run = r
                                 /\ Commit(p, w) \/ Refused(p, w) \/ Forget(p, w) \/ Release(p, w)
           \/ \E c \in calls[p] : c.run = r /\ (Execute(p, c) \/ ExecuteFails(p, c) \/ Started(p, c))
           \/ \E t \in recovery[p].todo : t.run = r /\ RecoverRun(p, t)
           \/ ExecutionEnds(p, r)
    PROVE  Same(p, s)
<1>a. ActiveOK /\ CallsOK /\ ServerOK
  BY DEF Sound
<1>1. active'[p][s] = active[p][s]
  <2>1. ASSUME Reconcile(p, r) PROVE active'[p][s] = active[p][s]
    <3>1. \/ UNCHANGED active \/ active' = [active EXCEPT ![p][r] = Claimed(FALSE)]
          \/ active' = [active EXCEPT ![p][r] = Claimed(TRUE)]
          \/ active' = [active EXCEPT ![p][r].failure = FALSE]
          \/ active' = [active EXCEPT ![p][r].started = TRUE]
      BY <2>1
      DEF Reconcile, Ignore, CleanupDeleted, ReconcileScheduled, ReconcileRecovered, StatusFails,
          ReconcileCancel, ReconcileBackoff, ReconcileTimeout, StartExecution, ReconcileMissing,
          ReconcileActive, Recovered
    <3> QED
      BY <1>a, <3>1 DEF ActiveOK
  <2>2. ASSUME NEW w \in Workers, work[p][w].run = r,
               Commit(p, w) \/ Refused(p, w) \/ Forget(p, w) \/ Release(p, w)
        PROVE  active'[p][s] = active[p][s]
    BY <1>a, <2>2, ZenonT(30) DEF ActiveOK, Commit, Refused, Forget, Release
  <2>3. ASSUME NEW c \in calls[p], c.run = r, Execute(p, c) \/ ExecuteFails(p, c) \/ Started(p, c)
        PROVE  active'[p][s] = active[p][s]
    BY <1>a, <2>3 DEF ActiveOK, Execute, ExecuteFails, Started, RecordFailure
  <2>4. ASSUME NEW t, t.run = r, RecoverRun(p, t) PROVE active'[p][s] = active[p][s]
    BY <1>a, <2>4 DEF ActiveOK, RecoverRun, Recovered
  <2> QED
    BY <2>1, <2>2, <2>3, <2>4 DEF ExecutionEnds
<1>2. server'[p][s] = server[p][s]
  <2>1. ASSUME Reconcile(p, r) PROVE server'[p][s] = server[p][s]
    <3>1. UNCHANGED server \/ server' = [server EXCEPT ![p][r] = NoExec]
      BY <2>1
      DEF Reconcile, Ignore, CleanupDeleted, ReconcileScheduled, ReconcileRecovered, StatusFails,
          ReconcileCancel, ReconcileBackoff, ReconcileTimeout, StartExecution, ReconcileMissing,
          ReconcileActive, Cancelled
    <3> QED
      BY <1>a, <3>1 DEF ServerOK
  <2>2. ASSUME NEW w \in Workers, work[p][w].run = r,
               Commit(p, w) \/ Refused(p, w) \/ Forget(p, w) \/ Release(p, w)
        PROVE  server'[p][s] = server[p][s]
    <3>1. \/ UNCHANGED server \/ server' = [server EXCEPT ![p][r].counted = TRUE]
          \/ Forgotten(p, r)
      BY <2>2 DEF Commit, Refused, Forget, Release
    <3> QED
      BY <1>a, <3>1, SMT DEF ServerOK, Forgotten
  <2>3. ASSUME NEW c \in calls[p], c.run = r, Execute(p, c) \/ ExecuteFails(p, c) \/ Started(p, c)
        PROVE  server'[p][s] = server[p][s]
    <3>1. \/ UNCHANGED server \/ server' = [server EXCEPT ![p][r] = NewExec]
          \/ Forgotten(p, r)
      BY <2>3 DEF Execute, ExecuteFails, Started
    <3> QED
      BY <1>a, <3>1, SMT DEF ServerOK, Forgotten
  <2>4. ASSUME NEW t, RecoverRun(p, t) PROVE server'[p][s] = server[p][s]
    BY <2>4 DEF RecoverRun, Recovering
  <2>5. ASSUME ExecutionEnds(p, r) PROVE server'[p][s] = server[p][s]
    BY <1>a, <2>5 DEF ServerOK, ExecutionEnds
  <2> QED
    BY <2>1, <2>2, <2>3, <2>4, <2>5
<1>3. ASSUME NEW c, c.run = s PROVE c \in calls'[p] <=> c \in calls[p]
  <2>1. ASSUME NEW w \in Workers, work[p][w].run = r, Release(p, w)
        PROVE  c \in calls'[p] <=> c \in calls[p]
    <3>1. calls'[p] = {[d EXCEPT !.mine = @ /\ d.run # r] : d \in calls[p]}
      BY <1>a, <2>1 DEF Release, CallsOK
    <3>2. ASSUME NEW d \in calls[p]
          PROVE  /\ [d EXCEPT !.mine = @ /\ d.run # r].run = d.run
                 /\ d.run # r => [d EXCEPT !.mine = @ /\ d.run # r] = d
      <4>1. d \in Calls
        BY <1>a DEF CallsOK
      <4> QED
        BY <4>1 DEF Calls
    <3> QED
      BY <1>3, <3>1, <3>2
  <2>2. ASSUME NEW w \in Workers, Commit(p, w) \/ Refused(p, w) \/ Forget(p, w)
        PROVE  UNCHANGED calls
    BY <2>2 DEF Commit, Refused, Forget
  <2>3. ASSUME Reconcile(p, r) PROVE c \in calls'[p] <=> c \in calls[p]
    <3> DEFINE d == [run |-> r, stage |-> "calling", mine |-> TRUE]
    <3>1. UNCHANGED calls \/ calls' = [calls EXCEPT ![p] = @ \cup {d}]
      BY <2>3
      DEF Reconcile, Ignore, CleanupDeleted, ReconcileScheduled, ReconcileRecovered, StatusFails,
          ReconcileCancel, ReconcileBackoff, ReconcileTimeout, StartExecution, ReconcileMissing,
          ReconcileActive
    <3>2. d.run = r
      OBVIOUS
    <3> HIDE DEF d
    <3> QED
      BY <1>a, <1>3, <3>1, <3>2 DEF CallsOK
  <2>4. ASSUME NEW d \in calls[p], d.run = r, Execute(p, d) \/ ExecuteFails(p, d) \/ Started(p, d)
        PROVE  c \in calls'[p] <=> c \in calls[p]
    <3>1. d \in Calls /\ [d EXCEPT !.stage = "accepted"].run = r
      BY <1>a, <2>4, SMT DEF CallsOK, Calls
    <3> QED
      BY <1>a, <1>3, <2>4, <3>1, ZenonT(30) DEF CallsOK, Execute, ExecuteFails, Started, RecordFailure, Drop
  <2>5. ASSUME NEW t, RecoverRun(p, t) \/ ExecutionEnds(p, r) PROVE UNCHANGED calls
    BY <2>5 DEF RecoverRun, Recovering, ExecutionEnds
  <2> QED
    BY <2>1, <2>2, <2>3, <2>4, <2>5
<1> QED
  BY <1>1, <1>2, <1>3 DEF Same

------------------------------------------------------------------------------
(* What each step does to the claim, the execution and the calls of its Run. *)

Still(p, r) == /\ active'[p][r] = active[p][r] /\ server'[p][r] = server[p][r]
               /\ calls'[p] = calls[p]

Killed(p, r) == \/ server'[p][r] = NoExec
                \/ server[p][r].state = "running" /\ server'[p][r] = server[p][r]

Swept(p, r) ==
    server'[p][r] = IF server[p][r].state = "running" THEN server[p][r] ELSE NoExec

RecoveredAt(p, w, r, o) ==
    \/ /\ server[p][r] = NoExec /\ active'[p][r] = active[p][r]
       /\ Deciding(p, w, r, o, {"retry", "end"}, "lost")
    \/ /\ server[p][r] # NoExec /\ active'[p][r] = Claimed(TRUE)
       /\ \/ server[p][r].state = "succeeded" /\ Deciding(p, w, r, o, {"end"}, "done")
          \/ server[p][r].state = "failed" /\ Deciding(p, w, r, o, {"retry", "end"}, "result")
          \/ /\ server[p][r].state = "running"
             /\ work' = work \/ Deciding(p, w, r, o, {"watch"}, "accept")

\* What taking on a Running Run does to its claim and its worker.
LEMMA RecoveredEffect ==
    ASSUME Sound, NEW p \in Pods, NEW w \in Workers, NEW r \in Runs, NEW o, Recovered(p, w, r, o)
    PROVE  RecoveredAt(p, w, r, o)
<1>a. WorkOK /\ ActiveOK
  BY DEF Sound
<1> QED
  BY <1>a, DecidingForms DEF Recovered, RecoveredAt, ActiveOK

Reconciled(p, r) ==
    LET o == cache[p][r]
        a == active[p][r]
        e == server[p][r]
    IN \/ Still(p, r) /\ work' = work
       \/ /\ o.phase = "Deleted" /\ a.claimed /\ Still(p, r)
          /\ Becoming(p, "main", ToForget(r, "end"))
       \/ /\ o.phase = "Scheduled" /\ ~a.claimed /\ calls'[p] = calls[p] /\ server'[p][r] = e
          /\ \/ o.cancel /\ active'[p][r] = a /\ Deciding(p, "main", r, o, {"end"}, "cancel")
             \/ /\ ~o.cancel /\ active'[p][r] = Claimed(FALSE)
                /\ Deciding(p, "main", r, o, {"claimed"}, "claim")
       \/ /\ o.phase = "Running" /\ ~a.claimed /\ calls'[p] = calls[p] /\ server'[p][r] = e
          /\ \/ RecoveredAt(p, "main", r, o)
             \/ "noStatus" \in env.kinds /\ active'[p][r] = Claimed(TRUE) /\ work' = work
       \/ /\ o.phase = "Running" /\ a.claimed /\ calls'[p] = calls[p] /\ active'[p][r] = a
          /\ Killed(p, r)
          /\ \/ o.cancel /\ Deciding(p, "main", r, o, {"end"}, "cancel")
             \/ r \in expired[p] /\ Deciding(p, "main", r, o, {"retry", "end"}, "timeout")
       \/ /\ o.phase = "Running" /\ a.claimed /\ ~o.running /\ Still(p, r)
          /\ Deciding(p, "main", r, o, {"backoff"}, "backoff")
       \/ /\ o.phase = "Running" /\ a.claimed /\ ~a.started /\ ~a.failure /\ e = NoExec
          /\ ~InFlight(p, r) /\ active'[p][r] = a /\ server'[p][r] = e /\ work' = work
          /\ calls'[p] = calls[p] \cup {[run |-> r, stage |-> "calling", mine |-> TRUE]}
       \/ /\ o.phase = "Running" /\ a.claimed /\ e = NoExec
          /\ calls'[p] = calls[p] /\ server'[p][r] = e
          /\ \/ /\ a.started /\ active'[p][r] = a
                /\ Deciding(p, "main", r, o, {"retry", "end"}, "lost")
             \/ /\ ~a.started /\ a.failure /\ active'[p][r] = [a EXCEPT !.failure = FALSE]
                /\ Deciding(p, "main", r, o, {"retry", "end"}, "start")
       \/ /\ o.phase = "Running" /\ a.claimed /\ calls'[p] = calls[p] /\ server'[p][r] = e
          /\ \/ /\ e.state = "running" /\ active'[p][r] = [a EXCEPT !.started = TRUE]
                /\ work' = work \/ Deciding(p, "main", r, o, {"poll"}, "accept")
             \/ /\ e.state = "succeeded" /\ active'[p][r] = a
                /\ Deciding(p, "main", r, o, {"end"}, "done")
             \/ /\ e.state = "failed" /\ active'[p][r] = a
                /\ Deciding(p, "main", r, o, {"retry", "end"}, "result")

\* What a reconcile of a Run does to its Pod.
LEMMA ReconcileEffects ==
    ASSUME Sound, NEW p \in Pods, NEW r \in Runs, Reconcile(p, r)
    PROVE  /\ Alive(p) /\ work[p]["main"] = Idle /\ r \in queue[p]
           /\ UNCHANGED <<store, cache, inbox, recovery, pods, faults>>
           /\ Reconciled(p, r)
<1>a. WorkOK /\ ActiveOK /\ ServerOK /\ CallsOK /\ "main" \in Workers
  BY DEF Sound, Workers
<1>b. ASSUME Cancelled(p, r) PROVE Killed(p, r)
  <2>1. server' = [server EXCEPT ![p][r] = NoExec] => server'[p][r] = NoExec
    BY <1>a DEF ServerOK
  <2> QED
    BY <1>b, <2>1 DEF Killed, Cancelled
<1>0. Take(p, r)
  BY DEF Reconcile, Ignore, CleanupDeleted, ReconcileScheduled, ReconcileRecovered,
         StatusFails, ReconcileCancel, ReconcileBackoff, ReconcileTimeout, StartExecution,
         ReconcileMissing, ReconcileActive
<1>1. ASSUME Ignore(p, r) PROVE Reconciled(p, r)
  BY <1>1 DEF Ignore, Still, Reconciled
<1>2. ASSUME CleanupDeleted(p, r) PROVE Reconciled(p, r)
  BY <1>2, <1>a, DecidingForms DEF CleanupDeleted, Still, Reconciled
<1>3. ASSUME ReconcileScheduled(p, r) PROVE Reconciled(p, r)
  BY <1>3, <1>a, DecidingForms, ZenonT(30) DEF ReconcileScheduled, ActiveOK, Reconciled
<1>4. ASSUME ReconcileRecovered(p, r) PROVE Reconciled(p, r)
  BY <1>4, <1>a, RecoveredEffect DEF ReconcileRecovered, Reconciled
<1>5. ASSUME StatusFails(p, r) PROVE Reconciled(p, r)
  BY <1>5, <1>a DEF StatusFails, ActiveOK, Reconciled
<1>6. ASSUME ReconcileCancel(p, r) PROVE Reconciled(p, r)
  BY <1>6, <1>a, <1>b, DecidingForms
  DEF ReconcileCancel, RunningWithClaim, TerminationDue, Reconciled
<1>7. ASSUME ReconcileBackoff(p, r) PROVE Reconciled(p, r)
  BY <1>7, <1>a, DecidingForms DEF ReconcileBackoff, RunningWithClaim, Still, Reconciled
<1>8. ASSUME ReconcileTimeout(p, r) PROVE Reconciled(p, r)
  BY <1>8, <1>a, <1>b, DecidingForms DEF ReconcileTimeout, Attempting, RunningWithClaim, Reconciled
<1>9. ASSUME StartExecution(p, r) PROVE Reconciled(p, r)
  BY <1>9, <1>a DEF StartExecution, Attempting, RunningWithClaim, Missing, CallsOK, Reconciled
<1>c. /\ active' = [active EXCEPT ![p][r].failure = FALSE] =>
            active'[p][r] = [active[p][r] EXCEPT !.failure = FALSE]
      /\ active' = [active EXCEPT ![p][r].started = TRUE] =>
            active'[p][r] = [active[p][r] EXCEPT !.started = TRUE]
  BY <1>a DEF ActiveOK
<1>10. ASSUME ReconcileMissing(p, r) PROVE Reconciled(p, r)
  <2>1. /\ cache[p][r].phase = "Running" /\ active[p][r].claimed /\ server[p][r] = NoExec
        /\ calls'[p] = calls[p] /\ server'[p][r] = server[p][r]
        /\ \/ /\ active[p][r].started /\ active'[p][r] = active[p][r]
              /\ Fail(p, "main", r, cache[p][r], cache[p][r], "lost")
           \/ /\ ~active[p][r].started /\ active[p][r].failure
              /\ active'[p][r] = [active[p][r] EXCEPT !.failure = FALSE]
              /\ Fail(p, "main", r, cache[p][r], cache[p][r], "start")
    BY <1>10, <1>c DEF ReconcileMissing, Attempting, RunningWithClaim, Missing
  <2> QED
    BY <1>a, <2>1, DecidingForms DEF Reconciled
<1>11. ASSUME ReconcileActive(p, r) PROVE Reconciled(p, r)
  <2>1. /\ cache[p][r].phase = "Running" /\ active[p][r].claimed
        /\ calls'[p] = calls[p] /\ server'[p][r] = server[p][r]
        /\ \/ /\ server[p][r].state = "running"
              /\ active'[p][r] = [active[p][r] EXCEPT !.started = TRUE]
              /\ \/ work' = work
                 \/ Write(p, "main", r, cache[p][r], Accepted(cache[p][r]), "poll", "accept")
           \/ /\ server[p][r].state = "succeeded" /\ active'[p][r] = active[p][r]
              /\ Succeed(p, "main", r, cache[p][r])
           \/ /\ server[p][r].state = "failed" /\ active'[p][r] = active[p][r]
              /\ Fail(p, "main", r, cache[p][r], Accepted(cache[p][r]), "result")
    BY <1>11, <1>c DEF ReconcileActive, Attempting, RunningWithClaim
  <2> QED
    BY <1>a, <2>1, DecidingForms DEF Reconciled
<1> QED
  BY <1>0, <1>1, <1>2, <1>3, <1>4, <1>5, <1>6, <1>7, <1>8, <1>9, <1>10, <1>11
  DEF Reconcile, Take, NoFault

Committed(p, w, k, r) ==
    /\ Alive(p) /\ k \in WriteSteps /\ r \in Runs /\ Fits(w, k)
    /\ store[r] = k.from /\ store'[r] = k.to /\ calls' = calls /\ recovery' = recovery
    /\ server'[p][r] = IF k.why = "result" /\ server[p][r] # NoExec
                       THEN [server[p][r] EXCEPT !.counted = TRUE] ELSE server[p][r]
    /\ \/ /\ k.then = "claimed" /\ active' = active
          /\ \/ Deciding(p, w, r, k.to, {"retry", "end"}, "source")
             \/ Becoming(p, w, Idle)
       \/ /\ k.then = "backoff" /\ Becoming(p, w, Idle)
          /\ active'[p][r] = IF active[p][r].claimed
                             THEN [active[p][r] EXCEPT !.started = FALSE] ELSE active[p][r]
       \/ k.then \in {"poll", "watch"} /\ Becoming(p, w, Idle) /\ active' = active
       \/ /\ k.then \in {"retry", "end"} /\ Becoming(p, w, ToForget(r, k.then))
          /\ active' = active

\* What an accepted update does.
LEMMA CommitEffect ==
    ASSUME Sound, NEW p \in Pods, NEW w \in Workers, NEW k, k = work[p][w], NEW r, r = k.run,
           Commit(p, w)
    PROVE  Committed(p, w, k, r)
<1>a. WorkOK /\ ActiveOK /\ ServerOK /\ StoreOK
  BY DEF Sound
<1>1. /\ Alive(p) /\ k \in WriteSteps /\ r \in Runs /\ store[r] = k.from /\ Put(r, k.to)
  BY CommitStep
<1>2. store'[r] = k.to /\ Fits(w, k)
  BY <1>a, <1>1 DEF Put, StoreOK, WorkOK, WriteSteps
<1>3. /\ calls' = calls /\ recovery' = recovery
      /\ server' = IF k.why = "result" /\ server[p][r] # NoExec
                   THEN [server EXCEPT ![p][r].counted = TRUE] ELSE server
      /\ \/ /\ k.then = "claimed" /\ active' = active
            /\ Fail(p, w, r, k.to, k.to, "source") \/ SetWork(p, w, Idle)
         \/ /\ k.then = "backoff" /\ SetWork(p, w, Idle)
            /\ active' = [active EXCEPT ![p][r] = IF @.claimed THEN [@ EXCEPT !.started = FALSE]
                                                  ELSE @]
         \/ k.then \in {"poll", "watch"} /\ SetWork(p, w, Idle) /\ active' = active
         \/ k.then \in {"retry", "end"} /\ SetWork(p, w, ToForget(r, k.then)) /\ active' = active
  BY DEF Commit
<1>4. server'[p][r] = IF k.why = "result" /\ server[p][r] # NoExec
                      THEN [server[p][r] EXCEPT !.counted = TRUE] ELSE server[p][r]
  BY <1>a, <1>1, <1>3 DEF ServerOK
<1>5. ASSUME active' = [active EXCEPT ![p][r] = IF @.claimed THEN [@ EXCEPT !.started = FALSE]
                                                ELSE @]
      PROVE  active'[p][r] = IF active[p][r].claimed
                             THEN [active[p][r] EXCEPT !.started = FALSE] ELSE active[p][r]
  BY <1>a, <1>1, <1>5 DEF ActiveOK
<1> QED
  BY <1>a, <1>1, <1>2, <1>3, <1>4, <1>5, DecidingForms DEF Committed

\* What a refused update does.
LEMMA RefusedEffect ==
    ASSUME Sound, NEW p \in Pods, NEW w \in Workers, NEW k, k = work[p][w], NEW r, r = k.run,
           Refused(p, w)
    PROVE  /\ Alive(p) /\ k \in WriteSteps /\ r \in Runs /\ Fits(w, k)
           /\ k.from # store[r] \/ "apiError" \in env.kinds
           /\ UNCHANGED <<store, calls, server, recovery>> /\ Becoming(p, w, Idle)
           /\ active'[p][r] = IF k.then = "claimed" THEN NoClaim ELSE active[p][r]
<1>a. WorkOK /\ ActiveOK
  BY DEF Sound
<1>1. k \in WriteSteps /\ Alive(p) /\ k.step = "write"
  BY <1>a, SMT DEF Refused, Writing, WorkOK, Steps, WriteSteps, ForgetSteps, ReleaseSteps, Idle
<1>2. r \in Runs /\ Fits(w, k)
  BY <1>a, <1>1 DEF WriteSteps, WorkOK
<1>3. /\ UNCHANGED <<store, calls, server, recovery>> /\ SetWork(p, w, Idle)
      /\ active' = IF k.then = "claimed" THEN [active EXCEPT ![p][r] = NoClaim] ELSE active
      /\ k.from # store[r] \/ "apiError" \in env.kinds
  BY DEF Refused, Unclaims, Current, Fault
<1>4. active'[p][r] = IF k.then = "claimed" THEN NoClaim ELSE active[p][r]
  BY <1>a, <1>2, <1>3 DEF ActiveOK
<1> QED
  BY <1>a, <1>1, <1>2, <1>3, <1>4, DecidingForms

\* What the cleanup of an execution does.
LEMMA ForgetEffect ==
    ASSUME Sound, NEW p \in Pods, NEW w \in Workers, NEW k, k = work[p][w], NEW r, r = k.run,
           Forget(p, w)
    PROVE  /\ Alive(p) /\ k \in ForgetSteps /\ r \in Runs
           /\ UNCHANGED <<store, active, calls, recovery>> /\ Swept(p, r)
           /\ \/ k.then = "retry" /\ Becoming(p, w, Idle)
              \/ k.then = "end" /\ Becoming(p, w, [step |-> "release", run |-> r])
<1>a. WorkOK /\ ServerOK
  BY DEF Sound
<1>1. k \in ForgetSteps /\ Alive(p)
  BY <1>a, SMT DEF Forget, WorkOK, Steps, WriteSteps, ForgetSteps, ReleaseSteps, Idle
<1>2. r \in Runs
  BY <1>1 DEF ForgetSteps
<1>3. Swept(p, r)
  BY <1>a, <1>2 DEF Forget, Forgotten, Swept, ServerOK
<1> QED
  BY <1>a, <1>1, <1>2, <1>3, DecidingForms DEF Forget

\* What the release of a claim does.
LEMMA ReleaseEffect ==
    ASSUME Sound, NEW p \in Pods, NEW w \in Workers, NEW k, k = work[p][w], NEW r, r = k.run,
           Release(p, w)
    PROVE  /\ Alive(p) /\ k \in ReleaseSteps /\ r \in Runs
           /\ UNCHANGED <<store, server, recovery>> /\ Becoming(p, w, Idle)
           /\ active'[p][r] = NoClaim
           /\ \A c \in calls'[p] : c.run = r =>
                 ~c.mine /\ \E d \in calls[p] : d.run = r /\ c = [d EXCEPT !.mine = FALSE]
<1>a. WorkOK /\ ActiveOK /\ CallsOK
  BY DEF Sound
<1>1. k \in ReleaseSteps /\ Alive(p)
  BY <1>a, SMT DEF Release, WorkOK, Steps, WriteSteps, ForgetSteps, ReleaseSteps, Idle
<1>2. r \in Runs
  BY <1>1 DEF ReleaseSteps
<1>3. active'[p][r] = NoClaim
  BY <1>a, <1>2 DEF Release, ActiveOK
<1>4. ASSUME NEW c \in calls'[p], c.run = r
      PROVE  ~c.mine /\ \E d \in calls[p] : d.run = r /\ c = [d EXCEPT !.mine = FALSE]
  <2>1. PICK d \in calls[p] : c = [d EXCEPT !.mine = @ /\ d.run # r]
    BY <1>a, <1>4 DEF Release, CallsOK
  <2>2. d \in Calls
    BY <1>a DEF CallsOK
  <2>3. d.run = c.run
    BY <2>1, <2>2 DEF Calls
  <2>4. (d.mine /\ d.run # r) = FALSE
    BY <1>4, <2>3
  <2>5. c = [d EXCEPT !.mine = FALSE]
    BY <2>1, <2>2, <2>4 DEF Calls
  <2>6. ~c.mine
    BY <2>2, <2>5 DEF Calls
  <2> QED
    BY <1>4, <2>3, <2>5, <2>6
<1> QED
  BY <1>a, <1>1, <1>2, <1>3, <1>4, DecidingForms DEF Release

\* What a worker has in hand is about a Run.
LEMMA WorkerRun ==
    ASSUME Sound, NEW p \in Pods, NEW w \in Workers,
           Commit(p, w) \/ Refused(p, w) \/ Forget(p, w) \/ Release(p, w)
    PROVE  work[p][w].run \in Runs
<1>1. ASSUME Commit(p, w) PROVE work[p][w].run \in Runs
  BY <1>1, CommitStep
<1> QED
  BY <1>1, RefusedEffect, ForgetEffect, ReleaseEffect

FailedAt(p, c) ==
    /\ calls'[p] = calls[p] \ {c}
    /\ active'[p][c.run] = IF c.mine THEN [active[p][c.run] EXCEPT !.failure = TRUE]
                           ELSE active[p][c.run]

\* What an Execute call and its answers do.
LEMMA CallEffects ==
    ASSUME Sound, NEW p \in Pods, NEW c \in calls[p],
           Execute(p, c) \/ ExecuteFails(p, c) \/ Started(p, c)
    PROVE  /\ Alive(p) /\ c \in Calls /\ c.run \in Runs
           /\ UNCHANGED <<store, work, recovery>>
           /\ \/ /\ c.stage = "calling" /\ server'[p][c.run] = NewExec
                 /\ \/ /\ calls'[p] = (calls[p] \ {c}) \cup {[c EXCEPT !.stage = "accepted"]}
                       /\ active' = active
                    \/ "noreply" \in env.kinds /\ FailedAt(p, c)
              \/ c.stage = "calling" /\ server' = server /\ FailedAt(p, c)
              \/ /\ c.stage = "accepted" /\ calls'[p] = calls[p] \ {c} /\ active' = active
                 /\ \/ c.mine /\ server' = server
                    \/ ~c.mine /\ Swept(p, c.run)
<1>a. c \in Calls /\ c.run \in Runs /\ ActiveOK /\ ServerOK /\ CallsOK
  BY SMT DEF Sound, CallsOK, Calls
<1>1. ASSUME RecordFailure(p, c) PROVE FailedAt(p, c)
  BY <1>1, <1>a DEF RecordFailure, FailedAt, Drop, ActiveOK, CallsOK
<1>2. Alive(p) /\ UNCHANGED <<store, work, recovery>>
  BY DEF Execute, ExecuteFails, Started, Calling
<1>3. ASSUME Execute(p, c)
      PROVE  /\ c.stage = "calling" /\ server'[p][c.run] = NewExec
             /\ \/ /\ calls'[p] = (calls[p] \ {c}) \cup {[c EXCEPT !.stage = "accepted"]}
                   /\ active' = active
                \/ "noreply" \in env.kinds /\ FailedAt(p, c)
  BY <1>1, <1>3, <1>a DEF Execute, Fault, CallsOK, ServerOK
<1>4. ASSUME ExecuteFails(p, c)
      PROVE  c.stage = "calling" /\ server' = server /\ FailedAt(p, c)
  BY <1>1, <1>4 DEF ExecuteFails
<1>5. ASSUME Started(p, c)
      PROVE  /\ c.stage = "accepted" /\ calls'[p] = calls[p] \ {c} /\ active' = active
             /\ \/ c.mine /\ server' = server
                \/ ~c.mine /\ Swept(p, c.run)
  BY <1>5, <1>a, SMT DEF Started, Drop, Forgotten, Swept, CallsOK, ServerOK
<1> QED
  BY <1>a, <1>2, <1>3, <1>4, <1>5

\* What the recovery of one Run does.
LEMMA RecoverEffect ==
    ASSUME Sound, NEW p \in Pods, NEW t \in recovery[p].todo, RecoverRun(p, t)
    PROVE  /\ Alive(p) /\ t.run \in Runs /\ t.obj \in Objects /\ t.obj.phase = "Running"
           /\ work[p]["recovery"] = Idle
           /\ UNCHANGED <<store, calls, server>>
           /\ recovery'[p].listed = recovery[p].listed
           /\ recovery'[p].todo = recovery[p].todo \ {t}
           /\ \/ active[p][t.run].claimed /\ active' = active /\ work' = work
              \/ /\ ~active[p][t.run].claimed
                 /\ \/ RecoveredAt(p, "recovery", t.run, t.obj)
                    \/ active'[p][t.run] = Claimed(TRUE) /\ work' = work
<1>a. /\ RecoveryOK /\ ActiveOK /\ "recovery" \in Workers
      /\ t.run \in Runs /\ t.obj \in Objects /\ t.obj.phase = "Running"
  BY SMT DEF Sound, RecoveryOK, Todos, Workers
<1>1. recovery'[p].listed = recovery[p].listed /\ recovery'[p].todo = recovery[p].todo \ {t}
  BY <1>a DEF RecoverRun, RecoveryOK
<1>2. Alive(p) /\ work[p]["recovery"] = Idle /\ UNCHANGED <<store, calls, server>>
  BY DEF RecoverRun, Recovering
<1>3. ASSUME active' = [active EXCEPT ![p][t.run] = Claimed(TRUE)]
      PROVE  active'[p][t.run] = Claimed(TRUE)
  BY <1>3, <1>a DEF ActiveOK
<1>4. ASSUME Recovered(p, "recovery", t.run, t.obj)
      PROVE  RecoveredAt(p, "recovery", t.run, t.obj)
  BY <1>4, <1>a, RecoveredEffect
<1> QED
  BY <1>a, <1>1, <1>2, <1>3, <1>4 DEF RecoverRun

\* What the end of an execution does.
LEMMA EndEffect ==
    ASSUME Sound, NEW p \in Pods, NEW r \in Runs, ExecutionEnds(p, r)
    PROVE  /\ UNCHANGED <<store, active, calls, work, recovery>>
           /\ server[p][r].state = "running" /\ server[p][r] # NoExec /\ server'[p][r] # NoExec
           /\ server'[p][r].state \in {"succeeded", "failed"}
           /\ server'[p][r].counted = server[p][r].counted
<1>1. PICK s \in {"succeeded", "failed"} : server' = [server EXCEPT ![p][r].state = s]
  BY DEF ExecutionEnds
<1>2. /\ server[p][r] \in Executions /\ server[p][r].state = "running"
      /\ server'[p][r] = [server[p][r] EXCEPT !.state = s]
  BY <1>1 DEF ExecutionEnds, Sound, ServerOK
<1>3. server[p][r] # NoExec
  BY <1>2, SMT DEF NoExec
<1>4. /\ server'[p][r].state = s /\ server'[p][r].counted = server[p][r].counted
  BY <1>2, <1>3 DEF Executions
<1>5. server'[p][r] # NoExec
  BY <1>4, SMT DEF NoExec
<1> QED
  BY <1>2, <1>3, <1>4, <1>5 DEF ExecutionEnds

\* What a Pod holds changes by its own steps and with its loss.
LEMMA Remote ==
    ASSUME Sound, [Next]_vars, NEW q \in Pods
    PROVE  AtPod(q)' = AtPod(q) \/ Runtimed(q) \/ RuntimeServer(q) \/ Lose(q)
<1>1. CASE UNCHANGED vars
  BY <1>1 DEF vars, state, AtPod
<1>2. ASSUME NEW p \in Pods, Runtimed(p) \/ RuntimeServer(p) \/ Lose(p)
      PROVE  AtPod(q)' = AtPod(q) \/ Runtimed(q) \/ RuntimeServer(q) \/ Lose(q)
  BY <1>2, Elsewhere
<1>3. ASSUME NEW p \in Pods, Silence(p) \/ Heartbeat(p) PROVE AtPod(q)' = AtPod(q)
  BY <1>3 DEF Silence, Heartbeat, local, AtPod
<1>4. ASSUME NEW r \in Runs,
             \/ CancelPending(r) \/ Reap(r) \/ RequestTermination(r) \/ Delete(r)
             \/ \E p \in Pods : Bind(r, p)
      PROVE  AtPod(q)' = AtPod(q)
  BY <1>4 DEF CancelPending, Reap, RequestTermination, Delete, Bind, Update, local, AtPod
<1>5. CASE ControlPlane
  BY <1>2, <1>3, <1>4, <1>5 DEF ControlPlane
<1> QED
  BY <1>1, <1>2, <1>5 DEF Next

\* The steps of a Pod that leave claims, calls, executions and work alone.
LEMMA Idly ==
    ASSUME Sound, NEW p \in Pods,
           Deliver(p) \/ RecoverList(p) \/ \E r \in Runs : Relist(p, r) \/ Expire(p, r)
    PROVE  UNCHANGED <<store, active, calls, server, work>>
BY DEF Deliver, RecoverList, Recovering, Relist, Expire
==============================================================================
