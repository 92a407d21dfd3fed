--------------------------- MODULE SchedulerProofs ---------------------------
(***************************************************************************)
(* Theorems about the scheduler for every set of Runs and Pods, every      *)
(* capacity and every bound on lag, versions, attempts and faults.         *)
(***************************************************************************)
EXTENDS Scheduler, FiniteSetTheorems, TLAPS

\* Where a leaf names no prover it is Zenon's.
USE Zenon

Collections == [Runs -> Objects]

\* The informer cache and the API server hold objects of the right shape.
LEMMA StoreType ==
    ASSUME TypeOK
    PROVE  Len(etcd) \in Nat \ {0} /\ store \in Collections /\ cache \in Collections
<1>1. etcd \in Seq(Collections) /\ etcd # <<>>
  BY DEF TypeOK, Collections
<1>2. Len(etcd) \in Nat \ {0}
  BY <1>1, SMT
<1> QED
  BY <1>1, <1>2, SMT DEF store, cache

\* The API server's next version of an object has the shape of an object.
LEMMA BumpType ==
    ASSUME NEW o \in Objects
    PROVE  /\ Bump(o) \in Objects /\ Bump(o).ver = o.ver + 1
           /\ Bump(o).phase = o.phase /\ Bump(o).pod = o.pod /\ Bump(o).attempt = o.attempt
BY SMT DEF Bump, Objects

\* A write adds one state in which only its Run differs; the informer does not
\* move.
LEMMA PutFacts ==
    ASSUME TypeOK, NEW r \in Runs, NEW o \in Objects, Put(r, o)
    PROVE  /\ etcd' \in Seq(Collections) /\ etcd' # <<>>
           /\ store' = [store EXCEPT ![r] = Bump(o)] /\ cache' = cache
           /\ Len(etcd') = Len(etcd) + 1
           /\ \A i \in 1 .. Len(etcd) : etcd'[i] = etcd[i]
<1>1. etcd \in Seq(Collections) /\ Len(etcd) \in Nat \ {0} /\ store \in Collections
  BY StoreType DEF TypeOK, Collections
<1>2. [store EXCEPT ![r] = Bump(o)] \in Collections
  BY <1>1, BumpType DEF Collections
<1> DEFINE new == [store EXCEPT ![r] = Bump(o)]
<1>3. etcd' = Append(etcd, new)
  BY DEF Put
<1> HIDE DEF new
<1>4. /\ etcd' \in Seq(Collections) /\ Len(etcd') = Len(etcd) + 1
      /\ \A i \in 1 .. Len(etcd) : etcd'[i] = etcd[i]
      /\ etcd'[Len(etcd) + 1] = new
  BY <1>1, <1>2, <1>3, SMT DEF new
<1>5. etcd' # <<>>
  BY <1>1, <1>4, SMT
<1>6. store' = new
  BY <1>4 DEF store
<1>7. cache' = cache
  BY <1>1, <1>4, SMT DEF cache
<1> QED
  BY <1>4, <1>5, <1>6, <1>7 DEF new

\* The informer's step drops the oldest state.
LEMMA ObserveFacts ==
    ASSUME TypeOK, Len(etcd) > 1, etcd' = Tail(etcd)
    PROVE  /\ etcd' \in Seq(Collections) /\ etcd' # <<>>
           /\ store' = store /\ Len(etcd') = Len(etcd) - 1
           /\ \A i \in 1 .. Len(etcd') : etcd'[i] = etcd[i + 1]
<1>1. etcd \in Seq(Collections) /\ Len(etcd) \in Nat \ {0} /\ etcd # <<>>
  BY StoreType DEF TypeOK, Collections
<1>2. /\ etcd' \in Seq(Collections) /\ Len(etcd') = Len(etcd) - 1
      /\ \A i \in 1 .. Len(etcd') : etcd'[i] = etcd[i + 1]
  BY <1>1, SMT
<1>3. etcd' # <<>>
  BY <1>1, <1>2, SMT
<1>4. store' = store
  BY <1>1, <1>2, SMT DEF store
<1> QED
  BY <1>2, <1>3, <1>4

\* A restart that lists afresh keeps only the current state.
LEMMA RelistFacts ==
    ASSUME TypeOK, etcd' = <<store>>
    PROVE  /\ etcd' \in Seq(Collections) /\ etcd' # <<>>
           /\ store' = store /\ Len(etcd') = 1 /\ etcd'[1] = store
<1>1. store \in Collections
  BY StoreType
<1>2. etcd' \in Seq(Collections) /\ etcd' # <<>> /\ Len(etcd') = 1 /\ etcd'[1] = store
  BY <1>1, SMT
<1> QED
  BY <1>2 DEF store

------------------------------------------------------------------------------
(* Type correctness.                                                        *)

EtcdOK == etcd \in Seq(Collections) /\ etcd # <<>>

\* The parts of the type invariant that the actions are proved against.
LEMMA TypeSplit ==
    TypeOK <=> /\ EtcdOK
               /\ assumed \in [Runs -> Pods \cup {NoPod}]
               /\ available \subseteq Pods
               /\ cycle \in {Idle}
                    \cup [step : {"held"}, run : Runs, obj : Objects]
                    \cup [step : {"reserved"}, run : Runs, obj : Objects, pod : Pods]
               /\ faults \in [errors : Nat, restarts : Nat]
               /\ orphaned \subseteq Runs
BY DEF TypeOK, EtcdOK, Collections

\* A status update keeps the shape of the informer's states.
LEMMA PutType ==
    ASSUME TypeOK, NEW r \in Runs, NEW o \in Objects, Put(r, o)
    PROVE  EtcdOK'
BY PutFacts DEF EtcdOK

\* The object of a cycle, and what a cycle writes, have the right shape.
LEMMA CycleType ==
    ASSUME TypeOK, NEW r \in Runs
    PROVE  /\ Held(r) => cycle.obj \in Objects
           /\ \A p \in Pods : Reserved(r, p) => cycle.obj \in Objects
BY SMT DEF TypeOK, Held, Reserved, Idle

\* Every object the scheduler or another component writes has the right shape.
LEMMA WriteType ==
    ASSUME NEW o \in Objects
    PROVE  /\ [o EXCEPT !.mode = TRUE, !.phase = IF @ = "" THEN "Pending" ELSE @] \in Objects
           /\ SetTerminal(o) \in Objects
           /\ [o EXCEPT !.phase = "Terminal"] \in Objects
           /\ [o EXCEPT !.phase = "Pending", !.waiting = TRUE] \in Objects
           /\ [o EXCEPT !.phase = "Running"] \in Objects
           /\ [o EXCEPT !.phase = "Finalizing"] \in Objects
           /\ [o EXCEPT !.phase = "Deleted"] \in Objects
           /\ [o EXCEPT !.cancel = TRUE] \in Objects
           /\ \A p \in Pods : Assign(o, p) \in Objects
           /\ o.attempt < MaxAttempts =>
                [o EXCEPT !.phase = "Pending", !.pod = NoPod, !.attempt = @ + 1] \in Objects
<1>1. [o EXCEPT !.mode = TRUE, !.phase = IF @ = "" THEN "Pending" ELSE @] \in Objects
  BY DEF Objects, Phases
<1>2. /\ SetTerminal(o) \in Objects
      /\ [o EXCEPT !.phase = "Terminal"] \in Objects
      /\ [o EXCEPT !.phase = "Pending", !.waiting = TRUE] \in Objects
  BY DEF Objects, Phases, SetTerminal
<1>3. /\ [o EXCEPT !.phase = "Running"] \in Objects
      /\ [o EXCEPT !.phase = "Finalizing"] \in Objects
      /\ [o EXCEPT !.phase = "Deleted"] \in Objects
      /\ [o EXCEPT !.cancel = TRUE] \in Objects
  BY DEF Objects, Phases
<1>4. \A p \in Pods : Assign(o, p) \in Objects
  BY DEF Objects, Phases, Assign
<1>5. ASSUME o.attempt < MaxAttempts
      PROVE  [o EXCEPT !.phase = "Pending", !.pod = NoPod, !.attempt = @ + 1] \in Objects
  <2>1. o.attempt + 1 \in 1 .. MaxAttempts
    BY <1>5, SchedulerAssumption, SMT DEF Objects
  <2> QED
    BY <2>1 DEF Objects, Phases
<1> QED
  BY <1>1, <1>2, <1>3, <1>4, <1>5

\* Counting an API error keeps the shape of the counters.
LEMMA FaultType ==
    ASSUME TypeOK, NoFault \/ ApiError
    PROVE  (faults \in [errors : Nat, restarts : Nat])'
BY SMT DEF TypeOK, NoFault, ApiError

\* The end of a cycle with a terminal status keeps the shape of the state.
LEMMA FinishType ==
    ASSUME TypeOK, NEW r \in Runs, NEW o \in Objects, FinishWith(r, o)
    PROVE  EtcdOK' /\ cycle' = Idle /\ (faults \in [errors : Nat, restarts : Nat])'
BY TypeSplit, PutType, FaultType DEF FinishWith, EtcdOK

\* So does a write of another component.
LEMMA ElsewhereType ==
    ASSUME TypeOK, NEW r \in Runs, NEW o \in Objects, Elsewhere(r, o), TrackOrphans
    PROVE  TypeOK'
<1>1. EtcdOK'
  BY PutType DEF Elsewhere
<1> QED
  BY <1>1, TypeSplit DEF Elsewhere, NoFault, TrackOrphans, TypeOK, EtcdOK, Collections

\* Every step of the scheduler and of the components around it keeps the
\* shape of the state; no Run exceeds its retry budget.
LEMMA TypeStep == TypeOK /\ [Next]_vars => TypeOK'
<1> SUFFICES ASSUME TypeOK, [Next]_vars PROVE TypeOK'
  OBVIOUS
<1>a. CASE UNCHANGED vars
  BY <1>a DEF vars, TypeOK
<1> SUFFICES ASSUME Step, TrackOrphans PROVE TypeOK'
  BY <1>a DEF Next
<1>0. (orphaned \subseteq Runs)'
  BY DEF TrackOrphans
<1>s. store \in Collections /\ cache \in Collections
  BY StoreType
<1>y. SyncAssumed \in [Runs -> Pods \cup {NoPod}]
  BY DEF SyncAssumed, TypeOK
<1>1. ASSUME NEW r \in Runs, GetRun(r) PROVE TypeOK'
  BY <1>0, <1>1, <1>s DEF GetRun, Hold, TypeOK, NoFault, Collections
<1>2. ASSUME NEW r \in Runs, SyncMode(r) PROVE TypeOK'
  <2> DEFINE o == [cycle.obj EXCEPT !.mode = TRUE, !.phase = IF @ = "" THEN "Pending" ELSE @]
  <2>1. o \in Objects /\ Bump(o) \in Objects
    BY <1>2, CycleType, WriteType, BumpType DEF SyncMode
  <2> HIDE DEF o
  <2>2. CASE Put(r, o) /\ cycle' = Hold(r, Bump(o)) /\ NoFault
    <3>1. EtcdOK'
      BY <2>1, <2>2, PutType
    <3> QED
      BY <1>0, <1>2, <2>1, <2>2, <3>1 DEF SyncMode, Hold, TypeOK, EtcdOK, Collections, NoFault
  <2>3. CASE cycle' = Idle /\ UNCHANGED etcd /\ (NoFault \/ ApiError)
    BY <1>0, <1>2, <2>3, FaultType DEF SyncMode, TypeOK
  <2> QED
    BY <1>2, <2>2, <2>3 DEF SyncMode, o
<1>3. ASSUME NEW r \in Runs, Skip(r) PROVE TypeOK'
  BY <1>0, <1>3 DEF Skip, TypeOK, NoFault
<1>4. ASSUME NEW r \in Runs, Reject(r) PROVE TypeOK'
  <2>1. EtcdOK' /\ cycle' = Idle /\ (faults \in [errors : Nat, restarts : Nat])'
    BY <1>4, CycleType, WriteType, FinishType DEF Reject, Synced
  <2> QED
    BY <1>0, <1>4, <2>1 DEF Reject, TypeOK, EtcdOK, Collections
<1>5. ASSUME NEW r \in Runs, SelectionFailed(r) PROVE TypeOK'
  <2>1. EtcdOK' /\ cycle' = Idle /\ (faults \in [errors : Nat, restarts : Nat])'
    BY <1>5, CycleType, WriteType, FinishType DEF SelectionFailed, Schedulable, Synced
  <2> QED
    BY <1>0, <1>5, <1>y, <2>1 DEF SelectionFailed, TypeOK, EtcdOK, Collections
<1>6. ASSUME NEW r \in Runs, Wait(r) PROVE TypeOK'
  <2>1. cycle.obj \in Objects
    BY <1>6, CycleType DEF Wait, Schedulable, Synced
  <2>2. EtcdOK' /\ (faults \in [errors : Nat, restarts : Nat])'
    BY <1>6, <2>1, WriteType, PutType, FaultType, TypeSplit DEF Wait, EtcdOK
  <2> QED
    BY <1>0, <1>6, <1>y, <2>2 DEF Wait, TypeOK, EtcdOK, Collections
<1>7. ASSUME NEW r \in Runs, Reserve(r) PROVE TypeOK'
  <2>1. cycle.obj \in Objects
    BY <1>7, CycleType DEF Reserve, Schedulable, Synced
  <2>2. PICK p \in Pods : /\ assumed' = [SyncAssumed EXCEPT ![r] = p]
                          /\ cycle' = [step |-> "reserved", run |-> r, obj |-> cycle.obj, pod |-> p]
    BY <1>7 DEF Reserve, Candidates, TypeOK
  <2> QED
    BY <1>0, <1>7, <1>y, <2>1, <2>2 DEF Reserve, TypeOK, NoFault
<1>8. ASSUME NEW r \in Runs, NEW p \in Pods, Bind(r, p) \/ BindConflict(r, p) \/ BindError(r, p)
      PROVE  TypeOK'
  <2>1. Assign(cycle.obj, p) \in Objects
    BY <1>8, CycleType, WriteType DEF Bind, BindConflict, BindError
  <2>2. EtcdOK' /\ (faults \in [errors : Nat, restarts : Nat])'
    BY <1>8, <2>1, PutType, FaultType, TypeSplit DEF Bind, BindConflict, BindError, EtcdOK
  <2> QED
    BY <1>0, <1>8, <2>2 DEF Bind, BindConflict, BindError, TypeOK, EtcdOK, Collections
<1>9. ASSUME NEW r \in Runs, Others(r) PROVE TypeOK'
  <2>1. store[r] \in Objects
    BY <1>s DEF Collections
  <2>2. CASE Claim(r) \/ Finalize(r) \/ Finish(r)
    BY <2>1, <2>2, WriteType, ElsewhereType DEF Claim, Finalize, Finish
  <2>3. CASE ResetForRetry(r) \/ RequestTermination(r) \/ Delete(r)
    BY <2>1, <2>3, WriteType, ElsewhereType DEF ResetForRetry, RequestTermination, Delete
  <2> QED
    BY <1>9, <2>2, <2>3 DEF Others
<1>10. CASE Observe
  BY <1>0, <1>10, ObserveFacts DEF Observe, TypeOK, NoFault, Collections
<1>11. CASE Restart
  <2>1. EtcdOK'
    BY <1>11, RelistFacts, TypeSplit DEF Restart, EtcdOK
  <2> QED
    BY <1>0, <1>11, <2>1, SMT DEF Restart, TypeOK, EtcdOK, Collections
<1>12. ASSUME NEW p \in Pods, PodChange(p) PROVE TypeOK'
  BY <1>0, <1>12 DEF PodChange, TypeOK, NoFault
<1> QED
  BY <1>1, <1>2, <1>3, <1>4, <1>5, <1>6, <1>7, <1>8, <1>9, <1>10, <1>11, <1>12
     DEF Step, Reconcile

\* The state of the scheduler always has the shape the code declares, for any
\* number of Runs and Pods.
THEOREM TypeCorrect == Spec => []TypeOK
<1>1. Init => TypeOK
  <2> SUFFICES ASSUME Init PROVE TypeOK
    OBVIOUS
  <2> DEFINE first == [r \in Runs |-> IF r \in env.fresh THEN NewRun ELSE KnownRun]
  <2>0. NewRun \in Objects /\ KnownRun \in Objects
    <3>1. 1 \in 1 .. MaxAttempts /\ 0 \in Nat
      BY SchedulerAssumption, SMT
    <3>2. NewRun \in Objects
      BY <3>1 DEF NewRun, Objects, Phases
    <3> QED
      BY <3>2 DEF KnownRun, Objects, Phases
  <2>1. first \in Collections
    BY <2>0 DEF Collections
  <2> HIDE DEF first
  <2>2. <<first>> \in Seq(Collections) /\ <<first>> # <<>>
    BY <2>1, SMT
  <2> QED
    BY <2>2, SchedulerAssumption DEF Init, TypeOK, Collections, first
<1> QED
  BY <1>1, TypeStep, PTL DEF Spec

------------------------------------------------------------------------------
(* What optimistic concurrency gives the scheduler: an object read at any   *)
(* time either is the current one or has an older version.                  *)

OlderThan(x, y) == x.ver <= y.ver /\ (x.ver = y.ver => x = y)

\* Every state the informer may still show, and the object of the cycle, is
\* current or older; what is about to be bound was schedulable when read.
Versions ==
    /\ \A i \in 1 .. Len(etcd) : \A r \in Runs : OlderThan(etcd[i][r], store[r])
    /\ cycle # Idle => OlderThan(cycle.obj, store[cycle.run])
    /\ cycle.step = "reserved" => IsPending(cycle.obj) /\ ~cycle.obj.cancel

\* An object that passes the resourceVersion precondition is the stored one.
LEMMA CurrentObject ==
    ASSUME TypeOK, Versions, NEW r \in Runs, Held(r) \/ \E p \in Pods : Reserved(r, p),
           Current(r, cycle.obj)
    PROVE  cycle.obj = store[r]
BY SMT DEF TypeOK, Versions, Held, Reserved, Current, OlderThan, Idle

\* What the informer cache shows is the stored object or an older version.
LEMMA CachedOlder ==
    ASSUME TypeOK, Versions, NEW r \in Runs
    PROVE  OlderThan(cache[r], store[r])
<1>1. Len(etcd) \in Nat \ {0} /\ etcd \in Seq(Collections)
  BY StoreType DEF TypeOK, Collections
<1>2. cache = etcd[1]
  BY <1>1, SMT DEF cache
<1> QED
  BY <1>1, <1>2, SMT DEF Versions

\* A write on top of the current version leaves everything read before it
\* older.
LEMMA PutOlder ==
    ASSUME TypeOK, Versions, NEW r \in Runs, NEW o \in Objects, o.ver = store[r].ver, Put(r, o)
    PROVE  /\ \A i \in 1 .. Len(etcd') : \A q \in Runs : OlderThan(etcd'[i][q], store'[q])
           /\ \A x \in Objects : \A q \in Runs : OlderThan(x, store[q]) => OlderThan(x, store'[q])
           /\ store'[r] = Bump(o)
           /\ \A q \in Runs \ {r} : store'[q] = store[q]
<1>1. /\ store \in Collections /\ Len(etcd) \in Nat \ {0}
      /\ store' = [store EXCEPT ![r] = Bump(o)] /\ Len(etcd') = Len(etcd) + 1
      /\ \A i \in 1 .. Len(etcd) : etcd'[i] = etcd[i]
      /\ etcd \in Seq(Collections)
  BY StoreType, PutFacts DEF TypeOK, Collections
<1>2. store'[r] = Bump(o) /\ \A q \in Runs \ {r} : store'[q] = store[q]
  BY <1>1 DEF Collections
<1>3. Bump(o).ver = store[r].ver + 1 /\ store[r].ver \in Nat
  BY <1>1, BumpType DEF Collections, Objects
<1>4. \A x \in Objects : \A q \in Runs : OlderThan(x, store[q]) => OlderThan(x, store'[q])
  <2> SUFFICES ASSUME NEW x \in Objects, NEW q \in Runs, OlderThan(x, store[q])
               PROVE  OlderThan(x, store'[q])
    OBVIOUS
  <2>1. x.ver \in Nat
    BY DEF Objects
  <2> QED
    BY <1>2, <1>3, <2>1, SMT DEF OlderThan
<1>5. ASSUME NEW i \in 1 .. Len(etcd'), NEW q \in Runs PROVE OlderThan(etcd'[i][q], store'[q])
  <2>1. CASE i \in 1 .. Len(etcd)
    <3>1. etcd'[i] = etcd[i] /\ etcd[i][q] \in Objects
      BY <1>1, <2>1, SMT DEF Collections
    <3> QED
      BY <1>4, <2>1, <3>1 DEF Versions
  <2>2. CASE i = Len(etcd')
    <3>1. etcd'[i] = store'
      BY <2>2 DEF store
    <3>2. store'[q] \in Objects
      BY <1>1, <1>2, BumpType DEF Collections
    <3>3. store'[q].ver \in Nat
      BY <3>2 DEF Objects
    <3> QED
      BY <3>1, <3>3, SMT DEF OlderThan
  <2> QED
    BY <1>1, <2>1, <2>2, SMT
<1> QED
  BY <1>2, <1>4, <1>5

\* Without a write, versions only need looking at where the informer moved.
LEMMA QuietOlder ==
    ASSUME TypeOK, Versions,
           \/ UNCHANGED etcd
           \/ Len(etcd) > 1 /\ etcd' = Tail(etcd)
           \/ etcd' = <<store>>
    PROVE  /\ \A i \in 1 .. Len(etcd') : \A q \in Runs : OlderThan(etcd'[i][q], store'[q])
           /\ store' = store
<1>1. CASE UNCHANGED etcd
  BY <1>1 DEF Versions, store
<1>2. CASE Len(etcd) > 1 /\ etcd' = Tail(etcd)
  <2>1. /\ store' = store /\ Len(etcd') = Len(etcd) - 1 /\ Len(etcd) \in Nat
        /\ \A i \in 1 .. Len(etcd') : etcd'[i] = etcd[i + 1]
    BY <1>2, ObserveFacts, StoreType
  <2>2. \A i \in 1 .. Len(etcd') : i + 1 \in 1 .. Len(etcd)
    BY <2>1, SMT
  <2> QED
    BY <2>1, <2>2 DEF Versions
<1>3. CASE etcd' = <<store>>
  <2>1. store' = store /\ Len(etcd') = 1 /\ etcd'[1] = store /\ store \in Collections
    BY <1>3, RelistFacts, StoreType
  <2>2. \A q \in Runs : store[q].ver \in Nat
    BY <2>1 DEF Collections, Objects
  <2> QED
    BY <2>1, <2>2, SMT DEF OlderThan
<1> QED
  BY <1>1, <1>2, <1>3

------------------------------------------------------------------------------
(* Every step, seen from the store: it writes one Run in one of seven ways, *)
(* or writes nothing.                                                       *)

Shown(o) == IF o.phase = "" THEN "Pending" ELSE o.phase
SamePlace(o, s) == o.pod = s.pod /\ o.attempt = s.attempt

Notes(o, s) == Shown(o) = Shown(s) /\ SamePlace(o, s)
Places(r, o, s) == /\ IsPending(s) /\ ~s.cancel
                   /\ \E p \in Pods : Reserved(r, p) /\ cycle.obj = s /\ o = Assign(s, p)
Ends(o, s) == /\ s.phase \in {"", "Pending", "Scheduled", "Running", "Finalizing"}
              /\ o.phase = "Terminal" /\ SamePlace(o, s)
Moves(o, s) == /\ SamePlace(o, s)
               /\ \/ s.phase = "Scheduled" /\ o.phase = "Running"
                  \/ s.phase = "Running" /\ o.phase = "Finalizing"
                  \/ s.phase # "Deleted" /\ o.phase = "Deleted"
Resets(o, s) == /\ s.phase \in {"Running", "Finalizing"} /\ s.attempt < MaxAttempts
                /\ o.phase = "Pending" /\ o.pod = NoPod /\ o.attempt = s.attempt + 1

Writes(r, o) ==
    /\ Put(r, o) /\ o.ver = store[r].ver
    /\ \/ /\ cycle' = cycle
          /\ Notes(o, store[r]) \/ Ends(o, store[r]) \/ Moves(o, store[r]) \/ Resets(o, store[r])
       \/ /\ cycle' = Idle \/ (cycle' = Hold(r, Bump(o)) /\ Held(r) /\ cycle.obj = store[r])
          /\ \/ Notes(o, store[r])
             \/ Places(r, o, store[r]) /\ cycle' = Idle
             \/ IsPending(store[r]) /\ Ends(o, store[r])

Quiet ==
    /\ \/ UNCHANGED etcd
       \/ Len(etcd) > 1 /\ etcd' = Tail(etcd)
       \/ etcd' = <<store>>
    /\ \/ cycle' = cycle
       \/ cycle' = Idle
       \/ \E r \in Runs : cycle' = Hold(r, cache[r])
       \/ \E r \in Runs : Reserve(r)

\* A terminal write of the cycle ends a Run that was Pending, or nothing is written.
LEMMA FinishKinds ==
    ASSUME TypeOK, Versions, NEW r \in Runs, Synced(r), IsPending(cycle.obj),
           NEW o \in Objects, o.ver = cycle.obj.ver, o.phase = "Terminal",
           SamePlace(o, cycle.obj), FinishWith(r, o)
    PROVE  Writes(r, o) \/ Quiet
<1>1. CASE Current(r, cycle.obj) /\ Put(r, o) /\ cycle' = Idle
  <2>1. cycle.obj = store[r]
    BY <1>1, CurrentObject DEF Synced
  <2> QED
    BY <1>1, <2>1 DEF Writes, Ends, IsPending
<1>2. CASE UNCHANGED etcd /\ cycle' = Idle
  BY <1>2 DEF Quiet
<1> QED
  BY <1>1, <1>2 DEF FinishWith

\* A write of another component is one of the kinds of write.
LEMMA ElsewhereKinds ==
    ASSUME TypeOK, NEW r \in Runs, NEW o \in Objects, o.ver = store[r].ver, Elsewhere(r, o),
           Notes(o, store[r]) \/ Ends(o, store[r]) \/ Moves(o, store[r]) \/ Resets(o, store[r])
    PROVE  Writes(r, o)
BY DEF Elsewhere, Writes

\* Every step of the scheduler and of the components beside it either writes one
\* Run, in one of five ways, or writes none.
LEMMA StepKinds ==
    ASSUME TypeOK, Versions, Step
    PROVE  (\E r \in Runs : \E o \in Objects : Writes(r, o)) \/ Quiet
<1> DEFINE Goal == (\E r \in Runs : \E o \in Objects : Writes(r, o)) \/ Quiet
<1>s. store \in Collections
  BY StoreType
<1>1. ASSUME NEW r \in Runs, GetRun(r) PROVE Goal
  BY <1>1 DEF GetRun, Quiet
<1>2. ASSUME NEW r \in Runs, SyncMode(r) PROVE Goal
  <2> DEFINE o == [cycle.obj EXCEPT !.mode = TRUE, !.phase = IF @ = "" THEN "Pending" ELSE @]
  <2>0. cycle.obj \in Objects
    BY <1>2, CycleType DEF SyncMode
  <2>1. o \in Objects /\ o.ver = cycle.obj.ver /\ Notes(o, cycle.obj)
    <3>1. o \in Objects
      BY <2>0, WriteType
    <3>2. o.ver = cycle.obj.ver /\ o.pod = cycle.obj.pod /\ o.attempt = cycle.obj.attempt
      BY <2>0 DEF Objects
    <3>3. o.phase = IF cycle.obj.phase = "" THEN "Pending" ELSE cycle.obj.phase
      BY <2>0 DEF Objects
    <3> HIDE DEF o
    <3> QED
      BY <3>1, <3>2, <3>3 DEF Notes, Shown, SamePlace
  <2> HIDE DEF o
  <2>2. CASE Current(r, cycle.obj) /\ Put(r, o) /\ cycle' = Hold(r, Bump(o))
    <3>1. cycle.obj = store[r]
      BY <1>2, <2>2, CurrentObject DEF SyncMode
    <3>2. Writes(r, o)
      BY <1>2, <2>1, <2>2, <3>1 DEF Writes, SyncMode
    <3> QED
      BY <2>1, <3>2
  <2>3. CASE cycle' = Idle /\ UNCHANGED etcd
    BY <2>3 DEF Quiet
  <2> QED
    BY <1>2, <2>2, <2>3 DEF SyncMode, o
<1>3. ASSUME NEW r \in Runs, Skip(r) PROVE Goal
  BY <1>3 DEF Skip, Quiet
<1>4. ASSUME NEW r \in Runs, Reject(r) PROVE Goal
  <2>1. cycle.obj \in Objects /\ SetTerminal(cycle.obj) \in Objects
    BY <1>4, CycleType, WriteType DEF Reject, Synced
  <2>2. /\ SetTerminal(cycle.obj).ver = cycle.obj.ver
        /\ SetTerminal(cycle.obj).phase = "Terminal"
        /\ SamePlace(SetTerminal(cycle.obj), cycle.obj)
    BY <2>1 DEF SetTerminal, SamePlace, Objects
  <2> QED
    BY <1>4, <2>1, <2>2, FinishKinds DEF Reject
<1>5. ASSUME NEW r \in Runs, SelectionFailed(r) PROVE Goal
  <2> DEFINE o == [cycle.obj EXCEPT !.phase = "Terminal"]
  <2>1. cycle.obj \in Objects /\ o \in Objects
    BY <1>5, CycleType, WriteType DEF SelectionFailed, Schedulable, Synced
  <2>2. o.ver = cycle.obj.ver /\ o.phase = "Terminal" /\ SamePlace(o, cycle.obj)
    BY <2>1 DEF SamePlace, Objects
  <2>3. Synced(r) /\ IsPending(cycle.obj) /\ FinishWith(r, o)
    BY <1>5 DEF SelectionFailed, Schedulable
  <2> HIDE DEF o
  <2> QED
    BY <2>1, <2>2, <2>3, FinishKinds
<1>6. ASSUME NEW r \in Runs, Wait(r) PROVE Goal
  <2> DEFINE o == [cycle.obj EXCEPT !.phase = "Pending", !.waiting = TRUE]
  <2>1. cycle.obj \in Objects /\ o \in Objects /\ Held(r) /\ IsPending(cycle.obj)
    BY <1>6, CycleType, WriteType DEF Wait, Schedulable, Synced
  <2>2. o.ver = cycle.obj.ver /\ Notes(o, cycle.obj)
    BY <2>1 DEF Notes, SamePlace, Shown, IsPending, Objects
  <2> HIDE DEF o
  <2>3. CASE Current(r, cycle.obj) /\ Put(r, o) /\ cycle' = Idle
    <3>1. cycle.obj = store[r]
      BY <2>1, <2>3, CurrentObject
    <3>2. Writes(r, o)
      BY <2>2, <2>3, <3>1 DEF Writes
    <3> QED
      BY <2>1, <3>2
  <2>4. CASE UNCHANGED etcd /\ cycle' = Idle
    BY <2>4 DEF Quiet
  <2> QED
    BY <1>6, <2>3, <2>4 DEF Wait, o
<1>7. ASSUME NEW r \in Runs, Reserve(r) PROVE Goal
  <2>1. UNCHANGED etcd
    BY <1>7 DEF Reserve
  <2> QED
    BY <1>7, <2>1 DEF Quiet
<1>8. ASSUME NEW r \in Runs, NEW p \in Pods, Bind(r, p) \/ BindConflict(r, p) \/ BindError(r, p)
      PROVE  Goal
  <2> DEFINE o == Assign(cycle.obj, p)
  <2>1. Reserved(r, p) /\ cycle.obj \in Objects /\ o \in Objects /\ cycle' = Idle
    BY <1>8, CycleType, WriteType DEF Bind, BindConflict, BindError
  <2>2. o.ver = cycle.obj.ver
    BY <2>1 DEF Assign, Objects
  <2>3. CASE Current(r, cycle.obj) /\ Put(r, o)
    <3>1. cycle.obj = store[r]
      BY <2>1, <2>3, CurrentObject
    <3>2. IsPending(store[r]) /\ ~store[r].cancel
      BY <2>1, <3>1 DEF Versions, Reserved
    <3>3. Places(r, o, store[r])
      BY <2>1, <3>1, <3>2 DEF Places
    <3>4. Writes(r, o)
      BY <2>1, <2>2, <2>3, <3>1, <3>3 DEF Writes
    <3> QED
      BY <2>1, <3>4
  <2>4. CASE UNCHANGED etcd
    BY <2>1, <2>4 DEF Quiet
  <2> QED
    BY <1>8, <2>3, <2>4 DEF Bind, BindConflict, BindError
<1>9. ASSUME NEW r \in Runs, Others(r) PROVE Goal
  <2> DEFINE old == store[r]
  <2>1. old \in Objects
    BY <1>s DEF Collections
  <2> HIDE DEF old
  <2>2. CASE Claim(r)
    <3> DEFINE o == [old EXCEPT !.phase = "Running"]
    <3>1. o \in Objects /\ o.ver = old.ver /\ Moves(o, old)
      BY <2>1, <2>2, WriteType, ZenonT(30) DEF Claim, Moves, SamePlace, Objects, old
    <3> QED
      BY <2>2, <3>1, ElsewhereKinds DEF Claim, old
  <2>3. CASE Finalize(r)
    <3> DEFINE o == [old EXCEPT !.phase = "Finalizing"]
    <3>1. o \in Objects /\ o.ver = old.ver /\ Moves(o, old)
      BY <2>1, <2>3, WriteType, ZenonT(30) DEF Finalize, Moves, SamePlace, Objects, old
    <3> QED
      BY <2>3, <3>1, ElsewhereKinds DEF Finalize, old
  <2>4. CASE Finish(r)
    <3> DEFINE o == SetTerminal(old)
    <3>1. o \in Objects /\ o.ver = old.ver /\ Ends(o, old)
      BY <2>1, <2>4, WriteType, ZenonT(30) DEF Finish, Ends, SetTerminal, SamePlace, Objects, old
    <3> QED
      BY <2>4, <3>1, ElsewhereKinds DEF Finish, old
  <2>5. CASE ResetForRetry(r)
    <3> DEFINE o == [old EXCEPT !.phase = "Pending", !.pod = NoPod, !.attempt = @ + 1]
    <3>1. o \in Objects /\ o.ver = old.ver /\ Resets(o, old)
      BY <2>1, <2>5, WriteType, ZenonT(30) DEF ResetForRetry, Resets, Objects, old
    <3> QED
      BY <2>5, <3>1, ElsewhereKinds DEF ResetForRetry, old
  <2>6. CASE RequestTermination(r)
    <3> DEFINE o == [old EXCEPT !.cancel = TRUE]
    <3>1. o \in Objects /\ o.ver = old.ver /\ Notes(o, old)
      BY <2>1, <2>6, WriteType, ZenonT(30) DEF RequestTermination, Notes, Shown, SamePlace, Objects, old
    <3> QED
      BY <2>6, <3>1, ElsewhereKinds DEF RequestTermination, old
  <2>7. CASE Delete(r)
    <3> DEFINE o == [old EXCEPT !.phase = "Deleted"]
    <3>1. o \in Objects /\ o.ver = old.ver /\ Moves(o, old)
      BY <2>1, <2>7, WriteType, ZenonT(30) DEF Delete, Moves, SamePlace, Objects, old
    <3> QED
      BY <2>7, <3>1, ElsewhereKinds DEF Delete, old
  <2> QED
    BY <1>9, <2>2, <2>3, <2>4, <2>5, <2>6, <2>7 DEF Others
<1>10. CASE Observe \/ Restart
  BY <1>10 DEF Observe, Restart, Quiet
<1>11. ASSUME NEW p \in Pods, PodChange(p) PROVE Goal
  BY <1>11 DEF PodChange, Quiet
<1> QED
  BY <1>1, <1>2, <1>3, <1>4, <1>5, <1>6, <1>7, <1>8, <1>9, <1>10, <1>11
     DEF Step, Reconcile

------------------------------------------------------------------------------
(* The versions stay ordered.                                               *)

\* Every step keeps the versions ordered: a write is newer than all that was read.
LEMMA VersionsStep == TypeOK /\ TypeOK' /\ Versions /\ [Next]_vars => Versions'
<1> SUFFICES ASSUME TypeOK, TypeOK', Versions, [Next]_vars PROVE Versions'
  OBVIOUS
<1>a. CASE UNCHANGED vars
  BY <1>a DEF vars, Versions, store, IsPending
<1> SUFFICES ASSUME Step PROVE Versions'
  BY <1>a DEF Next
<1>c. cycle # Idle => cycle.run \in Runs /\ cycle.obj \in Objects
  BY DEF TypeOK, Idle
<1>1. ASSUME NEW r \in Runs, NEW o \in Objects, Writes(r, o) PROVE Versions'
  <2>1. /\ \A i \in 1 .. Len(etcd') : \A q \in Runs : OlderThan(etcd'[i][q], store'[q])
        /\ \A x \in Objects : \A q \in Runs : OlderThan(x, store[q]) => OlderThan(x, store'[q])
        /\ store'[r] = Bump(o)
    BY <1>1, PutOlder DEF Writes
  <2>2. CASE cycle' = cycle
    BY <1>c, <2>1, <2>2 DEF Versions, IsPending
  <2>3. CASE cycle' = Idle
    BY <2>1, <2>3 DEF Versions, Idle
  <2>4. CASE cycle' = Hold(r, Bump(o))
    <3>1. cycle'.obj = store'[r] /\ cycle'.run = r /\ cycle'.step = "held"
      BY <2>1, <2>4 DEF Hold
    <3>2. Bump(o).ver \in Nat
      BY BumpType DEF Objects
    <3>3. OlderThan(cycle'.obj, store'[cycle'.run])
      BY <2>1, <3>1, <3>2, SMT DEF OlderThan
    <3> QED
      BY <2>1, <3>1, <3>3 DEF Versions
  <2> QED
    BY <1>1, <2>2, <2>3, <2>4 DEF Writes
<1>2. ASSUME Quiet PROVE Versions'
  <2>1. /\ \A i \in 1 .. Len(etcd') : \A q \in Runs : OlderThan(etcd'[i][q], store'[q])
        /\ store' = store
    BY <1>2, QuietOlder DEF Quiet
  <2>2. CASE cycle' = cycle
    BY <2>1, <2>2 DEF Versions, IsPending
  <2>3. CASE cycle' = Idle
    BY <2>1, <2>3 DEF Versions, Idle
  <2>4. ASSUME NEW r \in Runs, cycle' = Hold(r, cache[r]) PROVE Versions'
    <3>1. OlderThan(cache[r], store[r])
      BY CachedOlder
    <3>2. cycle'.obj = cache[r] /\ cycle'.run = r /\ cycle'.step = "held"
      BY <2>4 DEF Hold
    <3> QED
      BY <2>1, <3>1, <3>2 DEF Versions
  <2>5. ASSUME NEW r \in Runs, Reserve(r) PROVE Versions'
    <3>1. PICK p \in Pods :
            cycle' = [step |-> "reserved", run |-> r, obj |-> cycle.obj, pod |-> p]
      BY <2>5 DEF Reserve, Candidates, TypeOK
    <3>2. Held(r) /\ IsPending(cycle.obj) /\ ~cycle.obj.cancel
      BY <2>5 DEF Reserve, Schedulable, Synced
    <3>3. OlderThan(cycle.obj, store[r])
      BY <3>2, SMT DEF Versions, Held, Idle
    <3>4. cycle'.obj = cycle.obj /\ cycle'.run = r
      BY <3>1
    <3> QED
      BY <2>1, <3>2, <3>3, <3>4 DEF Versions, IsPending
  <2> QED
    BY <1>2, <2>2, <2>3, <2>4, <2>5 DEF Quiet
<1> QED
  BY <1>1, <1>2, StepKinds

\* Optimistic concurrency, as the scheduler uses it: whatever the informer cache
\* shows and whatever a reconcile holds is an older version of the stored Run or
\* that very object, and a reserved object was Pending and not withdrawn.
THEOREM VersionsOrdered == Spec => [](TypeOK /\ Versions)
<1>1. Init /\ TypeOK => Versions
  <2> SUFFICES ASSUME Init, TypeOK PROVE Versions
    OBVIOUS
  <2>1. Len(etcd) = 1 /\ etcd[1] = store
    BY DEF Init, store
  <2>2. \A r \in Runs : store[r].ver \in Nat
    BY StoreType DEF Collections, Objects
  <2> QED
    BY <2>1, <2>2, SMT DEF Init, Versions, OlderThan, Idle
<1> QED
  BY <1>1, TypeCorrect, VersionsStep, PTL DEF Spec

------------------------------------------------------------------------------
(* The action properties.                                                   *)

\* A planner with a stale view never rewrites a Run that has left Pending:
\* status updates carry the version the cycle read, and a cycle writes only
\* over the very object it read.
THEOREM NoDecisionIsStale == Spec => NoStaleDecision
<1> DEFINE A == cycle' # cycle =>
                  \A r \in Runs : ~IsPending(store[r]) =>
                     store'[r].phase = store[r].phase /\ store'[r].pod = store[r].pod
<1>1. TypeOK /\ Versions /\ [Next]_vars => A \/ UNCHANGED vars
  <2> SUFFICES ASSUME TypeOK, Versions, Step, cycle' # cycle,
                      NEW q \in Runs, ~IsPending(store[q])
               PROVE  store'[q].phase = store[q].phase /\ store'[q].pod = store[q].pod
    BY DEF Next
  <2>1. ASSUME NEW r \in Runs, NEW o \in Objects, Writes(r, o)
        PROVE  store'[q].phase = store[q].phase /\ store'[q].pod = store[q].pod
    <3>1. store'[r] = Bump(o) /\ \A x \in Runs \ {r} : store'[x] = store[x]
      BY <2>1, PutOlder DEF Writes
    <3>2. Bump(o).phase = o.phase /\ Bump(o).pod = o.pod
      BY BumpType
    <3>3. Notes(o, store[r]) \/ IsPending(store[r])
      BY <2>1 DEF Writes, Places
    <3>4. CASE q = r
      BY <3>1, <3>2, <3>3, <3>4 DEF Notes, SamePlace, Shown, IsPending
    <3> QED
      BY <3>1, <3>4
  <2>2. CASE Quiet
    BY <2>2, QuietOlder DEF Quiet
  <2> QED
    BY <2>1, <2>2, StepKinds
<1>2. TypeOK /\ Versions /\ [Next]_vars => [A]_vars
  BY <1>1
<1> QED
  BY <1>2, VersionsOrdered, PTL DEF Spec, NoStaleDecision

\* A Run whose termination is requested before the bind is never placed: the
\* request made the version that the cycle read an old one.
THEOREM TerminationBeatsPlacement == Spec => NoPlacementAfterTermination
<1> DEFINE A == \A r \in Runs : store[r].cancel /\ IsPending(store[r])
                                  => store'[r].phase # "Scheduled"
<1>1. TypeOK /\ Versions /\ [Next]_vars => A \/ UNCHANGED vars
  <2> SUFFICES ASSUME TypeOK, Versions, Step, NEW q \in Runs,
                      store[q].cancel, IsPending(store[q])
               PROVE  store'[q].phase # "Scheduled"
    BY DEF Next
  <2>1. ASSUME NEW r \in Runs, NEW o \in Objects, Writes(r, o)
        PROVE  store'[q].phase # "Scheduled"
    <3>1. store'[r] = Bump(o) /\ \A x \in Runs \ {r} : store'[x] = store[x]
      BY <2>1, PutOlder DEF Writes
    <3>2. Bump(o).phase = o.phase
      BY BumpType
    <3>3. CASE q = r
      BY <2>1, <3>1, <3>2, <3>3
         DEF Writes, Notes, Places, Ends, Moves, Resets, Shown, IsPending
    <3> QED
      BY <3>1, <3>3 DEF IsPending
  <2>2. CASE Quiet
    BY <2>2, QuietOlder DEF Quiet, IsPending
  <2> QED
    BY <2>1, <2>2, StepKinds
<1>2. TypeOK /\ Versions /\ [Next]_vars => [A]_vars
  BY <1>1
<1> QED
  BY <1>2, VersionsOrdered, PTL DEF Spec, NoPlacementAfterTermination

------------------------------------------------------------------------------
(* Capacity. Only Reserve can add a Run to a Pod's bookings, and it has     *)
(* just counted them.                                                       *)

\* A step that books no new Run on a Pod keeps the Pod within its slots.
LEMMA FewerBookings ==
    ASSUME TypeOK, CapacityRespected, NEW p \in Pods, Booked(p)' \subseteq Booked(p)
    PROVE  Cardinality(Booked(p))' <= Capacity[p]
<1>1. IsFiniteSet(Booked(p))
  BY SchedulerAssumption, FS_Subset DEF Booked
<1>2. IsFiniteSet(Booked(p)') /\ Cardinality(Booked(p)') <= Cardinality(Booked(p))
  BY <1>1, FS_Subset
<1>3. /\ Cardinality(Booked(p)') \in Nat /\ Cardinality(Booked(p)) \in Nat
      /\ Capacity[p] \in Nat
  BY <1>1, <1>2, FS_CardinalityType, SchedulerAssumption
<1> QED
  BY <1>2, <1>3, SMT DEF CapacityRespected

\* Reserve: what is booked on the chosen Pod is in the cache, among the
\* assumptions the snapshot kept, or the Run itself.
LEMMA ReserveFits ==
    ASSUME TypeOK, CapacityRespected, NEW r \in Runs, Reserve(r), TrackOrphans, NEW q \in Pods
    PROVE  Cardinality(Booked(q))' <= Capacity[q]
<1>1. PICK p \in Candidates(r) :
         /\ assumed' = [SyncAssumed EXCEPT ![r] = p]
         /\ cycle' = [step |-> "reserved", run |-> r, obj |-> cycle.obj, pod |-> p]
  BY DEF Reserve
<1>2. store' = store /\ cache' = cache /\ p \in Pods
  BY <1>1 DEF Reserve, store, cache, Candidates, TypeOK
<1>3. \A x \in Runs : Reserved(x, q)' => x = r /\ q = p
  BY <1>1 DEF Reserved
<1>4. \A x \in Runs : ConsumesOn(store'[x], q) /\ x \notin orphaned'
                        => x \notin orphaned /\ Accounted(x)'
  BY <1>2 DEF TrackOrphans, ConsumesOn
<1>5. CASE q # p
  <2>1. Booked(q)' \subseteq Booked(q)
    BY <1>2, <1>3, <1>4, <1>5 DEF Booked, ConsumesOn, ConsumesCapacity
  <2> QED
    BY <2>1, FewerBookings
<1>6. CASE q = p
  <2> DEFINE A == {x \in Runs : ConsumesOn(cache[x], p)}
             B == {x \in Runs : SyncAssumed[x] = p}
  <2>1. IsFiniteSet(A) /\ IsFiniteSet(B)
    BY SchedulerAssumption, FS_Subset
  <2>2. \A x \in Runs : Accounted(x)' /\ ConsumesOn(store'[x], p) => x \in A \/ x \in B \/ x = r
    <3> SUFFICES ASSUME NEW x \in Runs, Accounted(x)', ConsumesOn(store'[x], p), x # r
                 PROVE  x \in A \/ x \in B
      OBVIOUS
    <3>1. store'[x].pod = p
      BY DEF ConsumesOn
    <3>2. ConsumesOn(cache[x], p) \/ assumed'[x] = p
      BY <1>2, <3>1 DEF Accounted, ConsumesOn, ConsumesCapacity
    <3>3. assumed'[x] = SyncAssumed[x]
      BY <1>1 DEF SyncAssumed
    <3> QED
      BY <3>2, <3>3
  <2>3. Booked(p)' \subseteq (A \cup B) \cup {r}
    BY <1>3, <1>4, <1>6, <2>2 DEF Booked
  <2>4. Cardinality(A) + Cardinality(B) + 1 <= Capacity[p]
    BY <1>1 DEF Candidates, Usage
  <2> HIDE DEF A, B
  <2>5. /\ IsFiniteSet(A \cup B) /\ Cardinality(A \cup B) \in Nat
        /\ Cardinality(A) \in Nat /\ Cardinality(B) \in Nat
        /\ Cardinality(A \cup B) <= Cardinality(A) + Cardinality(B)
    <3>1. /\ IsFiniteSet(A \cup B) /\ IsFiniteSet(A \cap B)
          /\ Cardinality(A \cup B) = Cardinality(A) + Cardinality(B) - Cardinality(A \cap B)
      BY <2>1, FS_Union, FS_Intersection
    <3>2. /\ Cardinality(A \cup B) \in Nat /\ Cardinality(A \cap B) \in Nat
          /\ Cardinality(A) \in Nat /\ Cardinality(B) \in Nat
      BY <2>1, <3>1, FS_CardinalityType
    <3> QED
      BY <3>1, <3>2, SMT
  <2>6. /\ IsFiniteSet((A \cup B) \cup {r}) /\ Cardinality((A \cup B) \cup {r}) \in Nat
        /\ Cardinality((A \cup B) \cup {r}) <= Cardinality(A \cup B) + 1
    <3>1. IsFiniteSet({r}) /\ Cardinality({r}) = 1
      BY FS_Singleton
    <3>2. /\ IsFiniteSet((A \cup B) \cup {r}) /\ IsFiniteSet((A \cup B) \cap {r})
          /\ Cardinality((A \cup B) \cup {r})
               = Cardinality(A \cup B) + Cardinality({r}) - Cardinality((A \cup B) \cap {r})
      BY <2>5, <3>1, FS_Union, FS_Intersection
    <3>3. /\ Cardinality((A \cup B) \cup {r}) \in Nat
          /\ Cardinality((A \cup B) \cap {r}) \in Nat
      BY <3>2, FS_CardinalityType
    <3> QED
      BY <2>5, <3>1, <3>2, <3>3, SMT
  <2>7. /\ Cardinality(Booked(p)') \in Nat
        /\ Cardinality(Booked(p)') <= Cardinality((A \cup B) \cup {r})
    BY <2>3, <2>6, FS_Subset, FS_CardinalityType
  <2>8. Capacity[p] \in Nat
    BY <1>2, SchedulerAssumption
  <2> QED
    BY <1>6, <2>4, <2>5, <2>6, <2>7, <2>8, SMT
<1> QED
  BY <1>5, <1>6

\* Every step of the scheduler and of the components beside it keeps the booked
\* Runs of a Pod within its slots.
LEMMA CapacityStep ==
    TypeOK /\ Versions /\ CapacityRespected /\ [Next]_vars => CapacityRespected'
<1> SUFFICES ASSUME TypeOK, Versions, CapacityRespected, [Next]_vars, NEW q \in Pods
             PROVE  Cardinality(Booked(q))' <= Capacity[q]
  BY DEF CapacityRespected
<1>a. CASE UNCHANGED vars
  <2>1. Booked(q)' = Booked(q)
    BY <1>a DEF vars, Booked, store, Reserved, ConsumesOn, ConsumesCapacity
  <2> QED
    BY <2>1, FewerBookings
<1> SUFFICES ASSUME Step, TrackOrphans PROVE Cardinality(Booked(q))' <= Capacity[q]
  BY <1>a DEF Next
<1>0. \A x \in Runs : ConsumesOn(store'[x], q) /\ x \notin orphaned' => x \notin orphaned
  BY DEF TrackOrphans, ConsumesOn
<1>1. ASSUME NEW r \in Runs, NEW o \in Objects, Writes(r, o)
      PROVE  Cardinality(Booked(q))' <= Capacity[q]
  <2>1. store'[r] = Bump(o) /\ \A x \in Runs \ {r} : store'[x] = store[x]
    BY <1>1, PutOlder DEF Writes
  <2>2. Bump(o).phase = o.phase /\ Bump(o).pod = o.pod
    BY BumpType
  <2>3. \A x \in Runs : Reserved(x, q)' => Reserved(x, q)
    BY <1>1, SMT DEF Writes, Reserved, Idle, Hold
  <2>4. ConsumesOn(store'[r], q) => ConsumesOn(store[r], q) \/ Reserved(r, q)
    <3>1. CASE Places(r, o, store[r])
      <4>1. PICK p \in Pods : Reserved(r, p) /\ o = Assign(store[r], p)
        BY <3>1 DEF Places
      <4>2. store[r] \in Objects
        BY StoreType DEF Collections
      <4>3. o.pod = p
        BY <4>1, <4>2 DEF Assign, Objects
      <4> QED
        BY <2>1, <2>2, <4>1, <4>3 DEF ConsumesOn
    <3>2. CASE Notes(o, store[r]) \/ Ends(o, store[r]) \/ Moves(o, store[r]) \/ Resets(o, store[r])
      BY <2>1, <2>2, <3>2
         DEF Notes, Ends, Moves, Resets, SamePlace, Shown, ConsumesOn, ConsumesCapacity
    <3> QED
      BY <1>1, <3>1, <3>2 DEF Writes
  <2>5. Booked(q)' \subseteq Booked(q)
    <3> SUFFICES ASSUME NEW x \in Runs, ConsumesOn(store'[x], q), x \notin orphaned'
                 PROVE  x \in Booked(q)
      BY <2>3 DEF Booked
    <3>1. x \notin orphaned
      BY <1>0
    <3>2. ConsumesOn(store[x], q) \/ Reserved(x, q)
      BY <2>1, <2>4
    <3> QED
      BY <3>1, <3>2 DEF Booked
  <2> QED
    BY <2>5, FewerBookings
<1>2. ASSUME Quiet, ~\E r \in Runs : Reserve(r)
      PROVE  Cardinality(Booked(q))' <= Capacity[q]
  <2>1. store' = store
    BY <1>2, QuietOlder DEF Quiet
  <2>2. \A x \in Runs : Reserved(x, q)' => Reserved(x, q)
    BY <1>2, SMT DEF Quiet, Reserved, Idle, Hold
  <2>3. Booked(q)' \subseteq Booked(q)
    BY <1>0, <2>1, <2>2 DEF Booked
  <2> QED
    BY <2>3, FewerBookings
<1> QED
  BY <1>1, <1>2, ReserveFits, StepKinds

\* The assignments the scheduler has kept account of never exceed the slots of
\* a Pod, for any number of Runs and Pods and any informer lag.
THEOREM CapacityKept == Spec => []CapacityRespected
<1>1. Init => CapacityRespected
  <2> SUFFICES ASSUME Init, NEW p \in Pods PROVE Cardinality(Booked(p)) <= Capacity[p]
    BY DEF CapacityRespected
  <2>1. Len(etcd) = 1 /\ store = [r \in Runs |-> IF r \in env.fresh THEN NewRun ELSE KnownRun]
    BY DEF Init, store
  <2>2. \A r \in Runs : ~ConsumesCapacity(store[r])
    BY <2>1 DEF ConsumesCapacity, NewRun, KnownRun
  <2>3. \A r \in Runs : ~Reserved(r, p)
    BY DEF Init, Idle, Reserved
  <2>4. Booked(p) = {}
    BY <2>2, <2>3 DEF Booked, ConsumesOn
  <2>5. Cardinality({}) = 0 /\ Capacity[p] \in Nat
    BY FS_EmptySet, SchedulerAssumption
  <2>6. Cardinality(Booked(p)) = Cardinality({})
    BY <2>4
  <2> QED
    BY <2>5, <2>6, SMT
<1> QED
  BY <1>1, VersionsOrdered, CapacityStep, PTL DEF Spec

------------------------------------------------------------------------------
(* The handoff from an assumption to the observed assignment.               *)

Unassigned(o) == IsPending(o) /\ o.pod = NoPod

\* The states of a Run that the informer may still show. Once it shows the stored
\* object it keeps showing it. While the Run holds a Pod they are states of before its
\* assignment, followed by states that show the Pod: the cycle that assigned it
\* read the Run after its earlier attempts.
InOrder(e, r, s) ==
    /\ IsPending(s) => s.pod = NoPod
    /\ \A i, j \in 1 .. Len(e) : i <= j /\ e[i][r] = s => e[j][r] = s
    /\ ConsumesCapacity(s) =>
         /\ \A i \in 1 .. Len(e) : Unassigned(e[i][r]) \/ ConsumesOn(e[i][r], s.pod)
         /\ \A i, j \in 1 .. Len(e) :
               i <= j /\ ConsumesOn(e[i][r], s.pod) => ConsumesOn(e[j][r], s.pod)
NeverAssigned(e, r) == \A i \in 1 .. Len(e) : Unassigned(e[i][r])

\* An object that a bind may still persist is one the informer shows no assignment
\* after, and every assignment outside orphaned is accounted for.
Handoff ==
    /\ \A r \in Runs : InOrder(etcd, r, store[r])
    /\ \A r \in Runs : ConsumesCapacity(store[r]) /\ r \notin orphaned => Accounted(r)
    /\ cycle # Idle /\ IsPending(cycle.obj) /\ cycle.obj = store[cycle.run]
         => NeverAssigned(etcd, cycle.run)

\* The informer's states of a Run that is not written are states it could show
\* before, in the same order.
LEMMA SameStates ==
    ASSUME TypeOK, NEW x \in Runs,
           \/ UNCHANGED etcd
           \/ Len(etcd) > 1 /\ etcd' = Tail(etcd)
           \/ etcd' = <<store>>
           \/ \E r \in Runs \ {x} : \E o \in Objects : Put(r, o)
    PROVE  \E f \in [1 .. Len(etcd') -> 1 .. Len(etcd)] :
              /\ \A i \in 1 .. Len(etcd') : etcd'[i][x] = etcd[f[i]][x]
              /\ \A i, j \in 1 .. Len(etcd') : i <= j => f[i] <= f[j]
<1>a. Len(etcd) \in Nat \ {0} /\ store = etcd[Len(etcd)] /\ store \in Collections
  BY StoreType DEF store
<1>1. CASE UNCHANGED etcd
  <2> DEFINE f == [i \in 1 .. Len(etcd') |-> i]
  <2>1. f \in [1 .. Len(etcd') -> 1 .. Len(etcd)]
    BY <1>1
  <2> QED
    BY <1>1, <2>1
<1>2. CASE Len(etcd) > 1 /\ etcd' = Tail(etcd)
  <2> DEFINE f == [i \in 1 .. Len(etcd') |-> i + 1]
  <2>1. /\ Len(etcd') = Len(etcd) - 1
        /\ \A i \in 1 .. Len(etcd') : etcd'[i] = etcd[i + 1]
    BY <1>2, ObserveFacts
  <2>2. \A i \in 1 .. Len(etcd') : i + 1 \in 1 .. Len(etcd)
    BY <1>a, <2>1, SMT
  <2>3. f \in [1 .. Len(etcd') -> 1 .. Len(etcd)]
    BY <2>2
  <2>4. \A i, j \in 1 .. Len(etcd') : i <= j => i + 1 <= j + 1
    BY <1>a, <2>1, SMT
  <2> QED
    BY <2>1, <2>3, <2>4
<1>3. CASE etcd' = <<store>>
  <2> DEFINE f == [i \in 1 .. Len(etcd') |-> Len(etcd)]
  <2>1. Len(etcd') = 1 /\ etcd'[1] = store
    BY <1>3, RelistFacts
  <2>2. Len(etcd) \in 1 .. Len(etcd) /\ Len(etcd) <= Len(etcd) /\ \A i \in 1 .. Len(etcd') : i = 1
    BY <1>a, <2>1, SMT
  <2>3. f \in [1 .. Len(etcd') -> 1 .. Len(etcd)]
    BY <2>2
  <2> QED
    BY <1>a, <2>1, <2>2, <2>3
<1>4. ASSUME NEW r \in Runs \ {x}, NEW o \in Objects, Put(r, o)
      PROVE  \E f \in [1 .. Len(etcd') -> 1 .. Len(etcd)] :
                /\ \A i \in 1 .. Len(etcd') : etcd'[i][x] = etcd[f[i]][x]
                /\ \A i, j \in 1 .. Len(etcd') : i <= j => f[i] <= f[j]
  <2> DEFINE n == Len(etcd)
             f == [i \in 1 .. Len(etcd') |-> IF i \in 1 .. n THEN i ELSE n]
  <2>1. /\ Len(etcd') = n + 1 /\ \A i \in 1 .. n : etcd'[i] = etcd[i]
        /\ store' = [store EXCEPT ![r] = Bump(o)]
    BY <1>4, PutFacts
  <2>2. etcd'[n + 1][x] = etcd[n][x]
    <3>1. etcd'[n + 1] = store'
      BY <2>1 DEF store
    <3> QED
      BY <1>a, <2>1, <3>1 DEF Collections
  <2>3. /\ n \in 1 .. n /\ \A i \in 1 .. Len(etcd') : i \in 1 .. n \/ i = n + 1
        /\ n + 1 \notin 1 .. n
    BY <1>a, <2>1, SMT
  <2>4. f \in [1 .. Len(etcd') -> 1 .. n]
    BY <2>3
  <2>5. \A i, j \in 1 .. Len(etcd') : i <= j => f[i] <= f[j]
    BY <1>a, <2>1, SMT
  <2>6. \A i \in 1 .. Len(etcd') : etcd'[i][x] = etcd[f[i]][x]
    BY <2>1, <2>2, <2>3
  <2> QED
    BY <2>4, <2>5, <2>6
<1> QED
  BY <1>1, <1>2, <1>3, <1>4

\* What the informer may show of a Run that is not written stays in order, and an
\* assignment that the cache shows stays shown.
LEMMA SameBacklog ==
    ASSUME TypeOK, TypeOK', NEW x \in Runs, InOrder(etcd, x, store[x]), store'[x] = store[x],
           \/ UNCHANGED etcd
           \/ Len(etcd) > 1 /\ etcd' = Tail(etcd)
           \/ etcd' = <<store>>
           \/ \E r \in Runs \ {x} : \E o \in Objects : Put(r, o)
    PROVE  /\ InOrder(etcd', x, store'[x])
           /\ NeverAssigned(etcd, x) => NeverAssigned(etcd', x)
           /\ ConsumesCapacity(store[x]) /\ ConsumesOn(cache[x], store[x].pod)
                => ConsumesOn(cache'[x], store[x].pod)
<1>1. PICK f \in [1 .. Len(etcd') -> 1 .. Len(etcd)] :
              /\ \A i \in 1 .. Len(etcd') : etcd'[i][x] = etcd[f[i]][x]
              /\ \A i, j \in 1 .. Len(etcd') : i <= j => f[i] <= f[j]
  BY SameStates
<1>2. \A i \in 1 .. Len(etcd') : f[i] \in 1 .. Len(etcd)
  BY <1>1
<1>3. InOrder(etcd', x, store'[x])
  <2> DEFINE At(i) == etcd[i][x]
             s == store[x]
  <2>1. /\ IsPending(s) => s.pod = NoPod
        /\ \A i, j \in 1 .. Len(etcd) : i <= j /\ At(i) = s => At(j) = s
        /\ ConsumesCapacity(s) =>
             /\ \A i \in 1 .. Len(etcd) : Unassigned(At(i)) \/ ConsumesOn(At(i), s.pod)
             /\ \A i, j \in 1 .. Len(etcd) :
                   i <= j /\ ConsumesOn(At(i), s.pod) => ConsumesOn(At(j), s.pod)
    BY DEF InOrder
  <2>2. \A i \in 1 .. Len(etcd') : etcd'[i][x] = At(f[i])
    BY <1>1
  <2> HIDE DEF At, s
  <2>3. \A i, j \in 1 .. Len(etcd') : i <= j /\ At(f[i]) = s => At(f[j]) = s
    BY <1>1, <1>2, <2>1
  <2>4. ASSUME ConsumesCapacity(s)
        PROVE  /\ \A i \in 1 .. Len(etcd') : Unassigned(At(f[i])) \/ ConsumesOn(At(f[i]), s.pod)
               /\ \A i, j \in 1 .. Len(etcd') :
                     i <= j /\ ConsumesOn(At(f[i]), s.pod) => ConsumesOn(At(f[j]), s.pod)
    BY <1>1, <1>2, <2>1, <2>4
  <2>5. store'[x] = s
    BY DEF s
  <2> QED
    BY <2>1, <2>2, <2>3, <2>4, <2>5 DEF InOrder
<1>4. NeverAssigned(etcd, x) => NeverAssigned(etcd', x)
  BY <1>1, <1>2 DEF NeverAssigned
<1>5. /\ cache = etcd[1] /\ cache' = etcd'[1] /\ 1 \in 1 .. Len(etcd) /\ 1 \in 1 .. Len(etcd')
  <2>1. etcd \in Seq(Collections) /\ etcd' \in Seq(Collections) /\ etcd # <<>> /\ etcd' # <<>>
    BY DEF TypeOK, Collections
  <2> QED
    BY <2>1, SMT DEF cache
<1>6. 1 <= f[1]
  BY <1>2, <1>5, SMT
<1> QED
  BY <1>1, <1>2, <1>3, <1>4, <1>5, <1>6 DEF InOrder

\* A write leaves what the informer may show of its Run in order: only a bind
\* makes an assignment, over an object that is not followed by one.
LEMMA WrittenBacklog ==
    ASSUME TypeOK, Versions, Handoff, NEW r \in Runs, NEW o \in Objects, Writes(r, o)
    PROVE  InOrder(etcd', r, store'[r])
<1> DEFINE s == store[r]
           n == Len(etcd)
<1>a. /\ n \in Nat \ {0} /\ Len(etcd') = n + 1 /\ \A i \in 1 .. n : etcd'[i] = etcd[i]
      /\ s \in Objects /\ o.ver = s.ver /\ store' = etcd'[n + 1]
  <2>1. Len(etcd') = n + 1 /\ \A i \in 1 .. n : etcd'[i] = etcd[i]
    BY PutFacts DEF Writes
  <2> QED
    BY <2>1, StoreType DEF Writes, Collections, store
<1>b. /\ store'[r] = Bump(o) /\ Bump(o).phase = o.phase /\ Bump(o).pod = o.pod
      /\ Bump(o).ver = o.ver + 1
  BY PutOlder, BumpType DEF Writes
<1>c. /\ IsPending(s) => s.pod = NoPod
      /\ ConsumesCapacity(s) =>
           /\ \A i \in 1 .. n : Unassigned(etcd[i][r]) \/ ConsumesOn(etcd[i][r], s.pod)
           /\ \A i, j \in 1 .. n : i <= j /\ ConsumesOn(etcd[i][r], s.pod) => ConsumesOn(etcd[j][r], s.pod)
  BY DEF Handoff, InOrder
<1>d. \/ Notes(o, s) \/ Ends(o, s) \/ Moves(o, s) \/ Resets(o, s) \/ Places(r, o, s)
  BY DEF Writes
<1>e. \A i \in 1 .. n : etcd[i][r] # store'[r]
  <2> SUFFICES ASSUME NEW i \in 1 .. n, etcd[i][r] = store'[r] PROVE FALSE
    OBVIOUS
  <2>1. Bump(o).ver <= s.ver
    BY <1>b DEF Versions, OlderThan
  <2> QED
    BY <1>a, <1>b, <2>1, SMT DEF Objects
<1>f. \A i \in 1 .. Len(etcd') : i \in 1 .. n \/ i = n + 1
  BY <1>a, SMT
<1>g. \A i, j \in 1 .. Len(etcd') : i <= j /\ i = n + 1 => j = n + 1
  BY <1>a, SMT
<1> HIDE DEF s, n
<1>1. IsPending(store'[r]) => store'[r].pod = NoPod
  <2>1. CASE Places(r, o, s)
    <3>1. o.phase = "Scheduled"
      BY <1>a, <2>1 DEF Places, Assign, Objects
    <3> QED
      BY <1>b, <3>1 DEF IsPending
  <2> QED
    BY <1>b, <1>c, <1>d, <2>1 DEF Notes, Ends, Moves, Resets, SamePlace, Shown, IsPending
<1>2. \A i, j \in 1 .. Len(etcd') : i <= j /\ etcd'[i][r] = store'[r] => etcd'[j][r] = store'[r]
  BY <1>a, <1>e, <1>f, <1>g
<1>3. ASSUME ConsumesCapacity(store'[r])
      PROVE  /\ \A i \in 1 .. n : \/ Unassigned(etcd[i][r])
                                  \/ ConsumesOn(etcd[i][r], store'[r].pod)
             /\ \A i, j \in 1 .. n : i <= j /\ ConsumesOn(etcd[i][r], store'[r].pod)
                                       => ConsumesOn(etcd[j][r], store'[r].pod)
  <2>1. CASE Places(r, o, s)
    <3>1. cycle.step = "reserved" /\ cycle.run = r
      BY <2>1 DEF Places, Reserved
    <3>2. cycle # Idle /\ IsPending(cycle.obj) /\ cycle.obj = store[cycle.run]
      <4>1. cycle # Idle
        BY <3>1, SMT DEF Idle
      <4>2. IsPending(cycle.obj)
        BY <3>1 DEF Versions
      <4>3. cycle.obj = s
        BY <2>1 DEF Writes, Places
      <4> QED
        BY <3>1, <4>1, <4>2, <4>3 DEF s
    <3>3. \A i \in 1 .. n : Unassigned(etcd[i][r])
      BY <3>1, <3>2 DEF Handoff, NeverAssigned, n
    <3>4. \A x, p : Unassigned(x) => ~ConsumesOn(x, p)
      BY DEF Unassigned, IsPending, ConsumesOn, ConsumesCapacity
    <3> QED
      BY <3>3, <3>4
  <2>2. CASE ~Places(r, o, s)
    <3>1. ConsumesCapacity(s) /\ s.pod = o.pod
      BY <1>3, <1>b, <1>d, <2>2 DEF Notes, Ends, Moves, Resets, SamePlace, Shown, ConsumesCapacity
    <3> QED
      BY <1>b, <1>c, <3>1
  <2> QED
    BY <2>1, <2>2
<1>4. ConsumesCapacity(store'[r]) => ConsumesOn(etcd'[n + 1][r], store'[r].pod)
  BY <1>a DEF ConsumesOn
<1> QED
  BY <1>a, <1>f, <1>g, <1>1, <1>2, <1>3, <1>4 DEF InOrder

\* An assumption is dropped when the cache shows an assignment or a Run past
\* Pending, when its own cycle reserves again or ends, or by a restart.
LEMMA AssumptionKept ==
    ASSUME TypeOK, Step, NEW x \in Runs
    PROVE  \/ assumed'[x] = assumed[x]
           \/ ~Unassigned(cache[x])
           \/ faults'.restarts > faults.restarts
           \/ Held(x) /\ cycle'.step = "reserved"
           \/ \E p \in Pods : Reserved(x, p) /\ cycle' = Idle
<1> DEFINE Goal == \/ assumed'[x] = assumed[x]
                   \/ ~Unassigned(cache[x])
                   \/ faults'.restarts > faults.restarts
                   \/ Held(x) /\ cycle'.step = "reserved"
                   \/ \E p \in Pods : Reserved(x, p) /\ cycle' = Idle
<1>a. assumed \in [Runs -> Pods \cup {NoPod}]
  BY DEF TypeOK
<1>b. Unassigned(cache[x]) => SyncAssumed[x] = assumed[x]
  BY DEF SyncAssumed, Unassigned
<1>1. ASSUME NEW r \in Runs, GetRun(r) PROVE Goal
  BY <1>1, <1>a DEF GetRun, Unassigned
<1>2. ASSUME NEW r \in Runs, SyncMode(r) \/ Skip(r) \/ Reject(r) PROVE Goal
  BY <1>2 DEF SyncMode, Skip, Reject
<1>3. ASSUME NEW r \in Runs, SelectionFailed(r) \/ Wait(r) PROVE Goal
  BY <1>3, <1>b DEF SelectionFailed, Wait
<1>4. ASSUME NEW r \in Runs, Reserve(r) PROVE Goal
  <2>1. PICK p \in Candidates(r) :
          /\ assumed' = [SyncAssumed EXCEPT ![r] = p]
          /\ cycle' = [step |-> "reserved", run |-> r, obj |-> cycle.obj, pod |-> p]
    BY <1>4 DEF Reserve
  <2>2. CASE x = r
    BY <1>4, <2>1, <2>2 DEF Reserve, Schedulable, Synced
  <2>3. CASE x # r
    <3>1. assumed'[x] = SyncAssumed[x]
      BY <2>1, <2>3 DEF SyncAssumed
    <3> QED
      BY <1>b, <3>1
  <2> QED
    BY <2>2, <2>3
<1>5. ASSUME NEW r \in Runs, NEW p \in Pods, Bind(r, p) \/ BindConflict(r, p) \/ BindError(r, p)
      PROVE  Goal
  BY <1>5, <1>a DEF Bind, BindConflict, BindError
<1>6. ASSUME NEW r \in Runs, Others(r) PROVE Goal
  BY <1>6 DEF Others, Claim, Finalize, Finish, ResetForRetry, RequestTermination, Delete, Elsewhere
<1>7. ASSUME Restart PROVE Goal
  <2>1. faults'.restarts > faults.restarts
    BY <1>7, SMT DEF Restart, TypeOK
  <2> QED
    BY <2>1
<1>8. ASSUME Observe \/ \E p \in Pods : PodChange(p) PROVE Goal
  BY <1>8 DEF Observe, PodChange
<1> HIDE DEF Goal
<1>9. Goal
  BY <1>1, <1>2, <1>3, <1>4, <1>5, <1>6, <1>7, <1>8 DEF Step, Reconcile
<1> QED
  BY <1>9 DEF Goal

\* What a step does to a Run that holds its Pod before and after: nothing, as far
\* as the accounting of the cache goes.
LEMMA HandoffStep ==
    ASSUME TypeOK, TypeOK', Versions, Versions', Handoff, Step, TrackOrphans
    PROVE  /\ Handoff'
           /\ \A x \in Runs : ConsumesCapacity(store'[x]) =>
                 \/ \E p \in Pods : Reserved(x, p) /\ cycle' = Idle
                 \/ /\ ConsumesCapacity(store[x]) /\ store'[x].pod = store[x].pod
                    /\ ConsumesOn(cache[x], store[x].pod) => ConsumesOn(cache'[x], store[x].pod)
<1> DEFINE Kept(x) == ConsumesCapacity(store'[x]) =>
                 \/ \E p \in Pods : Reserved(x, p) /\ cycle' = Idle
                 \/ /\ ConsumesCapacity(store[x]) /\ store'[x].pod = store[x].pod
                    /\ ConsumesOn(cache[x], store[x].pod) => ConsumesOn(cache'[x], store[x].pod)
           Next3 == cycle' # Idle /\ IsPending(cycle'.obj) /\ cycle'.obj = store'[cycle'.run]
                      => NeverAssigned(etcd', cycle'.run)
<1>a. \A x \in Runs : ConsumesCapacity(store'[x]) /\ x \notin orphaned' => Accounted(x)'
  BY DEF TrackOrphans
<1>b. cycle # Idle => cycle.run \in Runs /\ cycle.obj \in Objects
  BY DEF TypeOK, Idle
<1>c. cycle' # Idle => cycle'.run \in Runs /\ cycle'.obj \in Objects
  BY DEF TypeOK, Idle
<1>1. ASSUME NEW r \in Runs, NEW o \in Objects, Writes(r, o)
      PROVE  /\ \A x \in Runs : InOrder(etcd', x, store'[x]) /\ Kept(x)
             /\ Next3
  <2>a. /\ store'[r] = Bump(o) /\ \A x \in Runs \ {r} : store'[x] = store[x]
        /\ Put(r, o) /\ o.ver = store[r].ver /\ store[r] \in Objects
    BY <1>1, PutOlder, StoreType DEF Writes, Collections
  <2>b. /\ Bump(o).phase = o.phase /\ Bump(o).pod = o.pod /\ Bump(o).ver = o.ver + 1
        /\ o.ver \in Nat
    BY BumpType DEF Objects
  <2>c. cache' = cache
    BY <2>a, PutFacts
  <2>1. InOrder(etcd', r, store'[r])
    BY <1>1, WrittenBacklog
  <2>2. Kept(r)
    <3>1. CASE Places(r, o, store[r])
      <4>1. cycle' = Idle
        <5>1. o.phase = "Scheduled" /\ IsPending(store[r])
          BY <2>a, <3>1 DEF Places, Assign, Objects
        <5>2. ~Notes(o, store[r]) /\ ~Ends(o, store[r]) /\ ~Moves(o, store[r]) /\ ~Resets(o, store[r])
          BY <5>1 DEF Notes, Ends, Moves, Resets, Shown, IsPending
        <5> QED
          BY <1>1, <5>2 DEF Writes
      <4> QED
        BY <3>1, <4>1 DEF Places
    <3>2. CASE Notes(o, store[r]) \/ Ends(o, store[r]) \/ Moves(o, store[r]) \/ Resets(o, store[r])
      BY <2>a, <2>b, <2>c, <3>2
         DEF Notes, Ends, Moves, Resets, SamePlace, Shown, ConsumesCapacity, ConsumesOn
    <3> QED
      BY <1>1, <3>1, <3>2 DEF Writes
  <2>3. ASSUME NEW x \in Runs, x # r PROVE InOrder(etcd', x, store'[x]) /\ Kept(x)
    <3>1. InOrder(etcd, x, store[x]) /\ store'[x] = store[x]
      BY <2>3, <2>a DEF Handoff
    <3>2. InOrder(etcd', x, store'[x])
      BY <2>3, <2>a, <3>1, SameBacklog
    <3> QED
      BY <2>c, <3>1, <3>2 DEF ConsumesCapacity, ConsumesOn
  <2>4. Next3
    <3> SUFFICES ASSUME cycle' # Idle, IsPending(cycle'.obj), cycle'.obj = store'[cycle'.run]
                 PROVE  NeverAssigned(etcd', cycle'.run)
      OBVIOUS
    <3>1. ASSUME cycle' = cycle PROVE NeverAssigned(etcd', cycle'.run)
      <4>1. cycle.run # r
        <5> SUFFICES ASSUME cycle.run = r PROVE FALSE
          OBVIOUS
        <5>1. OlderThan(cycle.obj, store[r]) /\ cycle.obj = store'[r]
          BY <3>1 DEF Versions
        <5>2. cycle.obj.ver <= store[r].ver /\ cycle.obj.ver = Bump(o).ver
          BY <2>a, <5>1 DEF OlderThan
        <5> QED
          BY <2>a, <2>b, <5>2, SMT
      <4>2. cycle.run \in Runs /\ store'[cycle.run] = store[cycle.run]
        BY <1>b, <2>a, <3>1, <4>1
      <4>3. NeverAssigned(etcd, cycle.run) /\ InOrder(etcd, cycle.run, store[cycle.run])
        BY <3>1, <4>2 DEF Handoff, IsPending
      <4>4. NeverAssigned(etcd', cycle.run)
        BY <2>a, <4>1, <4>2, <4>3, SameBacklog
      <4> QED
        BY <3>1, <4>4
    <3>2. ASSUME cycle' = Hold(r, Bump(o)), Held(r), cycle.obj = store[r]
          PROVE  NeverAssigned(etcd', cycle'.run)
      <4>1. cycle'.run = r /\ cycle'.obj = Bump(o)
        BY <3>2 DEF Hold
      <4>2. IsPending(o)
        BY <2>b, <4>1 DEF IsPending
      <4>3. IsPending(store[r])
        <5>1. ~Ends(o, store[r]) /\ ~Places(r, o, store[r])
          BY <4>2, <2>a DEF Ends, Places, Assign, IsPending, Objects
        <5>2. cycle' # cycle
          BY <3>2, <4>1, <2>a, <2>b, SMT
        <5>3. Notes(o, store[r])
          BY <1>1, <5>1, <5>2 DEF Writes
        <5> QED
          BY <4>2, <5>3 DEF Notes, Shown, IsPending
      <4>4. cycle # Idle /\ cycle.run = r
        BY <3>2, SMT DEF Held, Idle
      <4>5. NeverAssigned(etcd, r)
        BY <3>2, <4>3, <4>4 DEF Handoff
      <4>6. Unassigned(Bump(o))
        BY <2>1, <2>a, <2>b, <4>2 DEF InOrder, Unassigned, IsPending
      <4>7. /\ \A i \in 1 .. Len(etcd') : i \in 1 .. Len(etcd) \/ i = Len(etcd')
            /\ \A i \in 1 .. Len(etcd) : etcd'[i] = etcd[i]
        <5>1. /\ Len(etcd') = Len(etcd) + 1 /\ Len(etcd) \in Nat
              /\ \A i \in 1 .. Len(etcd) : etcd'[i] = etcd[i]
          BY <2>a, PutFacts, StoreType
        <5> QED
          BY <5>1, SMT
      <4>8. etcd'[Len(etcd')][r] = Bump(o)
        BY <2>a DEF store
      <4>9. \A i \in 1 .. Len(etcd') : Unassigned(etcd'[i][r])
        BY <4>5, <4>6, <4>7, <4>8 DEF NeverAssigned
      <4> QED
        BY <4>1, <4>9 DEF NeverAssigned
    <3> QED
      BY <1>1, <3>1, <3>2 DEF Writes
  <2> QED
    BY <2>1, <2>2, <2>3, <2>4
<1>2. ASSUME Quiet
      PROVE  /\ \A x \in Runs : InOrder(etcd', x, store'[x]) /\ Kept(x)
             /\ Next3
  <2>a. store' = store
    BY <1>2, QuietOlder DEF Quiet
  <2>1. ASSUME NEW x \in Runs
        PROVE  /\ InOrder(etcd', x, store'[x])
               /\ NeverAssigned(etcd, x) => NeverAssigned(etcd', x)
               /\ ConsumesCapacity(store[x]) /\ ConsumesOn(cache[x], store[x].pod)
                    => ConsumesOn(cache'[x], store[x].pod)
    BY <1>2, <2>a, SameBacklog DEF Quiet, Handoff
  <2>2. \A x \in Runs : Kept(x)
    BY <2>a, <2>1
  <2>3. Next3
    <3> SUFFICES ASSUME cycle' # Idle, IsPending(cycle'.obj), cycle'.obj = store[cycle'.run]
                 PROVE  NeverAssigned(etcd, cycle'.run)
      BY <1>c, <2>a, <2>1
    <3>1. CASE cycle' = cycle
      BY <3>1 DEF Handoff, IsPending
    <3>2. ASSUME NEW r \in Runs, cycle' = Hold(r, cache[r]) PROVE NeverAssigned(etcd, cycle'.run)
      <4>1. cycle'.run = r /\ cycle'.obj = cache[r]
        BY <3>2 DEF Hold
      <4>2. cache = etcd[1] /\ \A i \in 1 .. Len(etcd) : 1 <= i /\ 1 \in 1 .. Len(etcd)
        <5>1. etcd \in Seq(Collections) /\ etcd # <<>>
          BY DEF TypeOK, Collections
        <5> QED
          BY <5>1, SMT DEF cache
      <4>3. etcd[1][r] = store[r] /\ IsPending(store[r])
        BY <4>1, <4>2 DEF IsPending
      <4>4. InOrder(etcd, r, store[r])
        BY DEF Handoff
      <4>5. \A i \in 1 .. Len(etcd) : etcd[i][r] = store[r]
        BY <4>2, <4>3, <4>4 DEF InOrder
      <4>6. store[r].pod = NoPod
        BY <4>3, <4>4 DEF InOrder
      <4> QED
        BY <4>1, <4>3, <4>5, <4>6 DEF NeverAssigned, Unassigned
    <3>3. ASSUME NEW r \in Runs, Reserve(r) PROVE NeverAssigned(etcd, cycle'.run)
      <4>1. PICK p \in Candidates(r) :
              cycle' = [step |-> "reserved", run |-> r, obj |-> cycle.obj, pod |-> p]
        BY <3>3 DEF Reserve
      <4>2. cycle'.run = r /\ cycle'.obj = cycle.obj
        BY <4>1
      <4>3. cycle # Idle /\ cycle.run = r
        BY <3>3, SMT DEF Reserve, Schedulable, Synced, Held, Idle
      <4> QED
        BY <4>2, <4>3 DEF Handoff, IsPending
    <3> QED
      BY <1>2, <3>1, <3>2, <3>3 DEF Quiet
  <2> QED
    BY <2>1, <2>2, <2>3
<1> HIDE DEF Kept, Next3
<1>3. (\A x \in Runs : InOrder(etcd', x, store'[x]) /\ Kept(x)) /\ Next3
  BY <1>1, <1>2, StepKinds
<1> QED
  BY <1>a, <1>3 DEF Handoff, Kept, Next3

\* The handoff from an assumption to the observed assignment is exact, whatever
\* the informer's lag and however other components write: an assignment loses
\* its accounting only by a new plan of the same Run, by its own bind or by a restart.
THEOREM AccountingHandedOver == Spec => ExactHandoff
<1> DEFINE A == \A r \in orphaned' \ orphaned :
                   \/ faults'.restarts > faults.restarts
                   \/ Held(r) /\ cycle'.step = "reserved"
                   \/ \E p \in Pods : Reserved(r, p) /\ cycle' = Idle
<1>1. Init /\ TypeOK => Handoff
  <2> SUFFICES ASSUME Init, TypeOK PROVE Handoff
    OBVIOUS
  <2>1. /\ Len(etcd) = 1 /\ etcd[1] = store /\ cycle = Idle
        /\ store = [r \in Runs |-> IF r \in env.fresh THEN NewRun ELSE KnownRun]
    BY DEF Init, store
  <2>2. \A r \in Runs : IsPending(store[r]) /\ store[r].pod = NoPod /\ ~ConsumesCapacity(store[r])
    <3>1. /\ IsPending(NewRun) /\ NewRun.pod = NoPod /\ ~ConsumesCapacity(NewRun)
          /\ IsPending(KnownRun) /\ KnownRun.pod = NoPod /\ ~ConsumesCapacity(KnownRun)
      BY SMT DEF ConsumesCapacity, IsPending, NewRun, KnownRun
    <3> QED
      BY <2>1, <3>1
  <2>3. \A i \in 1 .. Len(etcd) : i = 1
    BY <2>1, SMT
  <2> QED
    BY <2>1, <2>2, <2>3 DEF Handoff, InOrder
<1>2. TypeOK /\ TypeOK' /\ Versions /\ Versions' /\ Handoff /\ [Next]_vars => Handoff' /\ [A]_vars
  <2> SUFFICES ASSUME TypeOK, TypeOK', Versions, Versions', Handoff, [Next]_vars
               PROVE  Handoff' /\ [A]_vars
    OBVIOUS
  <2>1. CASE UNCHANGED vars
    <3>1. store' = store /\ cache' = cache
      BY <2>1 DEF vars, store, cache
    <3> QED
      BY <2>1, <3>1 DEF vars, Handoff, Accounted
  <2>2. ASSUME Step, TrackOrphans PROVE Handoff' /\ A
    <3>1. /\ Handoff'
          /\ \A x \in Runs : ConsumesCapacity(store'[x]) =>
                 \/ \E p \in Pods : Reserved(x, p) /\ cycle' = Idle
                 \/ /\ ConsumesCapacity(store[x]) /\ store'[x].pod = store[x].pod
                    /\ ConsumesOn(cache[x], store[x].pod) => ConsumesOn(cache'[x], store[x].pod)
      BY <2>2, HandoffStep
    <3>2. ASSUME NEW r \in Runs, ConsumesCapacity(store'[r]), r \notin orphaned, ~Accounted(r)',
                 ~\E p \in Pods : Reserved(r, p) /\ cycle' = Idle
          PROVE  \/ faults'.restarts > faults.restarts
                 \/ Held(r) /\ cycle'.step = "reserved"
      <4>1. /\ ConsumesCapacity(store[r]) /\ store'[r].pod = store[r].pod
            /\ ConsumesOn(cache[r], store[r].pod) => ConsumesOn(cache'[r], store[r].pod)
        BY <3>1, <3>2
      <4>2. ~ConsumesOn(cache[r], store[r].pod) /\ assumed'[r] # store[r].pod
        BY <3>2, <4>1 DEF Accounted, ConsumesOn, ConsumesCapacity
      <4>3. assumed[r] = store[r].pod
        BY <3>2, <4>1, <4>2 DEF Handoff, Accounted
      <4>4. Unassigned(cache[r])
        <5>1. cache = etcd[1] /\ 1 \in 1 .. Len(etcd)
          <6>1. etcd \in Seq(Collections) /\ etcd # <<>>
            BY DEF TypeOK, Collections
          <6> QED
            BY <6>1, SMT DEF cache
        <5> QED
          BY <4>1, <4>2, <5>1 DEF Handoff, InOrder
      <4> QED
        BY <2>2, <3>2, <4>2, <4>3, <4>4, AssumptionKept
    <3>3. \A r \in orphaned' \ orphaned : r \in Runs /\ ConsumesCapacity(store'[r]) /\ ~Accounted(r)'
      BY <2>2 DEF TrackOrphans
    <3> QED
      BY <3>1, <3>2, <3>3
  <2> QED
    BY <2>1, <2>2 DEF Next
<1> HIDE DEF A
<1>3. Spec => [][A]_vars
  BY <1>1, <1>2, VersionsOrdered, PTL DEF Spec
<1> QED
  BY <1>3 DEF ExactHandoff, A

------------------------------------------------------------------------------
(* Refinement: every write is a step of RunLifecycle or leaves its view of  *)
(* the Runs alone.                                                          *)

View(o) == [phase |-> Shown(o), pod |-> o.pod, attempt |-> o.attempt]

\* A status update changes what RunLifecycle sees of that Run, and of no other.
LEMMA StatusView ==
    ASSUME TypeOK, NEW r \in Runs, NEW o \in Objects, Put(r, o)
    PROVE  /\ Status' = [Status EXCEPT ![r] = View(o)]
           /\ Status[r] = View(store[r])
<1>1. store \in Collections /\ store' = [store EXCEPT ![r] = Bump(o)]
  BY StoreType, PutFacts
<1>2. store'[r] = Bump(o) /\ \A q \in Runs \ {r} : store'[q] = store[q]
  BY <1>1 DEF Collections
<1>3. Bump(o).phase = o.phase /\ Bump(o).pod = o.pod /\ Bump(o).attempt = o.attempt
  BY BumpType
<1>4. /\ Status = [q \in Runs |-> View(store[q])]
      /\ Status' = [q \in Runs |-> View(store'[q])]
  BY DEF Status, View, Shown
<1>5. View(Bump(o)) = View(o)
  BY <1>3 DEF View, Shown
<1>6. \A q \in Runs : View(store'[q]) = IF q = r THEN View(o) ELSE View(store[q])
  BY <1>2, <1>5
<1> QED
  BY <1>4, <1>6

\* Every step of the scheduler is a step of RunLifecycle or changes no status.
LEMMA LifecycleStep ==
    ASSUME TypeOK, Versions, [Next]_vars
    PROVE  Lifecycle!Next \/ UNCHANGED Status
<1>a. CASE UNCHANGED vars
  BY <1>a DEF vars, Status, store
<1> SUFFICES ASSUME Step PROVE Lifecycle!Next \/ UNCHANGED Status
  BY <1>a DEF Next
<1>1. ASSUME NEW r \in Runs, NEW o \in Objects, Writes(r, o)
      PROVE  Lifecycle!Next \/ UNCHANGED Status
  <2> DEFINE old == store[r]
  <2>1. Status' = [Status EXCEPT ![r] = View(o)] /\ Status[r] = View(old)
    BY <1>1, StatusView DEF Writes
  <2>a. Status[r].phase = Shown(old)
    BY <2>1, SMT DEF View
  <2>2. old \in Objects
    BY StoreType DEF Collections
  <2>3. CASE Notes(o, old)
    <3>1. View(o) = Status[r]
      BY <2>1, <2>3 DEF Notes, View, SamePlace
    <3>2. Status = [q \in Runs |-> Status[q]]
      BY DEF Status
    <3> QED
      BY <2>1, <3>1, <3>2
  <2>4. CASE Places(r, o, old)
    <3>1. PICK p \in Pods : o = Assign(old, p)
      BY <2>4 DEF Places
    <3>2. View(old).phase = "Pending"
      BY <2>4 DEF Places, View, Shown, IsPending
    <3>3. View(o) = [phase |-> "Scheduled", pod |-> p, attempt |-> View(old).attempt]
      BY <2>2, <3>1 DEF View, Shown, Assign, Objects
    <3>4. Lifecycle!Place(r)
      BY <2>1, <3>2, <3>3 DEF Lifecycle!Place, Lifecycle!Set
    <3> QED
      BY <3>4 DEF Lifecycle!Next
  <2>5. ASSUME SamePlace(o, old), o.phase # "" PROVE Lifecycle!Move(r, o.phase)
    <3>1. View(o) = [phase |-> o.phase, pod |-> View(old).pod, attempt |-> View(old).attempt]
      BY <2>5 DEF View, Shown, SamePlace
    <3> QED
      BY <2>1, <3>1 DEF Lifecycle!Move, Lifecycle!Set
  <2>6. CASE Ends(o, old)
    <3>1. Status[r].phase \in {"Pending", "Scheduled", "Running", "Finalizing"}
      BY <2>a, <2>6 DEF Ends, Shown
    <3>a. o.phase = "Terminal" /\ Lifecycle!Move(r, o.phase)
      BY <2>5, <2>6 DEF Ends
    <3>2. Lifecycle!Move(r, "Terminal")
      BY <3>a
    <3>3. Lifecycle!End(r)
      BY <3>1, <3>2 DEF Lifecycle!End, Lifecycle!Live
    <3> QED
      BY <3>3 DEF Lifecycle!Next
  <2>7. CASE Moves(o, old)
    <3>1. CASE old.phase = "Scheduled" /\ o.phase = "Running"
      <4>1. o.phase = "Running" /\ Lifecycle!Move(r, o.phase)
        BY <2>5, <2>7, <3>1 DEF Moves
      <4>2. Lifecycle!Move(r, "Running")
        BY <4>1
      <4>3. Status[r].phase = "Scheduled"
        BY <2>a, <3>1 DEF Shown
      <4> QED
        BY <4>2, <4>3 DEF Lifecycle!Claim, Lifecycle!Next
    <3>2. CASE old.phase = "Running" /\ o.phase = "Finalizing"
      <4>1. o.phase = "Finalizing" /\ Lifecycle!Move(r, o.phase)
        BY <2>5, <2>7, <3>2 DEF Moves
      <4>2. Lifecycle!Move(r, "Finalizing")
        BY <4>1
      <4>3. Status[r].phase = "Running"
        BY <2>a, <3>2 DEF Shown
      <4> QED
        BY <4>2, <4>3 DEF Lifecycle!Finalize, Lifecycle!Next
    <3>3. CASE old.phase # "Deleted" /\ o.phase = "Deleted"
      <4>1. o.phase = "Deleted" /\ Lifecycle!Move(r, o.phase)
        BY <2>5, <2>7, <3>3 DEF Moves
      <4>2. Lifecycle!Move(r, "Deleted")
        BY <4>1
      <4>3. Status[r].phase # "Deleted"
        BY <2>a, <3>3 DEF Shown
      <4> QED
        BY <4>2, <4>3 DEF Lifecycle!Delete, Lifecycle!Next
    <3> QED
      BY <2>7, <3>1, <3>2, <3>3 DEF Moves
  <2>8. CASE Resets(o, old)
    <3>1. View(o) = [phase |-> "Pending", pod |-> NoPod, attempt |-> View(old).attempt + 1]
      BY <2>8 DEF Resets, View, Shown
    <3>2. View(old).phase \in {"Running", "Finalizing"} /\ View(old).attempt < MaxAttempts
      BY <2>8 DEF Resets, View, Shown
    <3>3. Lifecycle!Reset(r)
      BY <2>1, <3>1, <3>2 DEF Lifecycle!Reset, Lifecycle!Set
    <3> QED
      BY <3>3 DEF Lifecycle!Next
  <2> QED
    BY <1>1, <2>3, <2>4, <2>6, <2>7, <2>8 DEF Writes
<1>2. CASE Quiet
  <2>1. store' = store
    BY <1>2, QuietOlder DEF Quiet
  <2> QED
    BY <2>1 DEF Status
<1> QED
  BY <1>1, <1>2, StepKinds

\* The scheduler among the other writers implements the life of a Run, for any
\* Runs and Pods: whatever it read stale, its writes are lifecycle steps.
THEOREM LifecycleImplemented == Spec => ImplementsLifecycle
<1>1. Init => Lifecycle!Init
  <2> SUFFICES ASSUME Init PROVE Lifecycle!Init
    OBVIOUS
  <2>1. store = [r \in Runs |-> IF r \in env.fresh THEN NewRun ELSE KnownRun]
    BY DEF Init, store
  <2>2. \A r \in Runs : /\ store[r].pod = NoPod /\ store[r].attempt = 1
                        /\ store[r].phase \in {"", "Pending"}
    BY <2>1 DEF NewRun, KnownRun
  <2> QED
    BY <2>2 DEF Lifecycle!Init, Status
<1>2. TypeOK /\ Versions /\ [Next]_vars => [Lifecycle!Next]_Status
  BY LifecycleStep
<1> QED
  BY <1>1, <1>2, VersionsOrdered, PTL DEF Spec, ImplementsLifecycle, Lifecycle!Spec
==============================================================================
