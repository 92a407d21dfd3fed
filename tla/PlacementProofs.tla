--------------------------- MODULE PlacementProofs ---------------------------
(***************************************************************************)
(* Required affinity and anti-affinity hold among the persisted            *)
(* assignments, for every set of Runs, Pods, labels and terms. Both        *)
(* theorems rest on one argument: At(r), where the planner's snapshot has  *)
(* r, is where r really is, and no step but a Bind gives a Run a new one.  *)
(***************************************************************************)
EXTENDS Placement, SequenceTheorems, TLAPS

\* Where a leaf names no prover it is Zenon's.
USE Zenon

\* What appending a state does to a Run's life.
LEMMA AppendFacts ==
    ASSUME NEW q \in Seq(Objects), q # <<>>, NEW o \in Objects
    PROVE  /\ Append(q, o) \in Seq(Objects) /\ Append(q, o) # <<>>
           /\ Len(Append(q, o)) = Len(q) + 1 /\ Len(q) \in Nat \ {0}
           /\ \A i \in 1 .. Len(q) : Append(q, o)[i] = q[i]
           /\ Append(q, o)[Len(q) + 1] = o
           /\ Head(q) = q[1] /\ Head(Append(q, o)) = q[1]
  BY SMT

\* What the informer's next delivery does to a Run's life.
LEMMA TailFacts ==
    ASSUME NEW q \in Seq(Objects), q # <<>>, Len(q) # 1
    PROVE  /\ Tail(q) \in Seq(Objects) /\ Tail(q) # <<>>
           /\ Len(Tail(q)) = Len(q) - 1 /\ Len(q) \in Nat \ {0, 1}
           /\ \A i \in 1 .. Len(q) - 1 : Tail(q)[i] = q[i + 1]
           /\ Head(q) = q[1] /\ Head(Tail(q)) = q[2] /\ q[2] \in Objects
<1>1. Len(q) \in Nat \ {0, 1}
  BY EmptySeq
<1>2. /\ Tail(q) \in Seq(Objects) /\ Len(Tail(q)) = Len(q) - 1
      /\ Head(q) = q[1] /\ \A i \in 1 .. Len(q) - 1 : Tail(q)[i] = q[i + 1]
  BY <1>1, SMT
<1>3. Tail(q) # <<>>
  <2>1. Len(Tail(q)) # 0
    BY <1>1, <1>2, SMT
  <2> QED
    BY <2>1, EmptySeq
<1>4. q[2] \in Objects
  <2>0. \A n \in Nat \ {0, 1} : 2 \in 1 .. n
    BY SMT
  <2>1. 2 \in 1 .. Len(q)
    BY <1>1, <2>0
  <2> QED
    BY <2>1, ElementOfSeq
<1>5. Tail(q)[1] = q[2]
  BY <1>1, <1>2, SMT
<1>6. Head(Tail(q)) = Tail(q)[1]
  BY <1>2, <1>3, SMT
<1> QED
  BY <1>1, <1>2, <1>3, <1>4, <1>5, <1>6

\* The last state of a Run's life, the persisted one, is a state.
LEMMA StoreFacts ==
    ASSUME TypeOK, NEW r \in Runs
    PROVE  /\ hist[r] \in Seq(Objects) /\ hist[r] # <<>> /\ Len(hist[r]) \in Nat \ {0}
           /\ store(r) \in Objects /\ cache(r) \in Objects /\ cache(r) = hist[r][1]
<1>1. hist[r] \in Seq(Objects) /\ hist[r] # <<>>
  BY DEF TypeOK
<1>2. Len(hist[r]) \in Nat \ {0}
  BY <1>1, SMT
<1> QED
  BY <1>1, <1>2, SMT DEF store, cache

\* A step of the other components appends one state that is not Active.
LEMMA OthersStep ==
    ASSUME TypeOK, NEW r \in Runs, Others(r)
    PROVE  \E o \in Objects : /\ ~consumesRuntimeCapacity(o)
                              /\ hist' = [hist EXCEPT ![r] = Append(@, o)]
                              /\ UNCHANGED <<env, assumed, available, queue, events>>
<1> DEFINE Adds(o) == /\ hist' = [hist EXCEPT ![r] = Append(@, o)]
                      /\ UNCHANGED <<env, assumed, available, queue, events>>
<1>0. store(r) \in Objects
  BY StoreFacts
<1>1. CASE Submit(r)
  <2> DEFINE o == [store(r) EXCEPT !.phase = "Pending"]
  <2>1. o \in Objects /\ ~consumesRuntimeCapacity(o)
    BY <1>0 DEF Objects, consumesRuntimeCapacity
  <2>2. Adds(o)
    BY <1>1 DEF Submit, Elsewhere
  <2> QED
    BY <2>1, <2>2
<1>2. CASE Finish(r)
  <2> DEFINE o == [store(r) EXCEPT !.phase = "Done"]
  <2>1. o \in Objects /\ ~consumesRuntimeCapacity(o)
    BY <1>0 DEF Objects, consumesRuntimeCapacity
  <2>2. Adds(o)
    BY <1>2 DEF Finish, Elsewhere
  <2> QED
    BY <2>1, <2>2
<1>3. CASE ResetForRetry(r)
  <2> DEFINE o == [phase |-> "Pending", pod |-> NoPod, attempt |-> store(r).attempt + 1]
  <2>1. o \in Objects /\ ~consumesRuntimeCapacity(o)
    BY <1>0, <1>3, PlacementAssumption, SMT DEF ResetForRetry, Objects, consumesRuntimeCapacity
  <2>2. Adds(o)
    BY <1>3 DEF ResetForRetry, Elsewhere
  <2> QED
    BY <2>1, <2>2
<1>4. CASE Delete(r)
  <2> DEFINE o == [store(r) EXCEPT !.phase = "Gone"]
  <2>1. o \in Objects /\ ~consumesRuntimeCapacity(o)
    BY <1>0 DEF Objects, consumesRuntimeCapacity
  <2>2. Adds(o)
    BY <1>4 DEF Delete, Elsewhere
  <2> QED
    BY <2>1, <2>2
<1> QED
  BY <1>1, <1>2, <1>3, <1>4 DEF Others

\* A Bind appends the assignment to a feasible Pod.
LEMMA BindStep ==
    ASSUME TypeOK, NEW r \in Runs, Bind(r)
    PROVE  \E p \in Candidates(r) :
             /\ Assigned(cache(r), p) \in Objects /\ p \in Pods
             /\ hist' = [hist EXCEPT ![r] = Append(@, Assigned(cache(r), p))]
             /\ assumed' = [SyncAssumed EXCEPT ![r] = p]
<1>1. PICK p \in Candidates(r) :
        /\ assumed' = [SyncAssumed EXCEPT ![r] = p]
        /\ hist' = [hist EXCEPT ![r] = Append(@, Assigned(cache(r), p))]
  BY DEF Bind
<1>2. p \in Pods
  BY DEF Candidates, TypeOK
<1>3. Assigned(cache(r), p) \in Objects
  <2>1. cache(r) \in Objects
    BY StoreFacts
  <2> QED
    BY <1>2, <2>1 DEF Assigned, Objects
<1> QED
  BY <1>1, <1>2, <1>3

\* Retiring reservations keeps them reservations.
LEMMA SyncType ==
    ASSUME TypeOK
    PROVE  SyncAssumed \in [Runs -> Pods \cup {NoPod}]
  BY DEF TypeOK, SyncAssumed

\* The scheduler starts with Runs that wait or are yet to be created.
LEMMA TypeInit ==
    ASSUME Init
    PROVE  TypeOK
<1>1. \A r \in Runs : hist[r] \in Seq(Objects) /\ hist[r] # <<>>
  BY PlacementAssumption, SMT DEF Init, Objects
<1>2. hist \in [Runs -> Seq(Objects)]
  BY <1>1 DEF Init
<1> QED
  BY <1>1, <1>2 DEF Init, TypeOK

\* Every cycle, event and foreign write keeps the shape of the scheduler's
\* state; in particular no Run exceeds its retry budget.
THEOREM TypeCorrect == Spec => []TypeOK
<1>1. Init => TypeOK
  BY TypeInit
<1>2. TypeOK /\ [Next]_vars => TypeOK'
  <2> SUFFICES ASSUME TypeOK, [Next]_vars PROVE TypeOK'
    OBVIOUS
  <2>0. CASE UNCHANGED vars
    BY <2>0 DEF vars, TypeOK
  <2>1. CASE Next
    <3>1. strayed' \subseteq Runs
      BY <2>1 DEF Next, TrackStrayed, TypeOK
    <3>2. ASSUME NEW r \in Runs, Skip(r) \/ Backoff(r) \/ Wait(r) \/ BindRefused(r) \/ Timer(r)
          PROVE  TypeOK'
      <4>1. CASE Skip(r)
        BY <3>1, <4>1 DEF Skip, Cycle, TypeOK
      <4>2. CASE Backoff(r)
        BY <3>1, <4>2 DEF Backoff, Cycle, TypeOK
      <4>3. CASE Wait(r)
        <5>1. hist' = hist \/ hist' = [hist EXCEPT ![r] = Append(@, cache(r))]
          BY <4>3 DEF Wait
        <5>2. /\ Append(hist[r], cache(r)) \in Seq(Objects) /\ Append(hist[r], cache(r)) # <<>>
          BY StoreFacts, AppendFacts
        <5>3. hist' \in [Runs -> Seq(Objects)] /\ \A s \in Runs : hist'[s] # <<>>
          BY <5>1, <5>2 DEF TypeOK
        <5> QED
          BY <3>1, <4>3, <5>3, SyncType DEF Wait, Cycle, TypeOK
      <4>4. CASE BindRefused(r)
        <5>1. events' \in [pods : Nat, errors : Nat]
          BY <4>4, SMT DEF BindRefused, TypeOK
        <5> QED
          BY <3>1, <4>4, <5>1, SyncType DEF BindRefused, Cycle, TypeOK
      <4>5. CASE Timer(r)
        BY <3>1, <4>5 DEF Timer, TypeOK
      <4> QED
        BY <3>2, <4>1, <4>2, <4>3, <4>4, <4>5
    <3>3. ASSUME NEW r \in Runs, Bind(r)
          PROVE  TypeOK'
      <4>1. PICK p \in Candidates(r) :
              /\ Assigned(cache(r), p) \in Objects /\ p \in Pods
              /\ hist' = [hist EXCEPT ![r] = Append(@, Assigned(cache(r), p))]
              /\ assumed' = [SyncAssumed EXCEPT ![r] = p]
        BY <3>3, BindStep
      <4>2. /\ Append(hist[r], Assigned(cache(r), p)) \in Seq(Objects)
            /\ Append(hist[r], Assigned(cache(r), p)) # <<>>
        BY <4>1, StoreFacts, AppendFacts
      <4> QED
        BY <3>1, <3>3, <4>1, <4>2, SyncType DEF Bind, Cycle, TypeOK
    <3>4. ASSUME NEW r \in Runs, Observe(r)
          PROVE  TypeOK'
      <4>1. Tail(hist[r]) \in Seq(Objects) /\ Tail(hist[r]) # <<>>
        BY <3>4, StoreFacts, TailFacts DEF Observe, Caught
      <4>2. queue' \subseteq Runs
        BY <3>4 DEF Observe, PendingRuns, TypeOK
      <4> QED
        BY <3>1, <3>4, <4>1, <4>2 DEF Observe, TypeOK
    <3>5. ASSUME NEW r \in Runs, Others(r)
          PROVE  TypeOK'
      <4>1. PICK o \in Objects : /\ hist' = [hist EXCEPT ![r] = Append(@, o)]
                                 /\ UNCHANGED <<env, assumed, available, queue, events>>
        BY <3>5, OthersStep
      <4>2. Append(hist[r], o) \in Seq(Objects) /\ Append(hist[r], o) # <<>>
        BY <4>1, StoreFacts, AppendFacts
      <4> QED
        BY <3>1, <4>1, <4>2 DEF TypeOK
    <3>6. ASSUME NEW p \in Pods, PodEvent(p)
          PROVE  TypeOK'
      BY <3>1, <3>6, SMT DEF PodEvent, PendingRuns, TypeOK
    <3> QED
      BY <2>1, <3>2, <3>3, <3>4, <3>5, <3>6 DEF Next, Step, Reconcile
  <2> QED
    BY <2>0, <2>1
<1> QED
  BY <1>1, <1>2, PTL DEF Spec

------------------------------------------------------------------------------
(* The inductive invariant.                                                 *)

\* An assignment the informer has yet to show is the next thing it shows, to a
\* cache that has the Run Pending: a Bind needs a current version.
NextToShow ==
    \A r \in Runs : \A i \in 2 .. Len(hist[r]) :
        consumesRuntimeCapacity(hist[r][i]) => i = 2 /\ IsPending(hist[r][1])

\* Active states name a Pod.
OnAPod == \A r \in Runs : \A i \in 1 .. Len(hist[r]) :
              consumesRuntimeCapacity(hist[r][i]) => hist[r][i].pod # NoPod

\* Runs that have not strayed have a reservation exactly while one is owed.
Reserved == \A r \in Runs \ strayed : Accounted(r) /\ ~Ghost(r)

\* The snapshot has the members of a self-selecting cohort on one Pod.
SeenTogether ==
    strayed = {} =>
        \A l \in Labels : PureLabel(l) =>
            \A r, s \in Cohort(l) : At(r) # NoPod /\ At(s) # NoPod => At(r) = At(s)

\* The snapshot has Runs that repel each other apart.
SeenApart ==
    \A r, s \in Runs \ strayed : Repel(r, s) /\ At(r) # NoPod => At(r) # At(s)

IInv == TypeOK /\ NextToShow /\ OnAPod /\ Reserved /\ SeenTogether /\ SeenApart

\* The planner's snapshot has every Run that has not strayed where its
\* persisted assignment puts it.
LEMMA SnapshotSound ==
    ASSUME IInv, NEW r \in Runs \ strayed, consumesRuntimeCapacity(store(r))
    PROVE  At(r) = store(r).pod /\ At(r) # NoPod
<1>0. /\ Len(hist[r]) \in Nat \ {0} /\ cache(r) = hist[r][1]
      /\ store(r) = hist[r][Len(hist[r])]
  BY StoreFacts DEF IInv, store
<1>1. store(r).pod # NoPod
  BY <1>0, SMT DEF IInv, OnAPod
<1>2. CASE Len(hist[r]) = 1
  BY <1>0, <1>1, <1>2 DEF At
<1>3. CASE Len(hist[r]) # 1
  <2>0. \A n \in Nat \ {0} : n # 1 => n \in 2 .. n
    BY SMT
  <2>1. Len(hist[r]) \in 2 .. Len(hist[r])
    BY <1>0, <1>3, <2>0
  <2>2. IsPending(cache(r)) /\ assumed[r] = store(r).pod
    BY <1>0, <2>1 DEF IInv, NextToShow, Reserved, Accounted
  <2>3. At(r) = assumed[r]
    BY <2>2 DEF At, SyncAssumed, IsPending, consumesRuntimeCapacity
  <2> QED
    BY <1>1, <2>2, <2>3
<1> QED
  BY <1>2, <1>3

\* An append leaves what the informer shows alone.
LEMMA AppendStep ==
    ASSUME TypeOK, NEW r \in Runs, NEW o \in Objects,
           hist' = [hist EXCEPT ![r] = Append(@, o)]
    PROVE  /\ \A s \in Runs : cache(s)' = cache(s)
           /\ \A s \in Runs \ {r} : hist'[s] = hist[s]
           /\ Len(hist[r]) \in Nat \ {0} /\ Len(hist'[r]) = Len(hist[r]) + 1
           /\ \A i \in 1 .. Len(hist[r]) : hist'[r][i] = hist[r][i]
           /\ hist'[r][Len(hist[r]) + 1] = o
<1>1. hist'[r] = Append(hist[r], o) /\ \A s \in Runs \ {r} : hist'[s] = hist[s]
  BY DEF TypeOK
<1>2. hist[r] \in Seq(Objects) /\ hist[r] # <<>>
  BY DEF TypeOK
<1>3. /\ Len(Append(hist[r], o)) = Len(hist[r]) + 1 /\ Len(hist[r]) \in Nat \ {0}
      /\ \A i \in 1 .. Len(hist[r]) : Append(hist[r], o)[i] = hist[r][i]
      /\ Append(hist[r], o)[Len(hist[r]) + 1] = o
      /\ Head(hist[r]) = hist[r][1] /\ Head(Append(hist[r], o)) = hist[r][1]
  BY <1>2, AppendFacts
<1>4. \A s \in Runs : cache(s)' = cache(s)
  BY <1>1, <1>3 DEF cache
<1> QED
  BY <1>1, <1>3, <1>4

\* A delivery moves the cache of r to its next state.
LEMMA ObserveStep ==
    ASSUME TypeOK, NEW r \in Runs, Observe(r)
    PROVE  /\ \A s \in Runs \ {r} : hist'[s] = hist[s] /\ cache(s)' = cache(s)
           /\ Len(hist[r]) \in Nat \ {0, 1} /\ Len(hist'[r]) = Len(hist[r]) - 1
           /\ \A i \in 1 .. Len(hist[r]) - 1 : hist'[r][i] = hist[r][i + 1]
           /\ cache(r) = hist[r][1] /\ cache(r)' = hist[r][2]
           /\ assumed' = assumed
<1>1. hist'[r] = Tail(hist[r]) /\ \A s \in Runs \ {r} : hist'[s] = hist[s]
  BY DEF TypeOK, Observe
<1>2. hist[r] \in Seq(Objects) /\ hist[r] # <<>> /\ Len(hist[r]) # 1
  BY DEF TypeOK, Observe, Caught
<1>3. /\ Len(Tail(hist[r])) = Len(hist[r]) - 1 /\ Len(hist[r]) \in Nat \ {0, 1}
      /\ \A i \in 1 .. Len(hist[r]) - 1 : Tail(hist[r])[i] = hist[r][i + 1]
      /\ Head(hist[r]) = hist[r][1] /\ Head(Tail(hist[r])) = hist[r][2]
  BY <1>2, TailFacts
<1> QED
  BY <1>1, <1>3 DEF cache, Observe

\* After a delivery the informer owes no assignment of r.
LEMMA ObserveShape ==
    ASSUME TypeOK, NextToShow, OnAPod, NEW r \in Runs, Observe(r)
    PROVE  /\ \A i \in 2 .. Len(hist'[r]) : ~consumesRuntimeCapacity(hist'[r][i])
           /\ \A i \in 1 .. Len(hist'[r]) :
                  consumesRuntimeCapacity(hist'[r][i]) => hist'[r][i].pod # NoPod
<1>1. \A n \in Nat \ {0, 1} : \A i \in 1 .. n - 1 :
        i + 1 \in 2 .. n /\ i + 1 \in 1 .. n /\ (i \in 2 .. n - 1 => i + 1 # 2)
  BY SMT
<1>2. \A n \in Nat \ {0, 1} : \A i \in 2 .. n - 1 : i \in 1 .. n - 1
  BY SMT
<1>3. /\ Len(hist[r]) \in Nat \ {0, 1} /\ Len(hist'[r]) = Len(hist[r]) - 1
      /\ \A i \in 1 .. Len(hist[r]) - 1 : hist'[r][i] = hist[r][i + 1]
  BY ObserveStep
<1>4. ASSUME NEW i \in 2 .. Len(hist'[r]), consumesRuntimeCapacity(hist'[r][i])
      PROVE  FALSE
  <2>1. i \in 2 .. Len(hist[r]) - 1
    BY <1>3
  <2>2. i \in 1 .. Len(hist[r]) - 1
    BY <1>2, <1>3, <2>1
  <2>3. i + 1 \in 2 .. Len(hist[r]) /\ i + 1 # 2
    BY <1>1, <1>3, <2>1, <2>2
  <2>4. consumesRuntimeCapacity(hist[r][i + 1])
    BY <1>3, <1>4, <2>2
  <2> QED
    BY <2>3, <2>4 DEF NextToShow
<1>5. ASSUME NEW i \in 1 .. Len(hist'[r]), consumesRuntimeCapacity(hist'[r][i])
      PROVE  hist'[r][i].pod # NoPod
  <2>1. i \in 1 .. Len(hist[r]) - 1
    BY <1>3
  <2>2. i + 1 \in 1 .. Len(hist[r])
    BY <1>1, <1>3, <2>1
  <2>3. hist'[r][i] = hist[r][i + 1]
    BY <1>3, <2>1
  <2> QED
    BY <1>5, <2>2, <2>3 DEF OnAPod
<1> QED
  BY <1>4, <1>5

\* The unobserved assignments stay next to show, and on a Pod.
LEMMA ShapeStep ==
    ASSUME IInv, [Next]_vars
    PROVE  NextToShow' /\ OnAPod'
<1> USE DEF IInv
<1>1. ASSUME UNCHANGED hist
      PROVE  NextToShow' /\ OnAPod'
  BY <1>1 DEF NextToShow, OnAPod
<1>2. ASSUME NEW r \in Runs, NEW o \in Objects, ~consumesRuntimeCapacity(o),
             hist' = [hist EXCEPT ![r] = Append(@, o)]
      PROVE  NextToShow' /\ OnAPod'
  BY <1>2, AppendStep, SMT DEF NextToShow, OnAPod
<1>3. ASSUME NEW r \in Runs, Bind(r)
      PROVE  NextToShow' /\ OnAPod'
  <2>1. PICK p \in Candidates(r) :
          /\ Assigned(cache(r), p) \in Objects /\ p \in Pods
          /\ hist' = [hist EXCEPT ![r] = Append(@, Assigned(cache(r), p))]
    BY <1>3, BindStep
  <2>2. Len(hist[r]) = 1 /\ IsPending(hist[r][1])
    BY <1>3, StoreFacts DEF Bind, Caught
  <2>3. Assigned(cache(r), p).pod # NoPod
    BY <2>1, StoreFacts, PlacementAssumption DEF Assigned, Objects
  <2> QED
    BY <2>1, <2>2, <2>3, AppendStep, SMT DEF NextToShow, OnAPod
<1>4. ASSUME NEW r \in Runs, Observe(r)
      PROVE  NextToShow' /\ OnAPod'
  <2>1. NextToShow'
    BY <1>4, ObserveStep, ObserveShape, SMT DEF NextToShow
  <2>2. OnAPod'
    <3>1. ASSUME NEW s \in Runs \ {r}
          PROVE  \A i \in 1 .. Len(hist'[s]) :
                    consumesRuntimeCapacity(hist'[s][i]) => hist'[s][i].pod # NoPod
      <4>1. hist'[s] = hist[s]
        BY <1>4, ObserveStep
      <4> QED
        BY <4>1 DEF OnAPod
    <3> QED
      BY <1>4, <3>1, ObserveShape DEF OnAPod
  <2> QED
    BY <2>1, <2>2
<1>5. ASSUME NEW r \in Runs, Others(r)
      PROVE  NextToShow' /\ OnAPod'
  BY <1>5, <1>2, OthersStep
<1>6. ASSUME NEW r \in Runs, Skip(r) \/ Backoff(r) \/ Wait(r) \/ BindRefused(r) \/ Timer(r)
      PROVE  NextToShow' /\ OnAPod'
  <2>1. CASE UNCHANGED hist
    BY <1>1, <2>1
  <2>2. CASE IsPending(cache(r)) /\ hist' = [hist EXCEPT ![r] = Append(@, cache(r))]
    <3>1. cache(r) \in Objects /\ ~consumesRuntimeCapacity(cache(r))
      BY <2>2, StoreFacts DEF IsPending, consumesRuntimeCapacity
    <3> QED
      BY <1>2, <2>2, <3>1
  <2> QED
    BY <1>6, <2>1, <2>2 DEF Skip, Backoff, Wait, BindRefused, Timer
<1>7. ASSUME NEW p \in Pods, PodEvent(p)
      PROVE  UNCHANGED hist
  BY <1>7 DEF PodEvent
<1> QED
  BY <1>1, <1>3, <1>4, <1>5, <1>6, <1>7 DEF Next, Step, Reconcile, vars

\* Where the snapshot has s, spelled out.
LEMMA AtFacts ==
    ASSUME NEW s \in Runs
    PROVE  /\ IsPending(cache(s)) => At(s) = assumed[s]
           /\ consumesRuntimeCapacity(cache(s)) => At(s) = cache(s).pod
           /\ ~IsPending(cache(s)) /\ ~consumesRuntimeCapacity(cache(s)) => At(s) = NoPod
           /\ IsPending(cache(s))' => At(s)' = assumed'[s]
           /\ consumesRuntimeCapacity(cache(s))' => At(s)' = cache(s)'.pod
           /\ ~IsPending(cache(s))' /\ ~consumesRuntimeCapacity(cache(s))' => At(s)' = NoPod
  BY DEF At, SyncAssumed, IsPending, consumesRuntimeCapacity

\* Deliveries move no Run that has not strayed to another Pod.
LEMMA ObserveView ==
    ASSUME IInv, Reserved', NEW r \in Runs, Observe(r), NEW s \in Runs \ strayed',
           strayed \subseteq strayed'
    PROVE  At(s)' \in {At(s), NoPod}
<1> USE DEF IInv
<1>1. CASE s # r
  <2>1. cache(s)' = cache(s) /\ assumed'[s] = assumed[s]
    BY <1>1, ObserveStep, SMT
  <2> QED
    BY <2>1 DEF At, SyncAssumed
<1>2. CASE s = r
  <2>1. /\ cache(r) = hist[r][1] /\ cache(r)' = hist[r][2] /\ assumed' = assumed
        /\ Len(hist[r]) \in Nat \ {0, 1} /\ Len(hist'[r]) = Len(hist[r]) - 1
        /\ \A i \in 1 .. Len(hist[r]) - 1 : hist'[r][i] = hist[r][i + 1]
    BY ObserveStep
  <2>2. 2 \in 2 .. Len(hist[r])
    <3>1. \A n \in Nat \ {0, 1} : 2 \in 2 .. n
      BY SMT
    <3> QED
      BY <2>1, <3>1
  <2>3. CASE consumesRuntimeCapacity(hist[r][2])
    <3>1. IsPending(cache(r)) /\ assumed[r] = hist[r][2].pod
      BY <1>2, <2>1, <2>2, <2>3 DEF NextToShow, Reserved, Accounted
    <3> QED
      BY <1>2, <2>1, <2>3, <3>1, AtFacts, SMT
  <2>4. CASE IsPending(hist[r][2])
    <3>1. \A i \in 2 .. Len(hist'[r]) : ~consumesRuntimeCapacity(hist'[r][i])
      BY ObserveShape
    <3>2. ~Owed(r)'
      BY <3>1 DEF Owed
    <3>3. assumed'[r] = NoPod
      BY <1>2, <2>1, <2>4, <3>2 DEF Reserved, Ghost
    <3> QED
      BY <1>2, <2>1, <2>4, <3>3, AtFacts
  <2>5. CASE ~consumesRuntimeCapacity(hist[r][2]) /\ ~IsPending(hist[r][2])
    BY <1>2, <2>1, <2>5, AtFacts
  <2> QED
    BY <2>3, <2>4, <2>5
<1> QED
  BY <1>1, <1>2

\* What a step does to the snapshot: it may drop Runs that have not strayed,
\* and a Bind adds one to a candidate of its Run.
Dropping == \A s \in Runs \ strayed' : At(s)' \in {At(s), NoPod}
Placing == \E r \in Runs : /\ At(r)' \in Candidates(r)
                          /\ \A s \in Runs \ {r} : At(s)' = At(s)

LEMMA ViewStep ==
    ASSUME IInv, Reserved', [Next]_vars
    PROVE  env' = env /\ strayed \subseteq strayed' /\ (Dropping \/ Placing)
<1> USE DEF IInv
<1>0. CASE UNCHANGED vars
  BY <1>0 DEF vars, Dropping, At, SyncAssumed, cache
<1>1. CASE Next
  <2>1. strayed \subseteq strayed'
    BY <1>1 DEF Next, TrackStrayed
  <2>2. ASSUME NEW r \in Runs, Skip(r) \/ Backoff(r) \/ Wait(r) \/ BindRefused(r) \/ Timer(r)
        PROVE  env' = env /\ Dropping
    <3>0. env' = env /\ (hist' = hist \/ hist' = [hist EXCEPT ![r] = Append(@, cache(r))])
      BY <2>2 DEF Skip, Backoff, Wait, BindRefused, Timer, Cycle
    <3>1. env' = env /\ \A s \in Runs : cache(s)' = cache(s)
      <4>1. CASE hist' = hist
        BY <3>0, <4>1 DEF cache
      <4>2. CASE hist' = [hist EXCEPT ![r] = Append(@, cache(r))]
        <5>1. cache(r) \in Objects
          BY StoreFacts
        <5> QED
          BY <3>0, <4>2, <5>1, AppendStep
      <4> QED
        BY <3>0, <4>1, <4>2
    <3>2. \A s \in Runs : IsPending(cache(s)) => assumed'[s] \in {assumed[s], NoPod}
      BY <2>2 DEF Skip, Backoff, Wait, BindRefused, Timer, SyncAssumed, TypeOK
    <3> QED
      BY <3>1, <3>2, AtFacts DEF Dropping, At, SyncAssumed
  <2>3. ASSUME NEW r \in Runs, Bind(r)
        PROVE  env' = env /\ Placing
    <3>1. PICK p \in Candidates(r) :
            /\ Assigned(cache(r), p) \in Objects /\ p \in Pods
            /\ hist' = [hist EXCEPT ![r] = Append(@, Assigned(cache(r), p))]
            /\ assumed' = [SyncAssumed EXCEPT ![r] = p]
      BY <2>3, BindStep
    <3>2. \A s \in Runs : cache(s)' = cache(s)
      BY <3>1, AppendStep
    <3>3. \A s \in Runs : assumed'[s] = IF s = r THEN p ELSE SyncAssumed[s]
      BY <3>1 DEF SyncAssumed
    <3>4. At(r)' = p
      BY <2>3, <3>2, <3>3, AtFacts DEF Bind
    <3>5. \A s \in Runs \ {r} : At(s)' = At(s)
      BY <3>2, <3>3 DEF At, SyncAssumed
    <3> QED
      BY <2>3, <3>1, <3>4, <3>5 DEF Placing, Bind, Cycle
  <2>4. ASSUME NEW r \in Runs, Observe(r)
        PROVE  env' = env /\ Dropping
    BY <2>1, <2>4, ObserveView DEF Dropping, Observe
  <2>5. ASSUME NEW r \in Runs, Others(r)
        PROVE  env' = env /\ Dropping
    <3>1. PICK o \in Objects : /\ hist' = [hist EXCEPT ![r] = Append(@, o)]
                               /\ UNCHANGED <<env, assumed, available, queue, events>>
      BY <2>5, OthersStep
    <3>2. \A s \in Runs : cache(s)' = cache(s)
      BY <3>1, AppendStep
    <3> QED
      BY <3>1, <3>2 DEF Dropping, At, SyncAssumed
  <2>6. ASSUME NEW p \in Pods, PodEvent(p)
        PROVE  env' = env /\ Dropping
    BY <2>6 DEF PodEvent, Dropping, At, SyncAssumed, cache
  <2> QED
    BY <1>1, <2>1, <2>2, <2>3, <2>4, <2>5, <2>6 DEF Next, Step, Reconcile
<1> QED
  BY <1>0, <1>1

\* A cohort the snapshot has together stays together: a member is placed with
\* the others, or where none is.
LEMMA TogetherStep ==
    ASSUME IInv, env' = env, strayed \subseteq strayed', Dropping \/ Placing
    PROVE  SeenTogether'
<1> SUFFICES ASSUME strayed' = {}, NEW l \in Labels, PureLabel(l), NEW r \in Cohort(l),
                    NEW s \in Cohort(l), At(r)' # NoPod, At(s)' # NoPod
             PROVE  At(r)' = At(s)'
  BY DEF SeenTogether, PureLabel, Cohort
<1>0. r \in Runs /\ s \in Runs /\ strayed = {}
  BY DEF Cohort
<1>1. \A x, y \in Cohort(l) : At(x) # NoPod /\ At(y) # NoPod => At(x) = At(y)
  BY <1>0 DEF IInv, SeenTogether
<1>2. CASE Dropping
  BY <1>0, <1>1, <1>2 DEF Dropping
<1>3. CASE Placing
  <2>1. PICK t \in Runs : At(t)' \in Candidates(t) /\ \A x \in Runs \ {t} : At(x)' = At(x)
    BY <1>3 DEF Placing
  <2>2. ASSUME t \in Cohort(l), NEW x \in Cohort(l), x # t, At(x)' # NoPod
        PROVE  At(t)' = At(x)'
    <3>1. At(x)' = At(x)
      BY <2>1, <2>2 DEF Cohort
    <3>2. At(x) \in TargetPods(l)
      BY <2>2, <3>1 DEF TargetPods, Cohort
    <3>3. At(t)' \in TargetPods(l)
      BY <2>1, <2>2, <3>2 DEF Candidates, runAffinity, Seedable, PureLabel
    <3>4. PICK u \in Cohort(l) : At(u) # NoPod /\ At(t)' = At(u)
      BY <3>3 DEF TargetPods, Cohort
    <3> QED
      BY <1>1, <2>2, <3>1, <3>4
  <2>3. CASE r = t
    BY <2>2, <2>3
  <2>4. CASE s = t
    BY <2>2, <2>4
  <2>5. CASE r # t /\ s # t
    BY <1>0, <1>1, <2>1, <2>5
  <2> QED
    BY <2>3, <2>4, <2>5
<1> QED
  BY <1>2, <1>3

\* Runs that repel each other stay apart: a cycle avoids the Pods of the other.
LEMMA ApartStep ==
    ASSUME IInv, env' = env, strayed \subseteq strayed', Dropping \/ Placing
    PROVE  SeenApart'
<1> SUFFICES ASSUME NEW r \in Runs \ strayed', NEW s \in Runs \ strayed', Repel(r, s),
                    At(r)' # NoPod
             PROVE  At(r)' # At(s)'
  BY DEF SeenApart, Repel
<1>1. At(r) # NoPod => At(r) # At(s)
  BY DEF IInv, SeenApart
<1>2. CASE Dropping
  BY <1>1, <1>2 DEF Dropping
<1>3. CASE Placing
  <2>1. PICK t \in Runs : At(t)' \in Candidates(t) /\ \A x \in Runs \ {t} : At(x)' = At(x)
    BY <1>3 DEF Placing
  <2>2. ASSUME NEW x \in Runs \ {t}, env.avoids[t] \cap env.labels[x] # {}, At(x) # NoPod
        PROVE  At(t)' # At(x)
    BY <2>1, <2>2 DEF Candidates, runAffinity, TargetPods
  <2>3. At(t)' # NoPod
    BY <2>1, PlacementAssumption DEF Candidates, IInv, TypeOK
  <2>4. CASE r = t
    BY <2>1, <2>2, <2>3, <2>4 DEF Repel
  <2>5. CASE s = t
    BY <2>1, <2>2, <2>5 DEF Repel
  <2>6. CASE r # t /\ s # t
    BY <1>1, <2>1, <2>6
  <2> QED
    BY <2>4, <2>5, <2>6
<1> QED
  BY <1>2, <1>3

\* What the planner's snapshot shows keeps pace with the assignments.
THEOREM SnapshotInvariant == Spec => []IInv
<1>1. Init => IInv
  <2> SUFFICES ASSUME Init PROVE IInv
    OBVIOUS
  <2>0. \A r \in Runs : Len(hist[r]) = 1 /\ ~consumesRuntimeCapacity(hist[r][1])
                        /\ cache(r) = hist[r][1] /\ assumed[r] = NoPod
    BY SMT DEF Init, consumesRuntimeCapacity, cache
  <2>1. \A r \in Runs : At(r) = NoPod
    BY <2>0 DEF At, SyncAssumed
  <2>2. NextToShow /\ OnAPod /\ Reserved
    BY <2>0, SMT DEF NextToShow, OnAPod, Reserved, Accounted, Ghost
  <2>3. SeenTogether /\ SeenApart
    BY <2>1 DEF SeenTogether, SeenApart, Cohort
  <2>4. TypeOK
    BY TypeInit
  <2> QED
    BY <2>2, <2>3, <2>4 DEF IInv
<1>2. IInv /\ TypeOK' /\ [Next]_vars => IInv'
  <2> SUFFICES ASSUME IInv, TypeOK', [Next]_vars PROVE IInv'
    OBVIOUS
  <2>1. Reserved'
    <3>1. CASE UNCHANGED vars
      BY <3>1 DEF IInv, vars, Reserved, Accounted, Ghost, Owed, cache
    <3>2. CASE Next
      BY <3>2 DEF Next, TrackStrayed, Reserved
    <3> QED
      BY <3>1, <3>2
  <2>2. NextToShow' /\ OnAPod'
    BY ShapeStep
  <2>3. SeenTogether' /\ SeenApart'
    BY <2>1, ViewStep, TogetherStep, ApartStep
  <2> QED
    BY <2>1, <2>2, <2>3 DEF IInv
<1> QED
  BY <1>1, <1>2, TypeCorrect, PTL DEF Spec

\* The members of a self-selecting affinity cohort that are active share one
\* Pod, however late the informer shows the assignments of the others.
THEOREM CohortsStayTogether == Spec => []CohortTogether
<1>1. IInv => CohortTogether
  <2> SUFFICES ASSUME IInv, strayed = {}, NEW l \in Labels, PureLabel(l), NEW r \in Cohort(l),
                      NEW s \in Cohort(l), consumesRuntimeCapacity(store(r)),
                      consumesRuntimeCapacity(store(s))
               PROVE  store(r).pod = store(s).pod
    BY DEF CohortTogether
  <2>1. r \in Runs \ strayed /\ s \in Runs \ strayed
    BY DEF Cohort
  <2>2. /\ At(r) = store(r).pod /\ At(r) # NoPod
        /\ At(s) = store(s).pod /\ At(s) # NoPod
    BY <2>1, SnapshotSound
  <2> QED
    BY <2>2 DEF IInv, SeenTogether
<1> QED
  BY <1>1, SnapshotInvariant, PTL

\* Runs that require not to meet are never active on one Pod, however late the
\* informer shows the assignment of either.
THEOREM RepelledStayApart == Spec => []RepelledApart
<1>1. IInv => RepelledApart
  <2> SUFFICES ASSUME IInv, NEW r \in Runs \ strayed, NEW s \in Runs \ strayed, Repel(r, s),
                      consumesRuntimeCapacity(store(r)), consumesRuntimeCapacity(store(s))
               PROVE  store(r).pod # store(s).pod
    BY DEF RepelledApart
  <2>1. At(r) = store(r).pod /\ At(r) # NoPod /\ At(s) = store(s).pod
    BY SnapshotSound
  <2> QED
    BY <2>1 DEF IInv, SeenApart
<1> QED
  BY <1>1, SnapshotInvariant, PTL
==============================================================================
