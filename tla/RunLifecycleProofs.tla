-------------------------- MODULE RunLifecycleProofs --------------------------
(* What every implementation of RunLifecycle inherits, for all Runs, Pods   *)
(* and retry budgets.                                                       *)
EXTENDS RunLifecycle, TLAPS

Statuses == [phase : Live \cup Outcomes \cup {"Deleted"},
             pod : Pods \cup {NoPod}, attempt : 1 .. MaxAttempts]

Inv == TypeOK /\ PodMatchesPhase

\* A step replaces the status of one Run.
Becomes(r, phase, pod, attempt) ==
    /\ run[r] \in Statuses
    /\ run' = [run EXCEPT ![r] = [phase |-> phase, pod |-> pod, attempt |-> attempt]]

\* The seven kinds of step by what they keep.
LEMMA StepForms ==
    ASSUME LifecycleAssumption, TypeOK, NEW r \in Runs,
           \/ Place(r) \/ Claim(r) \/ Finalize(r) \/ Retry(r) \/ Reset(r) \/ End(r) \/ Delete(r)
    PROVE  \E phase \in Live \cup Outcomes \cup {"Deleted"}, pod \in Pods \cup {NoPod},
              attempt \in 1 .. MaxAttempts :
             /\ Becomes(r, phase, pod, attempt)
             /\ attempt >= run[r].attempt
             /\ phase = "Pending" => pod = NoPod /\ attempt > run[r].attempt
             /\ phase \in {"Scheduled", "Running", "Finalizing"} =>
                  \/ pod = run[r].pod /\ run[r].phase \in {"Scheduled", "Running"}
                  \/ pod \in Pods /\ run[r].phase = "Pending"
             /\ phase \in Outcomes \cup {"Deleted"} => pod = run[r].pod
             /\ run[r].phase \notin Live => phase = "Deleted"
<1> DEFINE s == run[r]
<1>1. /\ s \in Statuses /\ s.phase \in Live \cup Outcomes \cup {"Deleted"}
      /\ s.pod \in Pods \cup {NoPod} /\ s.attempt \in 1 .. MaxAttempts
  BY DEF TypeOK, Statuses
<1>2. /\ MaxAttempts \in Nat /\ \A o \in Outcomes : o \notin Live
      /\ "Deleted" \notin Live /\ "Deleted" \notin Outcomes
  BY DEF LifecycleAssumption, Live
<1>3. \A o \in Outcomes : o \notin {"Pending", "Scheduled", "Running", "Finalizing", "Deleted"}
  BY DEF LifecycleAssumption
<1> HIDE DEF s
<1>4. CASE Place(r)
  <2>1. PICK p \in Pods : Becomes(r, "Scheduled", p, s.attempt) /\ s.phase = "Pending"
    BY <1>1, <1>4 DEF Place, Set, Becomes, s
  <2> QED
    BY <1>1, <1>2, <1>3, <2>1 DEF s, Live
<1>5. CASE Claim(r)
  <2>1. Becomes(r, "Running", s.pod, s.attempt) /\ s.phase = "Scheduled"
    BY <1>1, <1>5 DEF Claim, Move, Set, Becomes, s
  <2> QED
    BY <1>1, <1>2, <1>3, <2>1 DEF s, Live
<1>6. CASE Finalize(r)
  <2>1. Becomes(r, "Finalizing", s.pod, s.attempt) /\ s.phase = "Running"
    BY <1>1, <1>6 DEF Finalize, Move, Set, Becomes, s
  <2> QED
    BY <1>1, <1>2, <1>3, <2>1 DEF s, Live
<1>7. CASE Retry(r)
  <2>1. /\ Becomes(r, "Running", s.pod, s.attempt + 1) /\ s.phase = "Running"
        /\ s.attempt + 1 \in 1 .. MaxAttempts
    BY <1>1, <1>2, <1>7 DEF Retry, Set, Becomes, s
  <2> QED
    BY <1>1, <1>2, <1>3, <2>1 DEF s, Live
<1>8. CASE Reset(r)
  <2>1. /\ Becomes(r, "Pending", NoPod, s.attempt + 1) /\ s.phase \in {"Running", "Finalizing"}
        /\ s.attempt + 1 \in 1 .. MaxAttempts
    BY <1>1, <1>2, <1>8 DEF Reset, Set, Becomes, s
  <2> QED
    BY <1>1, <1>2, <1>3, <2>1 DEF s, Live
<1>9. CASE End(r)
  <2>1. PICK phase \in Outcomes : Becomes(r, phase, s.pod, s.attempt) /\ s.phase \in Live
    BY <1>1, <1>9 DEF End, Move, Set, Becomes, s
  <2> QED
    BY <1>1, <1>2, <1>3, <2>1 DEF s
<1>10. CASE Delete(r)
  <2>1. Becomes(r, "Deleted", s.pod, s.attempt)
    BY <1>1, <1>10 DEF Delete, Move, Set, Becomes, s
  <2> QED
    BY <1>1, <1>2, <1>3, <2>1 DEF s, Live
<1> QED
  BY <1>4, <1>5, <1>6, <1>7, <1>8, <1>9, <1>10

\* The step seen from every Run.
LEMMA StepEffect ==
    ASSUME LifecycleAssumption, Inv, Next
    PROVE  Inv' /\ \A q \in Runs :
             /\ run'[q].attempt >= run[q].attempt
             /\ run[q].pod # NoPod /\ run'[q].pod # run[q].pod => run'[q].attempt > run[q].attempt
             /\ run[q].phase \in Outcomes => run'[q].phase \in {run[q].phase, "Deleted"}
<1>1. PICK r \in Runs : \/ Place(r) \/ Claim(r) \/ Finalize(r) \/ Retry(r)
                        \/ Reset(r) \/ End(r) \/ Delete(r)
  BY DEF Next
<1>2. PICK phase \in Live \cup Outcomes \cup {"Deleted"}, pod \in Pods \cup {NoPod},
           attempt \in 1 .. MaxAttempts :
             /\ Becomes(r, phase, pod, attempt)
             /\ attempt >= run[r].attempt
             /\ phase = "Pending" => pod = NoPod /\ attempt > run[r].attempt
             /\ phase \in {"Scheduled", "Running", "Finalizing"} =>
                  \/ pod = run[r].pod /\ run[r].phase \in {"Scheduled", "Running"}
                  \/ pod \in Pods /\ run[r].phase = "Pending"
             /\ phase \in Outcomes \cup {"Deleted"} => pod = run[r].pod
             /\ run[r].phase \notin Live => phase = "Deleted"
  BY <1>1, StepForms DEF Inv
<1>3. run \in [Runs -> Statuses]
  BY DEF Inv, TypeOK, Statuses
<1> DEFINE new == [phase |-> phase, pod |-> pod, attempt |-> attempt]
<1>4. new \in Statuses /\ new.phase = phase /\ new.pod = pod /\ new.attempt = attempt
  BY DEF Statuses
<1>5. run' = [run EXCEPT ![r] = new]
  BY <1>2 DEF Becomes
<1> HIDE DEF new
<1>6. run'[r] = new /\ \A q \in Runs \ {r} : run'[q] = run[q]
  BY <1>3, <1>5
<1>7. TypeOK'
  BY <1>3, <1>4, <1>5 DEF TypeOK, Statuses
<1>8. \A q \in Runs : run[q].attempt \in Nat
  BY <1>3 DEF LifecycleAssumption, Statuses
<1>9. PodMatchesPhase'
  <2> SUFFICES ASSUME NEW q \in Runs
               PROVE  /\ run'[q].phase = "Pending" => run'[q].pod = NoPod
                      /\ run'[q].phase \in Live \ {"Pending"} => run'[q].pod \in Pods
    BY DEF PodMatchesPhase
  <2>1. CASE q = r
    BY <1>2, <1>4, <1>6, <2>1 DEF Inv, PodMatchesPhase, Live
  <2>2. CASE q # r
    BY <1>6, <2>2 DEF Inv, PodMatchesPhase
  <2> QED
    BY <2>1, <2>2
<1>10. ASSUME NEW q \in Runs
       PROVE /\ run'[q].attempt >= run[q].attempt
             /\ run[q].pod # NoPod /\ run'[q].pod # run[q].pod => run'[q].attempt > run[q].attempt
             /\ run[q].phase \in Outcomes => run'[q].phase \in {run[q].phase, "Deleted"}
  <2>1. CASE q = r
    <3>1. run[q].phase \in Outcomes => run[q].phase \notin Live
      BY DEF LifecycleAssumption, Live
    <3>2. run[r].pod # NoPod => run[r].phase # "Pending"
      BY DEF Inv, PodMatchesPhase
    <3> QED
      BY <1>2, <1>4, <1>6, <2>1, <3>1, <3>2 DEF Live
  <2>2. CASE q # r
    BY <1>6, <1>8, <2>2
  <2> QED
    BY <2>1, <2>2
<1> QED
  BY <1>7, <1>9, <1>10 DEF Inv

\* The statuses keep their shape, and a live Run has a Pod exactly when it is
\* past Pending.
THEOREM LifecycleInvariant ==
    ASSUME LifecycleAssumption
    PROVE  Spec => [](TypeOK /\ PodMatchesPhase)
<1>1. Init => Inv
  BY DEF LifecycleAssumption, Init, Inv, TypeOK, PodMatchesPhase, Live
<1>2. Inv /\ [Next]_run => Inv'
  BY StepEffect DEF Inv, TypeOK, PodMatchesPhase
<1> QED
  BY <1>1, <1>2, PTL DEF Spec, Inv

\* No attempt is ever moved to another Pod, and no outcome is ever revised.
THEOREM AttemptsStayPut ==
    ASSUME LifecycleAssumption
    PROVE  Spec => AttemptStaysPut
<1> DEFINE A == \A r \in Runs :
          /\ run'[r].attempt >= run[r].attempt
          /\ run[r].pod # NoPod /\ run'[r].pod # run[r].pod
                => run'[r].attempt > run[r].attempt
          /\ run[r].phase \in Outcomes => run'[r].phase \in {run[r].phase, "Deleted"}
<1>1. TypeOK /\ PodMatchesPhase /\ [Next]_run => [A]_run
  BY StepEffect DEF Inv
<1> QED
  BY <1>1, LifecycleInvariant, PTL DEF Spec, AttemptStaysPut
==============================================================================
