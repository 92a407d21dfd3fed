--------------------------- MODULE ActiveRunsProofs ---------------------------
(***************************************************************************)
(* What the gate of activeRuns guarantees for every set of Runs, every     *)
(* mix of modes and every capacity, with restarts and recovery at any      *)
(* time.                                                                   *)
(***************************************************************************)
EXTENDS ActiveRuns, FiniteSetTheorems, TLAPS

\* Every operation on activeRuns keeps the shape of its state; in particular
\* what is unsaved or was put back by recovery is always a claim.
THEOREM TypeCorrect == Spec => []TypeOK
<1>1. Init => TypeOK
  BY DEF Init, TypeOK
<1>2. TypeOK /\ [Next]_vars => TypeOK'
  <2> SUFFICES ASSUME TypeOK, [Next]_vars PROVE TypeOK'
    OBVIOUS
  <2> USE DEF TypeOK
  <2>1. CASE Restart
    BY <2>1 DEF Restart
  <2>2. ASSUME NEW r \in Runs,
               Assign(r) \/ ClaimScheduled(r) \/ Saved(r) \/ Unclaim(r) \/ Show(r)
        PROVE TypeOK'
    BY <2>2 DEF Assign, ClaimScheduled, Saved, Unclaim, Show, Admits
  <2>3. ASSUME NEW r \in Runs, Reclaim(r) \/ AddRecovered(r) \/ End(r) \/ Release(r)
        PROVE TypeOK'
    BY <2>3 DEF Reclaim, AddRecovered, End, Release, Admits
  <2>4. CASE UNCHANGED vars
    BY <2>4 DEF vars
  <2> QED
    BY <2>1, <2>2, <2>3, <2>4 DEF Next
<1> QED
  BY <1>1, <1>2, PTL DEF Spec

\* The set of gated claims grows only where Admits held.
Gated == claims \ recovered

\* What a step may do to the claims that came through tryClaimActiveRun: keep or
\* lose some, or admit one.
LEMMA GatedStep ==
    ASSUME TypeOK, [Next]_vars
    PROVE  \/ Gated' \subseteq Gated
           \/ \E r \in Runs : Admits(r) /\ claims' = claims \cup {r} /\ recovered' = recovered
<1> USE DEF Gated, TypeOK
<1>1. CASE Restart
  BY <1>1 DEF Restart
<1>2. ASSUME NEW r \in Runs, ClaimScheduled(r) \/ Reclaim(r)
      PROVE  Admits(r) /\ claims' = claims \cup {r} /\ recovered' = recovered
  BY <1>2 DEF ClaimScheduled, Reclaim
<1>3. ASSUME NEW r \in Runs, AddRecovered(r)
      PROVE  Gated' \subseteq Gated
  BY <1>3 DEF AddRecovered
<1>4. ASSUME NEW r \in Runs,
             Assign(r) \/ Saved(r) \/ Unclaim(r) \/ Show(r) \/ End(r) \/ Release(r)
      PROVE  Gated' \subseteq Gated
  BY <1>4 DEF Assign, Saved, Unclaim, Show, End, Release
<1>5. CASE UNCHANGED vars
  BY <1>5 DEF vars
<1> QED
  BY <1>1, <1>2, <1>3, <1>4, <1>5 DEF Next

\* The gate of tryClaimActiveRun keeps a Session apart from every other Run that
\* came through it, across restarts and whatever addRecoveredRun puts back.
THEOREM SessionsStayAlone == Spec => []GateKeepsSessionsAlone
<1>1. Init => GateKeepsSessionsAlone
  BY DEF Init, GateKeepsSessionsAlone
<1>2. TypeOK /\ GateKeepsSessionsAlone /\ [Next]_vars => GateKeepsSessionsAlone'
  <2> SUFFICES ASSUME TypeOK, GateKeepsSessionsAlone, [Next]_vars
               PROVE  GateKeepsSessionsAlone'
    OBVIOUS
  <2>1. CASE Gated' \subseteq Gated
    BY <2>1 DEF GateKeepsSessionsAlone, Gated
  <2>2. ASSUME NEW r \in Runs, Admits(r), claims' = claims \cup {r}, recovered' = recovered
        PROVE  GateKeepsSessionsAlone'
    <3> USE DEF GateKeepsSessionsAlone, Admits, TypeOK
    <3>1. CASE r \in Sessions
      BY <2>2, <3>1 DEF Sessions
    <3>2. CASE r \notin Sessions
      BY <2>2, <3>2 DEF Sessions
    <3> QED
      BY <3>1, <3>2
  <2> QED
    BY <2>1, <2>2, GatedStep
<1> QED
  BY <1>1, <1>2, TypeCorrect, PTL DEF Spec

\* The gate never admits more Runs than the Pod has workers, across restarts
\* and whatever recovery has put back.
THEOREM CapacityKept == Spec => []GateKeepsCapacity
<1>1. Init => GateKeepsCapacity
  BY ActiveRunsAssumption, FS_EmptySet DEF Init, GateKeepsCapacity
<1>2. TypeOK /\ GateKeepsCapacity /\ [Next]_vars => GateKeepsCapacity'
  <2> SUFFICES ASSUME TypeOK, GateKeepsCapacity, [Next]_vars PROVE GateKeepsCapacity'
    OBVIOUS
  <2> USE DEF GateKeepsCapacity
  <2>1. IsFiniteSet(Gated) /\ IsFiniteSet(claims)
    BY ActiveRunsAssumption, FS_Subset DEF TypeOK, Gated
  <2>2. CASE Gated' \subseteq Gated
    BY <2>1, <2>2, FS_Subset, FS_CardinalityType, ActiveRunsAssumption DEF Gated
  <2>3. ASSUME NEW r \in Runs, Admits(r), claims' = claims \cup {r}, recovered' = recovered
        PROVE  GateKeepsCapacity'
    <3>1. Gated' \subseteq Gated \cup {r}
      BY <2>3 DEF Gated
    <3>2. Cardinality(Gated) <= Cardinality(claims) /\ Cardinality(claims) < Capacity
      BY <2>1, <2>3, FS_Subset DEF Gated, Admits
    <3>3. IsFiniteSet(Gated \cup {r}) /\ Cardinality(Gated \cup {r}) <= Cardinality(Gated) + 1
      <4>1. IsFiniteSet({r}) /\ Cardinality({r}) = 1
        BY FS_Singleton
      <4>2. /\ IsFiniteSet(Gated \cup {r}) /\ IsFiniteSet(Gated \cap {r})
            /\ Cardinality(Gated \cup {r})
                 = Cardinality(Gated) + Cardinality({r}) - Cardinality(Gated \cap {r})
        BY <2>1, <4>1, FS_Union, FS_Intersection
      <4>3. /\ Cardinality(Gated) \in Nat /\ Cardinality(Gated \cup {r}) \in Nat
            /\ Cardinality(Gated \cap {r}) \in Nat
        BY <2>1, <4>2, FS_CardinalityType
      <4> HIDE DEF Gated
      <4> QED
        BY <4>1, <4>2, <4>3
    <3>4. Cardinality(Gated') <= Cardinality(Gated \cup {r})
      BY <3>1, <3>3, FS_Subset
    <3>5. IsFiniteSet(Gated')
      BY <3>1, <3>3, FS_Subset
    <3> HIDE DEF Gated
    <3>6. Cardinality(Gated') <= Capacity
      BY <2>1, <3>2, <3>3, <3>4, <3>5, FS_CardinalityType, ActiveRunsAssumption
    <3> QED
      BY <3>6 DEF Gated
  <2> QED
    BY <2>2, <2>3, GatedStep
<1> QED
  BY <1>1, <1>2, TypeCorrect, PTL DEF Spec
==============================================================================
