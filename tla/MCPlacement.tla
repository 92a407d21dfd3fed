---------------------------- MODULE MCPlacement ----------------------------
EXTENDS Placement

CONSTANTS r1, r2, r3

ThreeRuns == {r1, r2, r3}

NoTerms == [r \in Runs |-> {}]
NoWeights == [r \in Runs |-> [l \in Labels |-> 0]]
OneSlotEach == [r \in Runs |-> [x \in Resources |-> 0]]
Plain == [labels |-> NoTerms, requires |-> NoTerms, avoids |-> NoTerms,
          prefers |-> NoWeights, shuns |-> NoWeights, request |-> OneSlotEach,
          capacity |-> [p \in Pods |-> [x \in Resources |-> 0]],
          fresh |-> {}, retried |-> {}, deleted |-> {}, podEvents |-> 0, errors |-> 0]

All(l) == [r \in Runs |-> {l}]

\* A self-selecting cohort of three on Pods with two and three slots.
CohortOfThree == [Plain EXCEPT !.labels = All("a"), !.requires = All("a"),
    !.capacity = [p \in Pods |-> [x \in Resources |-> IF p = 1 /\ x = "runs" THEN 3 ELSE 0]],
    !.retried = {r1}]

\* Three Runs that repel each other, on two Pods.
Strangers == [Plain EXCEPT !.labels = All("a"), !.avoids = All("a"),
    !.errors = 1]

\* One slot per Pod, one resource only one Pod advertises.
Scarce == [Plain EXCEPT
    !.request = [r \in Runs |-> [x \in Resources |-> IF x = "gpu" /\ r # r2 THEN 1 ELSE 0]],
    !.capacity = [p \in Pods |-> [x \in Resources |->
                    IF x = "runs" THEN 1 ELSE IF p = 2 THEN 3 ELSE 0]],
    !.fresh = {r3}, !.deleted = {r1}, !.podEvents = 1]

\* Pods of unequal size in two resources, and preferences for and against
\* company.
Choosy == [Plain EXCEPT !.labels = [r \in Runs |-> IF r = r1 THEN {"a"} ELSE {"b"}],
    !.prefers = [r \in Runs |-> [l \in Labels |-> IF r = r2 /\ l = "a" THEN 60 ELSE 0]],
    !.shuns = [r \in Runs |-> [l \in Labels |-> IF r = r3 /\ l = "b" THEN 40 ELSE 0]],
    !.request = [r \in Runs |-> [x \in Resources |-> IF x = "gpu" THEN 1 ELSE IF r = r1 THEN 2 ELSE 1]],
    !.capacity = [p \in Pods |-> [x \in Resources |->
                    IF x = "runs" THEN 3 * p ELSE IF p = 1 THEN 4 ELSE 3]],
    !.podEvents = 1]

MCScenarios == {CohortOfThree, Strangers, Scarce, Choosy}
==============================================================================
