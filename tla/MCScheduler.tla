----------------------------- MODULE MCScheduler -----------------------------
EXTENDS Scheduler

CONSTANTS r1, r2, p1, p2

TwoRuns == {r1, r2}
TwoPods == {p1, p2}
OneSlot == [p \in Pods |-> 1]
Anywhere == [r \in Runs |-> Pods]

\* Two valid Runs compete for one slot; versions is more than either can use.
Contest == [pods |-> {p1}, fresh |-> {}, badResources |-> {}, badAffinity |-> {},
            withdrawn |-> {}, retried |-> {}, versions |-> 9, lag |-> 2, faults |-> 0]

\* One of them is new and may be withdrawn at any moment.
Withdrawal == [Contest EXCEPT !.fresh = {r1}, !.withdrawn = {r1}]

\* An update fails, its answer is lost, or the scheduler restarts or fails over.
Failing == [Contest EXCEPT !.faults = 1]

\* One of them may be given back for another attempt.
Retry == [Contest EXCEPT !.retried = {r1}]

\* Neither is valid, and both may be withdrawn.
Invalid == [Contest EXCEPT !.fresh = {r1}, !.badResources = {r1}, !.badAffinity = {r2},
                           !.withdrawn = {r1, r2}, !.faults = 1]

\* Two Pods to choose from, up to the assignment of both Runs.
Choice == [Contest EXCEPT !.pods = {p1, p2}, !.versions = 2]

Mixed == {Withdrawal, Failing, Retry, Invalid, Choice}
==============================================================================
