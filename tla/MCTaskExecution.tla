--------------------------- MODULE MCTaskExecution ---------------------------
EXTENDS TaskExecution, TLC

CONSTANTS r1, r2, p1, p2

OneRun == {r1}
TwoRuns == {r1, r2}
TwoPods == {p1, p2}

\* One Run moves between two Pods that fall silent or are lost.
Moved == [runs |-> {r1}, pods |-> {p1, p2}, timed |-> {}, badSource |-> {}, withdrawn |-> {},
          attempts |-> 2, ending |-> FALSE, kinds |-> {"silence", "loss"},
          budget |-> 1, lag |-> 2]

\* runtimed restarts, twice, and so does the Runtime Server.
Restarted(p) == [Moved EXCEPT !.pods = {p}, !.kinds = {"restart", "wipe"}, !.budget = 2]

\* Two Runs, one with a bad source, share one worker whose calls and updates fail.
Shared(p) == [Moved EXCEPT !.runs = {r1, r2}, !.pods = {p}, !.badSource = {r2}, !.budget = 2,
                           !.kinds = {"refusal", "noreply", "apiError", "wipe"}]

\* A command with a deadline and a retry on one Pod where any one thing fails.
Timed == [Moved EXCEPT !.pods = {p1}, !.timed = {r1}, !.ending = TRUE,
                       !.kinds = {"refusal", "noreply", "apiError", "wipe", "restart",
                                  "noStatus"}]

\* Without a retry, any two.
TimedOnce == [Timed EXCEPT !.attempts = 1, !.budget = 2]

\* A Run whose command never ends is withdrawn while calls or updates fail or
\* its Pod is lost.
Withdrawn == [Moved EXCEPT !.pods = {p1}, !.withdrawn = {r1},
                           !.kinds = {"refusal", "noreply", "apiError", "wipe", "loss"}]

\* A Pod is lost and the Run goes on on another one.
Lost == [Moved EXCEPT !.ending = TRUE, !.kinds = {"loss"}]

\* The Pods are interchangeable: a scenario with one Pod is there for either.
Safety == {Moved} \cup UNION {{Restarted(p), Shared(p)} : p \in TwoPods}
Symmetric == Permutations(TwoPods)
Liveness == {Timed, TimedOnce, Withdrawn, Lost}
Loss == {Lost}
==============================================================================
