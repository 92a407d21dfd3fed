----------------------------- MODULE MCActiveRuns -----------------------------
EXTENDS ActiveRuns

CONSTANTS t1, t2, t3, s1, f1

MCRuns == {t1, t2, t3, s1, f1}
MCMode == [r \in MCRuns |-> IF r = s1 THEN "Session" ELSE IF r = f1 THEN "Function" ELSE "Task"]
==============================================================================
