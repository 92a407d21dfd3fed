---------------------------- MODULE MCRegistrations ----------------------------
(***************************************************************************)
(* A function that is invoked, one that is retried under faults, one that  *)
(* cannot be registered, and a Session.                                    *)
(***************************************************************************)
EXTENDS Registrations

MCInvocations == {"p", "q"}

Scenario(mode, source, handler, attempts, calls, ends, n) ==
    [mode |-> mode, source |-> source, handler |-> handler, attempts |-> attempts,
     calls |-> calls, ends |-> ends, faults |-> n]

MCScenarios ==
    { Scenario("Function", TRUE, TRUE, 1, {"p", "q"}, {"Immediate"}, 0),
      Scenario("Function", TRUE, TRUE, 2, {"p"}, {"idle"}, 2),
      Scenario("Function", TRUE, TRUE, 1, {"p"}, {"Delete"}, 1),
      Scenario("Function", TRUE, TRUE, 2, {}, {"Immediate", "Delete", "deadline"}, 1),
      Scenario("Function", FALSE, TRUE, 2, {}, {"Immediate", "Delete"}, 1),
      Scenario("Function", TRUE, FALSE, 2, {}, {"Delete"}, 1),
      Scenario("Session", TRUE, TRUE, 2, {}, {"Immediate", "Drain", "Delete", "deadline"}, 1),
      Scenario("Session", FALSE, TRUE, 2, {}, {"Delete"}, 1) }
==============================================================================
