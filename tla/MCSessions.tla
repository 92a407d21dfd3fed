------------------------------ MODULE MCSessions ------------------------------
(***************************************************************************)
(* Two operations. The first is submitted twice with its key, the second   *)
(* through a Pod that is not the owner.                                    *)
(***************************************************************************)
EXTENDS Sessions

MCRequests == {"a1", "a2", "b1"}
MCOpOf == [a1 |-> "a", a2 |-> "a", b1 |-> "b"]
MCScenarios ==
    { [requests |-> {"a1", "a2"}, drops |-> {"a1"}, ends |-> {}, faults |-> 1],
      [requests |-> {"a1", "a2"}, drops |-> {}, ends |-> {}, faults |-> 2],
      [requests |-> {"a1", "b1"}, drops |-> {"a1"}, ends |-> {"Drain"}, faults |-> 0],
      [requests |-> {"b1"}, drops |-> {}, ends |-> {"Drain", "Immediate", "Lease"}, faults |-> 1] }
MCMaxOutputs == [a |-> 1, b |-> 0]
MCPeer == {"b1"}
==============================================================================
