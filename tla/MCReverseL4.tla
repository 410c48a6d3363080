----------------------------- MODULE MCReverseL4 -----------------------------
(* Specifications for the instances of ReverseL4: two that differ in the   *)
(* listener, one on another entry agent and one on another exit agent.     *)
EXTENDS ReverseL4

Base == [entry |-> "e1", exit |-> "x1", port |-> 1]

OtherPort == [entry |-> "e1", exit |-> "x1", port |-> 2]

OtherEntry == [entry |-> "e2", exit |-> "x1", port |-> 1]

OtherExit == [entry |-> "e1", exit |-> "x2", port |-> 1]

MCSpecs == {Base, OtherPort, OtherEntry, OtherExit}
=============================================================================
