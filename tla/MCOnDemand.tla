---------------------------- MODULE MCOnDemand ----------------------------
(* A small instance of OnDemand for TLC: photographs 1..3, all of them on the share. *)
EXTENDS OnDemand

OneSeed == {<<2, 0, 1>>}
SomeModes ==
    {[random |-> TRUE, onDemand |-> TRUE, auto |-> TRUE],
     [random |-> TRUE, onDemand |-> FALSE, auto |-> TRUE],
     [random |-> FALSE, onDemand |-> FALSE, auto |-> TRUE]}
=============================================================================
