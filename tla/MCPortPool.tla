---------------------------- MODULE MCPortPool ----------------------------
(***************************************************************************)
(* Port lists for the instances TLC checks.                                *)
(***************************************************************************)
EXTENDS PortPool

(* Every queue has as many ports as any other: the list alternates.        *)
EvenQueues == [i \in Indices |-> IF WithRss THEN i % Stride ELSE 0]

(* Queue 0 has one port more than queue 1, as an odd number of ports must. *)
UnevenQueues == [i \in Indices |-> IF i = Entries - 1 THEN 0 ELSE i % 2]
=============================================================================
