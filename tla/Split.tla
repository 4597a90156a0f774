------------------------------- MODULE Split -------------------------------
(***************************************************************************)
(* How run_tokio_engines divides the connections over the runtime          *)
(* instances (src/engine.rs): the first Connections % Instances instances  *)
(* run one task more, and conn_base gives every task a global index, which *)
(* picks its source port, its first request target and its first server    *)
(* name.                                                                   *)
(***************************************************************************)
EXTENDS Naturals

CONSTANTS
  Instances,    \* runtimes: threads / -m
  Connections   \* -c

ASSUME SplitAssumption == Instances \in Nat \ {0} /\ Connections \in Nat

Ids == 0 .. Instances - 1

PerInstance == Connections \div Instances
Remainder   == Connections % Instances

(* opts.connections of instance id *)
Count(id) == IF id < Remainder THEN PerInstance + 1 ELSE PerInstance

BaseMut(id) == id * PerInstance
(* opts.conn_base of instance id *)
Base(id) == id * PerInstance + (IF id < Remainder THEN id ELSE Remainder)

(* A task is known by its instance and its index in it. *)
TaskIds == {t \in Ids \X (0 .. Connections) : t[2] < Count(t[1])}

(* conn_base + cid *)
GlobalIndex(t) == Base(t[1]) + t[2]
=============================================================================
