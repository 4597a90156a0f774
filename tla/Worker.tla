------------------------------- MODULE Worker -------------------------------
(***************************************************************************)
(* What a load task promises to the engine, whatever client it runs: it    *)
(* makes attempts, records each of them under exactly one outcome, makes   *)
(* at most the requested number of them, and stops when the budget is used *)
(* or the deadline has passed.  A connection lost between two requests may *)
(* add an error that belongs to no attempt, but only after a response:     *)
(* so the errors never outnumber the attempts.                             *)
(***************************************************************************)
EXTENDS Naturals

CONSTANTS Requests   \* {} without -r, {m} with -r m

VARIABLES attempts, ok, fail, err, running, deadline

vars == <<attempts, ok, fail, err, running, deadline>>

Init ==
  /\ attempts = 0 /\ ok = 0 /\ fail = 0 /\ err = 0
  /\ running = TRUE
  /\ deadline = FALSE

BudgetUsed == \E m \in Requests : attempts >= m

(* One attempt, recorded under one outcome. *)
Attempt ==
  /\ running /\ ~BudgetUsed
  /\ attempts' = attempts + 1
  /\ \/ ok' = ok + 1 /\ UNCHANGED <<fail, err>>
     \/ fail' = fail + 1 /\ UNCHANGED <<ok, err>>
     \/ err' = err + 1 /\ UNCHANGED <<ok, fail>>
  /\ running' \in (IF BudgetUsed' \/ deadline THEN BOOLEAN ELSE {TRUE})
  /\ UNCHANGED deadline

(* The connection is lost while no request is outstanding. *)
LoseIdleConnection ==
  /\ running
  /\ err < attempts
  /\ err' = err + 1
  /\ UNCHANGED <<attempts, ok, fail, running, deadline>>

Stop ==
  /\ running
  /\ BudgetUsed \/ deadline
  /\ running' = FALSE
  /\ UNCHANGED <<attempts, ok, fail, err, deadline>>

DeadlinePasses ==
  /\ ~deadline
  /\ deadline' = TRUE
  /\ UNCHANGED <<attempts, ok, fail, err, running>>

Next == Attempt \/ LoseIdleConnection \/ Stop \/ DeadlinePasses

SafeSpec == Init /\ [][Next]_vars

(* A task keeps going until it stops: it neither hangs nor spins. *)
Spec == SafeSpec /\ WF_vars(Attempt \/ Stop)
=============================================================================
