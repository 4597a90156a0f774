------------------------------ MODULE Rotation ------------------------------
(***************************************************************************)
(* Round-robin use of a list of n entries: `used[i]` counts the uses of    *)
(* entry i, the first use was at index `start` and the next is at `at`.    *)
(* Clients rotate request targets and TLS server names this way.           *)
(***************************************************************************)
EXTENDS Naturals

Balanced(used, n) ==
  \A i, j \in 0 .. n - 1 : used[i] <= used[j] + 1

(* The entries used in the current round: those from start up to at.       *)
InRound(i, start, at) ==
  IF start <= at THEN start <= i /\ i < at ELSE start <= i \/ i < at

(* Every entry was used as often as the one at `at`, or once more in this  *)
(* round.                                                                  *)
Turns(used, n, start, at) ==
  \A i \in 0 .. n - 1 :
    used[i] = used[at] + (IF InRound(i, start, at) THEN 1 ELSE 0)
=============================================================================
