----------------------------- MODULE OfferList -----------------------------
(***************************************************************************)
(* The loop of source_candidates (src/rss.rs) for one connection of one    *)
(* task: candidate after candidate is put into the list, with RSS only if  *)
(* its port has not been seen.                                             *)
(*                                                                         *)
(* A definition named ...Mut is a bug one could write in the next one.     *)
(***************************************************************************)
EXTENDS SourcePorts, Sequences

CONSTANT Reconnects   \* bound: reconnects of the task

ASSUME OfferAssumption == Reconnects \in Nat

VARIABLES
  task, connection,   \* whose candidates: connection is the task's gen
  k,                  \* candidates considered
  out                 \* the list

offerVars == <<task, connection, k, out>>

OfferInit ==
  task \in Tasks /\ connection \in 0 .. Reconnects /\ k = 0 /\ out = <<>>

NextPort == Candidate(task, connection, k)

SeenMut == Len(out) > 0 /\ out[Len(out)] = NextPort
Seen == \E i \in 1 .. Len(out) : out[i] = NextPort

Push ==
  /\ k < Tries /\ ~(WithRss /\ Seen)
  /\ out' = Append(out, NextPort) /\ k' = k + 1
  /\ UNCHANGED <<task, connection>>

SkipSeen ==
  /\ k < Tries /\ WithRss /\ Seen
  /\ k' = k + 1
  /\ UNCHANGED <<task, connection, out>>

OfferNext == Push \/ SkipSeen \/ (k = Tries /\ UNCHANGED offerVars)

OfferSpec == OfferInit /\ [][OfferNext]_offerVars
-----------------------------------------------------------------------------
(* A connection is offered different ports of the list, its own port       *)
(* first, and as many as there are to offer: every port of its queue's     *)
(* turn in the list, or of the range, up to the limit.                     *)
Reach == IF WithRss THEN {(Primary(task, connection) + j * Stride) % Entries : j \in 0 .. Tries - 1}
                    ELSE {(Primary(task, connection) + j) % Entries : j \in 0 .. Tries - 1}

OffersDiffer ==
  /\ \A i, j \in 1 .. Len(out) : out[i] = out[j] => i = j
  /\ \A i \in 1 .. Len(out) : out[i] \in Indices
  /\ k = Tries => out[1] = Primary(task, connection) /\ {out[i] : i \in 1 .. Len(out)} = Reach
=============================================================================
