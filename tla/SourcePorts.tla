---------------------------- MODULE SourcePorts ----------------------------
(***************************************************************************)
(* source_candidates (src/rss.rs): which entries of the port list a task   *)
(* tries for its connection number gen.  The list has Len ports: the range *)
(* --local-port-range, or the ports balanced over the queues.  Every entry *)
(* of the list is a different port, so ports are named by their index.     *)
(***************************************************************************)
EXTENDS Naturals

CONSTANTS
  Total,          \* total_connections: tasks of all instances
  Entries,        \* ports in the list
  Stride,         \* num_queues, or 0 when --rss-key is not given
  MaxCandidates   \* MAX_BIND_CANDIDATES, 8 in the code

(* init_source_ports refuses a list shorter than the connections. *)
ASSUME PortsAssumption ==
  /\ Total \in Nat \ {0} /\ Entries \in Nat /\ Entries >= Total
  /\ Stride \in Nat
  /\ MaxCandidates \in Nat \ {0}

Tasks == 0 .. Total - 1
Indices == 0 .. Entries - 1

WithRss == Stride > 0

(* A definition named ...Mut is a bug one could write in the next one.     *)
TasksPerQueueMut == Total \div Stride
TasksPerQueue == (Total + Stride - 1) \div Stride

StepMut == IF WithRss THEN Total ELSE 1
(* How far one reconnect moves a task in the list. *)
Step == IF WithRss THEN TasksPerQueue * Stride ELSE Total

(* The k-th candidate, from 0, of task g for its connection gen; the       *)
(* arithmetic is u64 and gen * Step stays below 2^64 in any real run.      *)
Candidate(g, gen, k) ==
  IF WithRss THEN (g + gen * Step + k * Stride) % Entries
             ELSE (((g + gen * Step) % Entries) + k) % Entries

Primary(g, gen) == Candidate(g, gen, 0)

TriesMut == MaxCandidates
(* A range yields no more candidates than it has ports. *)
Tries == IF ~WithRss /\ Entries < MaxCandidates THEN Entries ELSE MaxCandidates

(* The candidates that are yielded: with RSS a port seen before is not.    *)
Listed(g, gen) ==
  {k \in 0 .. Tries - 1 :
     WithRss => \A j \in 0 .. k - 1 :
                  Candidate(g, gen, j) # Candidate(g, gen, k)}
=============================================================================
