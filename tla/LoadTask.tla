------------------------------ MODULE LoadTask ------------------------------
(***************************************************************************)
(* The task spawn_tasks starts for the client type of the options          *)
(* (src/engine.rs): whichever it is, the engine adds up the Statistics it  *)
(* returns, so all of them owe the engine the same promises.  The hyper    *)
(* client has a run of its own, hyper-h2 another one.                      *)
(***************************************************************************)
EXTENDS ClientTask, Sequences

CONSTANTS
  MaxExtras,   \* of RawClient
  MaxHops      \* of PooledClient

ASSUME LoadAssumption == MaxExtras \in Nat /\ MaxHops \in Nat

VARIABLES kind, owed, inbox, buffer, eofs, extras, misread, reused, hops

rawOwn  == <<owed, inbox, buffer, eofs, extras, misread>>
poolOwn == <<reused, hops>>
allVars == <<vars, kind, rawOwn, poolOwn>>

Chunked == INSTANCE ChunkedClient
Raw     == INSTANCE RawClient
Pool    == INSTANCE PooledClient

Kinds == {"hyper-chunked"} \cup Raw!Kinds \cup Pool!Kinds

LoadInit ==
  /\ Init
  /\ kind \in Kinds
  /\ Raw!RawInit /\ Pool!PoolInit

ChunkedTask ==
  /\ kind = "hyper-chunked"
  /\ \/ Chunked!Connect \/ Chunked!SendChunks \/ Chunked!Reply
     \/ Chunked!Redial \/ Chunked!Ready
  /\ UNCHANGED <<kind, rawOwn, poolOwn>>

CompioTask == kind = "compio"      /\ Raw!RawTask /\ UNCHANGED poolOwn
MonoioTask == kind = "monoio"      /\ Raw!RawTask /\ UNCHANGED poolOwn
UringTask  == kind = "tokio-uring" /\ Raw!RawTask /\ UNCHANGED poolOwn

LegacyTask  == kind = "hyper-legacy" /\ Pool!PoolTask /\ UNCHANGED rawOwn
Rt1Task     == kind = "hyper-rt1"    /\ Pool!PoolTask /\ UNCHANGED rawOwn
ReqwestTask == kind = "reqwest"      /\ Pool!PoolTask /\ UNCHANGED rawOwn

Task ==
  \/ ChunkedTask
  \/ CompioTask \/ MonoioTask \/ UringTask
  \/ LegacyTask \/ Rt1Task \/ ReqwestTask

Peer ==
  \/ kind \in Raw!Kinds /\ Raw!RawPeer /\ UNCHANGED poolOwn
  \/ kind \notin Raw!Kinds /\ PeerAnswers /\ UNCHANGED <<kind, rawOwn, poolOwn>>

Circumstances == (LinkLost \/ DeadlinePasses) /\ UNCHANGED <<kind, rawOwn, poolOwn>>

LoadNext ==
  \/ Task \/ Peer \/ Circumstances
  \/ pc = "done" /\ UNCHANGED allVars

(* The peer of either sort of connection reacts. *)
Reacts ==
  \/ kind \in Raw!Kinds /\ Raw!RawPeerReacts /\ UNCHANGED poolOwn
  \/ kind \notin Raw!Kinds /\ PeerReacts /\ UNCHANGED <<kind, rawOwn, poolOwn>>

(* As for the hyper client: the runtime polls a task that is ready, a peer *)
(* reacts, and time passes.                                                *)
LoadFairness ==
  /\ WF_allVars(Task)
  /\ WF_allVars(Reacts)
  /\ WF_allVars(DeadlinePasses /\ UNCHANGED <<kind, rawOwn, poolOwn>>)

LoadSpec == LoadInit /\ [][LoadNext]_allVars /\ LoadFairness
-----------------------------------------------------------------------------
(* Every attempt is recorded under one outcome, except that a raw client   *)
(* records nothing for an end of file; and only the chunked client records *)
(* more than its attempts, one error per connection at most.               *)
LedgerBalances ==
  /\ total <= Recorded(stats) + eofs
  /\ Recorded(stats) + eofs <=
       total + (IF kind = "hyper-chunked" THEN stats.conn ELSE 0)
  /\ eofs > 0 => kind \in Raw!Kinds

(* A raw client counts, for each request, the response to that request, in *)
(* whatever pieces it arrives and however connections break off before it: *)
(* only a peer that sends more responses than it was asked for shifts them.*)
RepliesMatch ==
  /\ misread => extras > 0
  /\ Answered(stats) <= served + extras

(* --rpc bounds the requests of a connection for all but hyper-rt1 (which  *)
(* ignores it) and the redirects of reqwest.  A connection whose peer was  *)
(* told to close carries no other request of the task.                     *)
PerConnection ==
  /\ kind \notin {"hyper-rt1", "reqwest"} => onConn <= Most
  /\ kind = "hyper-chunked" => (closing <=> onConn = Most)
  /\ closing /\ pc = "send" => link # "up"

(* Each task keeps the promises of a Worker, if the ends of file of a raw  *)
(* client are put down as errors.                                          *)
LW == INSTANCE Worker WITH
        attempts <- total, ok <- stats.ok, fail <- stats.fail,
        err <- stats.err + eofs, running <- (pc # "done"), deadline <- expired

LoadImplementsWorker == LW!Spec
=============================================================================
