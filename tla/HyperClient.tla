---------------------------- MODULE HyperClient ----------------------------
(***************************************************************************)
(* One load task of the `hyper` client (src/client/hyper.rs).              *)
(*                                                                         *)
(*    loop --BeginDial--> dial --DialOk--> send --SendRequest--> reply     *)
(*      ^                  |                 ^                     |       *)
(*      +----- failures ---+                 +--ReadyOk-- ready <--+       *)
(***************************************************************************)
EXTENDS ClientTask
-----------------------------------------------------------------------------
AfterReplyMut(n) == IF IsLast(connReq) THEN "loop" ELSE "ready"
(* Where the task goes once a response is recorded. *)
AfterReply(n) ==
  IF ShouldStop(n) THEN "done" ELSE IF IsLast(connReq) THEN "loop" ELSE "ready"

ReceiveReply(code) ==
  /\ Receive(code, AfterReply(total + 1))
  /\ UNCHANGED <<generation, sniDials>>

(* The other ends of tokio::select! between sender.ready() and the         *)
(* connection task: both reconnect, one of them with an error.             *)
ReadyError ==
  /\ pc = "ready" /\ link = "down"
  /\ stats' = SetError(stats)
  /\ pc' = "loop"
  /\ DropConnection
  /\ UNCHANGED <<total, connReq, target, generation, expired, onConn, closing,
                 served, histVars>>

ConnTaskEnded ==
  /\ pc = "ready" /\ link = "down"
  /\ pc' = "loop"
  /\ DropConnection
  /\ UNCHANGED <<total, connReq, target, generation, stats, expired, onConn,
                 closing, served, histVars>>

Reply == (\E code \in Status : ReceiveReply(code)) \/ ReplyError
Ready == ReadyOk \/ ReadyError \/ ConnTaskEnded

Next ==
  \/ Stop \/ BeginDial \/ Dial \/ SendRequest \/ Reply \/ Ready
  \/ Environment \/ Returned

(* The runtime polls a task whose future is ready; a connect succeeds or   *)
(* fails; a peer that holds a request answers it or goes away; time passes.*)
(* No client has a timeout: without the third assumption a task waits for  *)
(* its reply for ever.                                                     *)
Fairness ==
  /\ WF_vars(Stop) /\ WF_vars(BeginDial) /\ WF_vars(Dial)
  /\ WF_vars(SendRequest) /\ WF_vars(Reply) /\ WF_vars(Ready)
  /\ WF_vars(PeerReacts) /\ WF_vars(DeadlinePasses)

Spec == Init /\ [][Next]_vars /\ Fairness
-----------------------------------------------------------------------------
(* The parts of the inductive invariant behind the properties.             *)
Connected == pc \in {"send", "reply", "ready"}

LedgerInv ==
  /\ total <= Recorded(stats)
  /\ Recorded(stats) + (IF Connected THEN 1 ELSE 0) <= total + stats.conn
  /\ stats.err + (IF pc = "ready" THEN 1 ELSE 0) <= total
  /\ stats.conn <= total + (IF pc \in {"send", "reply"} THEN 1 ELSE 0)

BudgetInv ==
  /\ issued <= total + (IF pc = "reply" THEN 1 ELSE 0)
  /\ \A m \in Requests :
       /\ total <= m
       /\ pc \in {"dial", "send", "reply", "ready"} => total < m
  /\ pc = "done" => ShouldStop(total)
  /\ late = 0 \/ (late = 1 /\ expired /\ pc \in {"reply", "loop", "done"})

ConnectionInv ==
  /\ pc # "reply" => wire = "quiet"
  /\ link # "none" => Connected
  /\ pc \in {"send", "ready"} => onConn = connReq /\ connReq < Most
  /\ pc = "reply" /\ wire # "quiet" => onConn = connReq

RotationInv ==
  /\ Turns(sentTo, Targets, Global % Targets, target)
  /\ Turns(sniDials, Names, Global % Names, SniIndex(generation))

IInv ==
  /\ TypeOK /\ LedgerInv /\ ResponsesCounted /\ BudgetInv /\ ConnectionInv
  /\ ClosesOnLast /\ RotationInv
=============================================================================
