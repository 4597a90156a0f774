--------------------------- MODULE ChunkedClient ---------------------------
(***************************************************************************)
(* One load task of the `hyper-chunked` client                             *)
(* (src/client/hyper_chunked.rs).  Its loop is that of `hyper` but for two *)
(* things: the last request of a connection is followed by a reconnect in  *)
(* place, which does not go through the head of the loop, and an error of  *)
(* `ready` is recorded without giving the connection up, so that the next  *)
(* request is sent on a dead connection.                                   *)
(*                                                                         *)
(*    loop --BeginDial--> dial --DialOk--> send --SendRequest--> reply     *)
(*      ^                                   ^  ^                  |   |    *)
(*      +--RedialFail-- redial --RedialOk---+  +---Ready-- ready <+   |    *)
(*                        ^-------------------------------------------+    *)
(***************************************************************************)
EXTENDS ClientTask
-----------------------------------------------------------------------------
(* The head of the loop is the one of ClientTask. *)
Connect == Stop \/ BeginDial \/ Dial

SendChunks == SendRequest

AfterReplyMut(n) == IF IsLast(connReq) THEN "redial" ELSE "ready"
(* Where the task goes once a response is recorded. *)
AfterReply(n) ==
  IF ShouldStop(n) THEN "done"
  ELSE IF IsLast(connReq) THEN "redial" ELSE "ready"

ReceiveReplyMut(code) ==
  /\ Receive(code, AfterReply(total + 1))
  /\ IF pc' = "redial"
     THEN /\ generation' = generation + 1
          /\ sniDials' = [sniDials EXCEPT ![SniIndex(generation - 1)] = @ + 1]
     ELSE UNCHANGED <<generation, sniDials>>
(* After the last request the old connection is dropped and the next       *)
(* server name is picked before the task awaits its new connection.        *)
ReceiveReply(code) ==
  /\ Receive(code, AfterReply(total + 1))
  /\ IF pc' = "redial" THEN PickName ELSE UNCHANGED <<generation, sniDials>>

(* The reconnect in place: inc_conn is not called. *)
RedialOk ==
  /\ pc = "redial"
  /\ pc' = "send"
  /\ connReq' = 0
  /\ NewConnection
  /\ UNCHANGED <<total, target, generation, stats, expired, served, issued,
                 late, sentTo, sniDials>>

RedialFail ==
  /\ pc = "redial"
  /\ pc' = "loop"
  /\ FailAttempt
  /\ UNCHANGED <<connReq, target, generation, expired, netVars, histVars>>

(* ready() failed: recorded, and the dead connection is used once more. *)
ReadyErrorMut ==
  /\ pc = "ready" /\ link = "down" /\ stats.err < 9
  /\ stats' = SetError(stats)
  /\ UNCHANGED <<pc, total, connReq, target, generation, expired, netVars,
                 histVars>>
ReadyError ==
  /\ pc = "ready" /\ link = "down"
  /\ stats' = SetError(stats)
  /\ pc' = "send"
  /\ UNCHANGED <<total, connReq, target, generation, expired, netVars,
                 histVars>>

Reply == (\E code \in Status : ReceiveReply(code)) \/ ReplyError
Redial == RedialOk \/ RedialFail
Ready == ReadyOk \/ ReadyError

Next ==
  \/ Connect \/ SendChunks \/ Reply \/ Redial \/ Ready
  \/ Environment \/ Returned

(* As for the hyper client. *)
Fairness ==
  /\ WF_vars(Connect) /\ WF_vars(SendChunks) /\ WF_vars(Reply)
  /\ WF_vars(Redial) /\ WF_vars(Ready)
  /\ WF_vars(PeerReacts) /\ WF_vars(DeadlinePasses)

Spec == Init /\ [][Next]_vars /\ Fairness
=============================================================================
