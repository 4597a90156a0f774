------------------------------ MODULE H2Client ------------------------------
(***************************************************************************)
(* One load task of the `hyper-h2` client (src/client/hyper_h2.rs), which  *)
(* drives the h2 crate directly.  What sets it apart from `hyper`:         *)
(*                                                                         *)
(*  - the request is counted and its target taken before `ready` is        *)
(*    awaited, so a connection lost there costs a target and no attempt;   *)
(*  - a 200 is counted at its head, an error of its body is one more       *)
(*    outcome of the same attempt;                                         *)
(*  - there is no "Connection: close"; the last request of a connection is *)
(*    followed by a reconnect in place, with the server name picked for    *)
(*    the first connection;                                                *)
(*  - a stream that dies under the request body panics the task.           *)
(*                                                                         *)
(*    loop -> dial -> send -> ready -> hand -> upload -> reply -> body     *)
(*                     ^                                   |        |      *)
(*                     +---- (redial, after the last) -----+--------+      *)
(***************************************************************************)
EXTENDS ClientTask

CONSTANTS
  MultiThread,  \* -m: the connection's task runs on another thread
  HasBody,      \* -B or --trailer: the request carries a body
  Unstable      \* bound: connections the peer may break

ASSUME H2Assumption ==
  MultiThread \in BOOLEAN /\ HasBody \in BOOLEAN /\ Unstable \in Nat

VARIABLES
  sni           \* the server name used for the current connection

h2vars == <<vars, sni>>


(* The target of the request in hand: the one before target_idx. *)
InHand == IF target = 0 THEN Targets - 1 ELSE target - 1

H2Init == Init /\ sni = SniIndex(0)
-----------------------------------------------------------------------------
(* The head of the loop is the one of ClientTask. *)
Connect ==
  \/ (Stop \/ Dial) /\ UNCHANGED sni
  \/ BeginDial /\ sni' = SniIndex(generation)

(* conn_req_count and target_idx advance before ready is awaited. *)
Prepare ==
  /\ pc = "send" /\ TimeAllows
  /\ pc' = "ready"
  /\ connReq' = connReq + 1
  /\ target' = NextTarget(target)
  /\ UNCHANGED <<total, generation, stats, expired, netVars, histVars, sni>>

(* The connection has room for one more stream. *)
ReadyForStream ==
  /\ pc = "ready" /\ link = "up"
  /\ pc' = "hand"
  /\ UNCHANGED <<total, connReq, target, generation, stats, expired, netVars,
                 histVars, sni>>

(* ready() failed: an error, but no attempt. *)
ReadyError ==
  /\ pc = "ready" /\ Broken
  /\ stats' = SetError(stats)
  /\ pc' = "loop"
  /\ DropConnection
  /\ UNCHANGED <<total, connReq, target, generation, expired, onConn, closing,
                 served, histVars, sni>>

(* send_request opens a stream ... *)
SendHead ==
  /\ pc = "hand" /\ link = "up"
  /\ pc' = IF HasBody THEN "upload" ELSE "reply"
  /\ HandOver(FALSE)
  /\ Issue(InHand)
  /\ UNCHANGED <<total, connReq, target, generation, stats, expired, link,
                 served, sniDials, made, sni>>

(* ... or finds the connection gone since ready. *)
SendRefused ==
  /\ pc = "hand" /\ Broken
  /\ FailAttempt
  /\ pc' = "loop"
  /\ DropConnection
  /\ UNCHANGED <<connReq, target, generation, expired, onConn, closing, served,
                 histVars, sni>>

(* send_data and send_trailers are unwrapped: on a dead stream the task    *)
(* panics and its statistics are lost with it.                             *)
Upload ==
  /\ pc = "upload"
  /\ pc' = IF link = "up" THEN "reply" ELSE "panicked"
  /\ UNCHANGED <<total, connReq, target, generation, stats, expired, netVars,
                 histVars, sni>>
-----------------------------------------------------------------------------
AfterReplyMut(n) == IF IsLast(connReq) THEN "redial" ELSE "send"
(* Where the task goes once an attempt is over. *)
AfterReply(n) ==
  IF ShouldStop(n) THEN "done"
  ELSE IF IsLast(connReq) THEN "redial" ELSE "send"

(* The attempt is over; after the last one of a connection the next one is *)
(* made with the server name of the old one.                               *)
Conclude ==
  /\ total' = total + 1
  /\ pc' = AfterReply(total + 1)
  /\ link' = IF pc' = "send" THEN link ELSE "none"
  /\ IF pc' = "redial"
     THEN /\ generation' = generation + 1
          /\ sniDials' = [sniDials EXCEPT ![sni] = @ + 1]
     ELSE UNCHANGED <<generation, sniDials>>

(* The head of the response: only a 200 has its body read. *)
ReceiveHead(code) ==
  /\ pc = "reply" /\ wire = "response"
  /\ stats' = SetHttpStatus(stats, code)
  /\ wire' = "quiet"
  /\ IF code = 200
     THEN /\ pc' = "body"
          /\ UNCHANGED <<total, link, generation, sniDials>>
     ELSE Conclude
  /\ UNCHANGED <<connReq, target, expired, onConn, closing, served, issued,
                 late, sentTo, made, sni>>

(* The body ended; what was received before a loss is still delivered. *)
BodyEnds ==
  /\ pc = "body"
  /\ Conclude
  /\ UNCHANGED <<connReq, target, stats, expired, wire, onConn, closing,
                 served, issued, late, sentTo, made, sni>>

(* The response or its body failed. *)
StreamError ==
  /\ pc \in {"reply", "body"} /\ Broken
  /\ FailAttempt
  /\ pc' = "loop"
  /\ DropConnection
  /\ UNCHANGED <<connReq, target, generation, expired, onConn, closing,
                 served, histVars, sni>>

(* The reconnect in place: inc_conn is not called. *)
RedialOk ==
  /\ pc = "redial"
  /\ pc' = "send"
  /\ connReq' = 0
  /\ NewConnection
  /\ UNCHANGED <<total, target, generation, stats, expired, served, issued,
                 late, sentTo, sniDials, sni>>

RedialFail ==
  /\ pc = "redial"
  /\ pc' = "loop"
  /\ FailAttempt
  /\ UNCHANGED <<connReq, target, generation, expired, netVars, histVars, sni>>
-----------------------------------------------------------------------------
(* The connection runs as a task of its own.  On a single thread it cannot *)
(* run between two calls that do not await; with -m it can.  The peer may  *)
(* break connections up to the Unstable-th.                                *)
LinkLostH2 ==
  /\ generation <= Unstable
  /\ MultiThread \/ pc \notin {"hand", "upload"}
  /\ LinkLost
  /\ UNCHANGED sni

PeerReactsH2 ==
  \/ PeerAnswers /\ UNCHANGED sni
  \/ wire = "request" /\ LinkLostH2

Ended == pc \in {"done", "panicked"}
Halted == Ended /\ UNCHANGED h2vars

Ready == ReadyForStream \/ ReadyError
Send == SendHead \/ SendRefused \/ Upload
Reply == (\E code \in Status : ReceiveHead(code)) \/ BodyEnds \/ StreamError
Redial == RedialOk \/ RedialFail

H2Next ==
  \/ Connect \/ Prepare \/ Ready \/ Send \/ Reply \/ Redial
  \/ (PeerAnswers \/ DeadlinePasses) /\ UNCHANGED sni
  \/ LinkLostH2 \/ Halted

(* As for the hyper client; the peer, once it has sent the head of a 200,  *)
(* ends its body or goes away.                                             *)
Fairness ==
  /\ WF_h2vars(Connect) /\ WF_h2vars(Prepare) /\ WF_h2vars(Ready)
  /\ WF_h2vars(Send) /\ WF_h2vars(Reply) /\ WF_h2vars(Redial)
  /\ WF_h2vars(PeerReactsH2)
  /\ WF_h2vars(DeadlinePasses /\ UNCHANGED sni)

Spec == H2Init /\ [][H2Next]_h2vars /\ Fairness
-----------------------------------------------------------------------------
(* The accounts of the h2 task, whose attempts have more ways to end than   *)
(* those of hyper: no attempt is without its outcome or has a third one,   *)
(* every status the peer sent is counted, the budget is neither exceeded   *)
(* nor left before the deadline, and one request at most is late.          *)
H2Promises ==
  /\ AttemptsRecorded
  /\ ResponsesCounted
  /\ BudgetRespected
  /\ OneLateRequest

(* The task is over at some time: it returns, or a request body that loses *)
(* its stream panics it.                                                   *)
Ends == <>Ended
=============================================================================
