--------------------------- MODULE H2ClientProofs ---------------------------
(***************************************************************************)
(* The accounts of the hyper-h2 task, for every budget, --rpc, number of   *)
(* hosts and server names, with and without a body and -m.  What makes     *)
(* them hold is that an outcome beyond the attempts is paid for by a       *)
(* connection: it is recorded where the task gives its connection up, and  *)
(* a connection that a reconnect in place replaces has not used its own.   *)
(***************************************************************************)
EXTENDS H2Client, TaskProofs

USE TaskAssumption, H2Assumption DEF TaskAssumption, H2Assumption

(* Where the task is in the middle of a connection. *)
OnConnection == {"send", "ready", "hand", "upload", "reply", "redial"}

(* Where a request has been issued and its attempt is not over. *)
InFlight == {"upload", "reply", "body", "panicked"}

H2Points == Points \cup {"hand", "upload", "body"}

(* The types; a request is outstanding from its head to its answer only.   *)
H2Types ==
  /\ pc \in H2Points
  /\ total \in Nat /\ stats \in Stats /\ expired \in BOOLEAN
  /\ wire \in {"quiet", "request", "response"}
  /\ served \in Nat /\ issued \in Nat /\ late \in Nat
  /\ wire # "quiet" => pc \in {"upload", "reply", "panicked"}

(* The ledger: the head of a 200 is recorded before its attempt is over,   *)
(* and a connection may yet have its extra error.                          *)
H2Ledger ==
  /\ total + (IF pc = "body" THEN 1 ELSE 0) <= Recorded(stats)
  /\ Recorded(stats) + (IF pc \in OnConnection THEN 1 ELSE 0)
       <= total + stats.conn

(* Budget and deadline: a check comes before every request.                *)
H2Budget ==
  /\ issued <= total + (IF pc \in InFlight THEN 1 ELSE 0)
  /\ \A m \in Requests :
       /\ total <= m
       /\ pc \notin {"loop", "done"} => total < m
  /\ pc = "done" => ShouldStop(total)
  /\ late <= (IF pc \in InFlight \cup {"loop", "done"} THEN 1 ELSE 0)
  /\ late > 0 => expired

H2Inv == H2Types /\ H2Ledger /\ ResponsesCounted /\ H2Budget
-----------------------------------------------------------------------------
(* Where a step leads, and what it records: each action by its outcome.    *)
LEMMA Concludes ==
  ASSUME Conclude
  PROVE  /\ total' = total + 1 /\ pc' \in {"done", "redial", "send"}
         /\ pc' = "done" <=> ShouldStop(total + 1)
BY DEF Conclude, AfterReply

LEMMA NextH2Types == H2Types /\ [H2Next]_h2vars => H2Types'
<1> SUFFICES ASSUME H2Types, [H2Next]_h2vars PROVE H2Types'
  OBVIOUS
<1> USE DEF H2Types, H2Points, Points
<1>1. CASE Connect
  <2>1. CASE Stop
    BY <2>1 DEF Stop, netVars, histVars
  <2>2. CASE BeginDial
    BY <2>2 DEF BeginDial, PickName, netVars
  <2>3. CASE DialOk
    BY <2>3, StatsTypes DEF DialOk, NewConnection
  <2>4. CASE DialFail
    BY <2>4, StatsTypes DEF DialFail, FailAttempt, netVars, histVars
  <2> QED BY <1>1, <2>1, <2>2, <2>3, <2>4 DEF Connect, Dial
<1>2. CASE Prepare
  BY <1>2 DEF Prepare, netVars, histVars
<1>3. CASE ReadyForStream
  BY <1>3 DEF ReadyForStream, netVars, histVars
<1>4. CASE ReadyError
  BY <1>4, StatsTypes DEF ReadyError, DropConnection, histVars
<1>5. CASE SendHead
  BY <1>5 DEF SendHead, HandOver, Issue
<1>6. CASE SendRefused
  BY <1>6, StatsTypes DEF SendRefused, FailAttempt, DropConnection, histVars
<1>7. CASE Upload
  BY <1>7 DEF Upload, netVars, histVars
<1>8. ASSUME NEW code \in Status, ReceiveHead(code) PROVE H2Types'
  <2>1. (pc' = "body" /\ total' = total) \/ Conclude
    BY <1>8 DEF ReceiveHead
  <2>2. SetHttpStatus(stats, code) \in Stats
    BY StatsTypes
  <2> QED BY <1>8, <2>1, <2>2, Concludes DEF ReceiveHead
<1>9. CASE BodyEnds
  BY <1>9, Concludes DEF BodyEnds
<1>10. CASE StreamError
  BY <1>10, StatsTypes DEF StreamError, FailAttempt, DropConnection, histVars
<1>11. CASE RedialOk
  BY <1>11 DEF RedialOk, NewConnection
<1>12. CASE RedialFail
  BY <1>12, StatsTypes DEF RedialFail, FailAttempt, netVars, histVars
<1>13. CASE PeerAnswers
  BY <1>13 DEF PeerAnswers, taskVars, histVars
<1>14. CASE LinkLost
  BY <1>14 DEF LinkLost, taskVars, histVars
<1>15. CASE DeadlinePasses
  BY <1>15 DEF DeadlinePasses, taskVars, netVars, histVars
<1>16. CASE UNCHANGED h2vars
  BY <1>16 DEF h2vars, vars, taskVars, netVars, histVars
<1> QED
  BY <1>1, <1>2, <1>3, <1>4, <1>5, <1>6, <1>7, <1>8, <1>9, <1>10, <1>11, <1>12,
     <1>13, <1>14, <1>15, <1>16
     DEF H2Next, Ready, Send, Reply, Redial, LinkLostH2, Halted

(* An outcome is recorded with its attempt or paid for by the connection.  *)
LEMMA NextH2Ledger == H2Types /\ H2Ledger /\ [H2Next]_h2vars => H2Ledger'
<1> SUFFICES ASSUME H2Types, H2Ledger, [H2Next]_h2vars PROVE H2Ledger'
  OBVIOUS
<1>a. stats \in Stats /\ total \in Nat
  BY DEF H2Types
<1>b. stats.conn \in Nat /\ stats.err \in Nat /\ Answered(stats) \in Nat
  BY <1>a, StatsCounts
<1>c. \A s : Recorded(s) = Answered(s) + s.err
  BY DEF Recorded, Answered
<1> USE <1>a, <1>b, <1>c DEF H2Ledger, OnConnection
<1>1. CASE UNCHANGED <<stats, total, pc>>
  BY <1>1
<1>2. CASE Stop \/ BeginDial \/ Prepare \/ ReadyForStream \/ SendHead \/ Upload \/ RedialOk
  <2>1. /\ UNCHANGED <<stats, total>> /\ pc # "body" /\ pc' # "body"
        /\ pc' \in OnConnection => pc \in OnConnection
    BY <1>2 DEF Stop, BeginDial, Prepare, ReadyForStream, SendHead, Upload, RedialOk
  <2> QED BY <2>1
<1>3. CASE DialOk
  BY <1>3, StatsCounts DEF DialOk
<1>4. CASE DialFail \/ SendRefused \/ StreamError \/ RedialFail
  BY <1>4, StatsCounts DEF DialFail, SendRefused, StreamError, RedialFail, FailAttempt
<1>5. CASE ReadyError
  BY <1>5, StatsCounts DEF ReadyError
<1>6. ASSUME NEW code \in Status, ReceiveHead(code) PROVE H2Ledger'
  <2>1. /\ stats'.conn = stats.conn /\ stats'.err = stats.err
        /\ Answered(stats') = Answered(stats) + 1 /\ pc = "reply"
    BY <1>6, StatsCounts DEF ReceiveHead
  <2>2. (pc' = "body" /\ total' = total) \/ Conclude
    BY <1>6 DEF ReceiveHead
  <2> QED BY <2>1, <2>2, Concludes
<1>7. CASE BodyEnds
  BY <1>7, Concludes DEF BodyEnds
<1> QED
  BY <1>1, <1>2, <1>3, <1>4, <1>5, <1>6, <1>7
     DEF H2Next, Connect, Dial, Ready, Send, Reply, Redial, LinkLostH2, Halted,
         PeerAnswers, LinkLost, DeadlinePasses, h2vars, vars, taskVars

(* Every status the peer sent is counted, and none twice.                  *)
LEMMA NextH2Responses ==
  H2Types /\ ResponsesCounted /\ [H2Next]_h2vars => ResponsesCounted'
<1> SUFFICES ASSUME H2Types, ResponsesCounted, [H2Next]_h2vars
             PROVE  ResponsesCounted'
  OBVIOUS
<1>a. /\ stats \in Stats /\ served \in Nat
      /\ wire # "quiet" => pc \in {"upload", "reply", "panicked"}
  BY DEF H2Types
<1>b. stats.err \in Nat /\ Answered(stats) \in Nat
  BY <1>a, StatsCounts
<1>c. \A s : Recorded(s) = Answered(s) + s.err
  BY DEF Recorded, Answered
<1> USE <1>a, <1>b, <1>c DEF ResponsesCounted
<1>1. CASE UNCHANGED <<stats, wire, served>>
  BY <1>1
<1>2. CASE DialOk \/ RedialOk
  BY <1>2, StatsCounts DEF DialOk, RedialOk, NewConnection
<1>3. CASE DialFail \/ RedialFail
  BY <1>3, StatsCounts DEF DialFail, RedialFail, FailAttempt, netVars
<1>4. CASE SendHead
  BY <1>4 DEF SendHead, HandOver
<1>5. ASSUME NEW code \in Status, ReceiveHead(code) PROVE ResponsesCounted'
  BY <1>5, StatsCounts DEF ReceiveHead
<1>6. CASE SendRefused \/ StreamError
  BY <1>6, StatsCounts DEF SendRefused, StreamError, FailAttempt, DropConnection
<1>7. CASE ReadyError
  BY <1>7, StatsCounts DEF ReadyError, DropConnection
<1>8. CASE PeerAnswers
  BY <1>8 DEF PeerAnswers, taskVars
<1> QED
  BY <1>1, <1>2, <1>3, <1>4, <1>5, <1>6, <1>7, <1>8
     DEF H2Next, Connect, Dial, Ready, Send, Reply, Redial, LinkLostH2, Halted,
         Stop, BeginDial, Prepare, ReadyForStream, Upload, BodyEnds,
         LinkLost, DeadlinePasses, h2vars, vars, taskVars, netVars

(* A request is issued only after a check of budget and deadline.          *)
LEMMA NextH2Budget == H2Types /\ H2Budget /\ [H2Next]_h2vars => H2Budget'
<1> SUFFICES ASSUME H2Types, H2Budget, [H2Next]_h2vars PROVE H2Budget'
  OBVIOUS
<1>a. total \in Nat /\ issued \in Nat /\ late \in Nat /\ Requests \subseteq Nat
      /\ expired \in BOOLEAN
  BY DEF H2Types
<1> USE <1>a DEF H2Budget, ShouldStop, InFlight
<1>1. CASE UNCHANGED <<total, issued, late, expired, pc>>
  BY <1>1
<1>2. CASE Stop \/ BeginDial
  BY <1>2 DEF Stop, BeginDial, PickName, histVars
<1>3. CASE DialOk \/ Prepare \/ ReadyForStream \/ RedialOk
  BY <1>3 DEF DialOk, Prepare, ReadyForStream, RedialOk, NewConnection, histVars
<1>4. CASE DialFail \/ SendRefused \/ StreamError \/ RedialFail
  BY <1>4 DEF DialFail, SendRefused, StreamError, RedialFail, FailAttempt, histVars
<1>5. CASE ReadyError
  BY <1>5 DEF ReadyError, histVars
<1>6. CASE SendHead
  BY <1>6 DEF SendHead, Issue
<1>7. CASE Upload
  BY <1>7 DEF Upload, histVars
<1>8. ASSUME pc \in {"reply", "body"}, Conclude, UNCHANGED <<issued, late, expired>>
      PROVE  H2Budget'
  BY <1>8, Concludes
<1>9. ASSUME NEW code \in Status, ReceiveHead(code) PROVE H2Budget'
  <2>1. /\ pc = "reply" /\ UNCHANGED <<issued, late, expired>>
        /\ ((pc' = "body" /\ total' = total) \/ Conclude)
    BY <1>9 DEF ReceiveHead
  <2> QED BY <2>1, <1>8
<1>10. CASE BodyEnds
  BY <1>8, <1>10 DEF BodyEnds
<1>11. CASE DeadlinePasses
  BY <1>11 DEF DeadlinePasses, taskVars, histVars
<1> QED
  BY <1>1, <1>2, <1>3, <1>4, <1>5, <1>6, <1>7, <1>9, <1>10, <1>11
     DEF H2Next, Connect, Dial, Ready, Send, Reply, Redial, LinkLostH2, Halted,
         PeerAnswers, LinkLost, h2vars, vars, taskVars, histVars
-----------------------------------------------------------------------------
LEMMA InitH2Inv == H2Init => H2Inv
<1> SUFFICES ASSUME H2Init PROVE H2Inv
  OBVIOUS
<1>1. NewStats \in Stats /\ Recorded(NewStats) = 0 /\ Answered(NewStats) = 0
      /\ NewStats.conn = 0
  BY DEF NewStats, Stats, Recorded, Answered
<1>2. H2Types
  BY <1>1 DEF H2Init, Init, H2Types, H2Points, Points
<1>3. H2Ledger /\ ResponsesCounted
  BY <1>1 DEF H2Init, Init, H2Ledger, OnConnection, ResponsesCounted
<1>4. H2Budget
  BY DEF H2Init, Init, H2Budget, InFlight
<1> QED BY <1>2, <1>3, <1>4 DEF H2Inv

LEMMA H2Invariance == Spec => []H2Inv
<1>1. H2Inv /\ [H2Next]_h2vars => H2Inv'
  BY NextH2Types, NextH2Ledger, NextH2Responses, NextH2Budget DEF H2Inv
<1> QED BY <1>1, InitH2Inv, PTL DEF Spec

(* The accounts of the h2 task: attempts and outcomes, responses, budget   *)
(* and deadline.                                                           *)
THEOREM H2KeepsPromises == Spec => []H2Promises
<1>1. H2Inv => H2Promises
  <2> SUFFICES ASSUME H2Inv PROVE H2Promises
    OBVIOUS
  <2>a. /\ stats \in Stats /\ total \in Nat /\ issued \in Nat /\ late \in Nat
        /\ stats.conn \in Nat /\ Recorded(stats) \in Nat
    BY StatsCounts DEF H2Inv, H2Types
  <2>1. AttemptsRecorded
    BY <2>a DEF H2Inv, H2Ledger, AttemptsRecorded
  <2>2. BudgetRespected
    <3> SUFFICES ASSUME NEW m \in Requests
                 PROVE  /\ issued <= m /\ total <= m
                        /\ pc = "done" /\ ~expired => total = m
      BY DEF BudgetRespected
    <3>1. m \in Nat /\ \A n \in Requests : n = m
      OBVIOUS
    <3>2. /\ issued <= total + (IF pc \in InFlight THEN 1 ELSE 0)
          /\ total <= m /\ (pc \in InFlight => total < m)
          /\ pc = "done" => (\E n \in Requests : total >= n) \/ expired
      BY DEF H2Inv, H2Budget, ShouldStop, InFlight
    <3> QED BY <2>a, <3>1, <3>2
  <2>3. OneLateRequest
    BY <2>a DEF H2Inv, H2Budget, OneLateRequest
  <2> QED BY <2>1, <2>2, <2>3 DEF H2Inv, H2Promises
<1> QED BY <1>1, H2Invariance, PTL
=============================================================================
