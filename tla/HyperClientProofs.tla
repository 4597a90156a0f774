-------------------------- MODULE HyperClientProofs -------------------------
(***************************************************************************)
(* The safety properties of the hyper client, for every budget, --rpc,     *)
(* number of hosts and of server names: IInv is proved inductive part by   *)
(* part; a part uses the parts before it.  Then the greeting and the calls *)
(* of the MCP client, for every list of tools and transport: between the   *)
(* messages of its greeting it is a hyper client that stands still.        *)
(***************************************************************************)
EXTENDS McpClient, TaskProofs, SequenceTheorems

USE TaskAssumption DEF TaskAssumption

(* A step of the task, whatever the status of a response: the MCP client   *)
(* receives its responses in the same way, and maps their status first.    *)
AnyStep == Next \/ \E code \in Nat : ReceiveReply(code)

(* The type invariant is preserved by every step.                          *)
LEMMA NextTypeOK == TypeOK /\ [AnyStep]_vars => TypeOK'
<1> SUFFICES ASSUME TypeOK, [AnyStep]_vars PROVE TypeOK'
  OBVIOUS
<1>1. CASE \/ Stop \/ BeginDial \/ Dial \/ SendRequest \/ ReplyError \/ ReadyOk
           \/ Environment \/ UNCHANGED vars
  BY <1>1, SharedTypeOK
<1>2. ASSUME NEW code \in Nat, ReceiveReply(code) PROVE TypeOK'
  <2>1. AfterReply(total + 1) \in Points
    BY DEF AfterReply, Points
  <2> QED BY <1>2, <2>1, ReceiveTypeOK DEF ReceiveReply
<1>3. CASE ReadyError
  BY <1>3, StatsTypes DEF ReadyError, DropConnection, histVars, TypeOK, Points
<1>4. CASE ConnTaskEnded
  BY <1>4 DEF ConnTaskEnded, DropConnection, histVars, TypeOK, Points
<1> QED
  BY <1>1, <1>2, <1>3, <1>4 DEF AnyStep, Next, Reply, Ready, Returned

-----------------------------------------------------------------------------
(* The shape of the conversation with the peer: nothing is outstanding     *)
(* while the task is not waiting for a reply, and the peer has received    *)
(* what the task has sent.                                                 *)
LEMMA NextConnection ==
  TypeOK /\ ConnectionInv /\ [AnyStep]_vars => ConnectionInv'
<1> SUFFICES ASSUME TypeOK, ConnectionInv, [AnyStep]_vars PROVE ConnectionInv'
  OBVIOUS
<1> USE DEF ConnectionInv, Connected, Most
<1>1. CASE Stop
  BY <1>1 DEF Stop, netVars
<1>2. CASE BeginDial
  BY <1>2 DEF BeginDial, PickName, netVars
<1>3. CASE DialOk
  BY <1>3 DEF DialOk, NewConnection
<1>4. CASE DialFail
  BY <1>4 DEF DialFail, FailAttempt, netVars
<1>5. CASE SendRequest
  BY <1>5 DEF SendRequest, HandOver, Issue, TypeOK
<1>6. ASSUME NEW code \in Nat, ReceiveReply(code) PROVE ConnectionInv'
  <2>1. CASE pc' = "ready"
    <3>1. ~IsLast(connReq)
      BY <1>6, <2>1 DEF ReceiveReply, Receive, AfterReply
    <3> QED BY <1>6, <2>1, <3>1 DEF ReceiveReply, Receive, IsLast, TypeOK
  <2>2. CASE pc' # "ready"
    BY <1>6, <2>2 DEF ReceiveReply, Receive, AfterReply
  <2> QED BY <2>1, <2>2
<1>7. CASE ReplyError
  BY <1>7 DEF ReplyError, FailAttempt, DropConnection
<1>8. CASE ReadyOk
  BY <1>8 DEF ReadyOk, netVars
<1>9. CASE ReadyError
  BY <1>9 DEF ReadyError, DropConnection
<1>10. CASE ConnTaskEnded
  BY <1>10 DEF ConnTaskEnded, DropConnection
<1>11. CASE PeerAnswers
  BY <1>11 DEF PeerAnswers, taskVars
<1>12. CASE LinkLost
  BY <1>12 DEF LinkLost, taskVars
<1>13. CASE DeadlinePasses
  BY <1>13 DEF DeadlinePasses, taskVars, netVars
<1>14. CASE UNCHANGED vars
  BY <1>14 DEF vars, taskVars, netVars
<1> QED
  BY <1>1, <1>2, <1>3, <1>4, <1>5, <1>6, <1>7, <1>8, <1>9, <1>10, <1>11,
     <1>12, <1>13, <1>14 DEF AnyStep, Next, Environment, Dial, Reply, Ready, Returned

(* "Connection: close" goes out exactly on the last request.               *)
LEMMA NextCloses ==
  TypeOK /\ ConnectionInv /\ ClosesOnLast /\ [AnyStep]_vars => ClosesOnLast'
<1> SUFFICES ASSUME TypeOK, ConnectionInv, ClosesOnLast, [AnyStep]_vars
             PROVE  ClosesOnLast'
  OBVIOUS
<1>1. Most \in Nat \ {0}
  BY DEF Most
<1>2. CASE DialOk
  BY <1>1, <1>2 DEF DialOk, NewConnection, ClosesOnLast, Most
<1>3. CASE SendRequest
  <2>1. CASE link = "up"
    <3>1. onConn = connReq /\ connReq < Most /\ connReq \in Nat
      BY <1>3 DEF SendRequest, HandOver, Issue, ConnectionInv, TypeOK
    <3>2. IsLast(connReq + 1) <=> connReq + 1 = Most
      BY <3>1 DEF IsLast, Most
    <3> QED BY <1>1, <1>3, <2>1, <3>1, <3>2 DEF SendRequest, HandOver, Issue, ClosesOnLast, Most
  <2>2. CASE link # "up"
    BY <1>3, <2>2 DEF SendRequest, HandOver, Issue, ClosesOnLast, Most
  <2> QED BY <2>1, <2>2
<1>4. CASE ~DialOk /\ ~SendRequest
  <2>1. UNCHANGED <<onConn, closing>>
    BY <1>4 DEF AnyStep, Next, Environment, Stop, BeginDial, PickName, Dial, DialFail, FailAttempt, Reply, ReceiveReply, Receive,
                ReplyError, Ready, ReadyOk, ReadyError, ConnTaskEnded,
                PeerAnswers, LinkLost, DeadlinePasses, Returned, vars, netVars
  <2> QED BY <2>1 DEF ClosesOnLast, Most
<1> QED BY <1>2, <1>3, <1>4

-----------------------------------------------------------------------------
(* The ledger: attempts against recorded outcomes, errors and connections. *)
LEMMA NextLedger == TypeOK /\ LedgerInv /\ [AnyStep]_vars => LedgerInv'
<1> SUFFICES ASSUME TypeOK, LedgerInv, [AnyStep]_vars PROVE LedgerInv'
  OBVIOUS
<1>a. stats \in Stats /\ total \in Nat
  BY DEF TypeOK
<1>b. stats.conn \in Nat /\ stats.err \in Nat /\ Answered(stats) \in Nat
  BY <1>a, StatsCounts
<1>c. \A s : Recorded(s) = Answered(s) + s.err
  BY DEF Recorded, Answered
<1> USE <1>a, <1>b, <1>c DEF LedgerInv, Connected
<1>1. CASE UNCHANGED stats /\ UNCHANGED total /\ pc' = pc
  BY <1>1
<1>2. CASE Stop \/ BeginDial \/ ReadyOk \/ ConnTaskEnded
  BY <1>2 DEF Stop, BeginDial, PickName, ReadyOk, ConnTaskEnded
<1>3. CASE DialOk
  BY <1>3, StatsCounts DEF DialOk, NewConnection
<1>4. CASE DialFail
  BY <1>4, StatsCounts DEF DialFail, FailAttempt
<1>5. CASE SendRequest
  BY <1>5 DEF SendRequest, HandOver, Issue
<1>6. ASSUME NEW code \in Nat, ReceiveReply(code) PROVE LedgerInv'
  <2>1. /\ stats'.conn = stats.conn /\ stats'.err = stats.err
        /\ Answered(stats') = Answered(stats) + 1
        /\ total' = total + 1 /\ pc = "reply" /\ pc' # "send" /\ pc' # "reply"
    BY <1>6, StatsCounts DEF ReceiveReply, Receive, AfterReply
  <2> QED BY <2>1
<1>7. CASE ReplyError
  BY <1>7, StatsCounts DEF ReplyError, FailAttempt
<1>8. CASE ReadyError
  BY <1>8, StatsCounts DEF ReadyError
<1> QED
  BY <1>1, <1>2, <1>3, <1>4, <1>5, <1>6, <1>7, <1>8
     DEF AnyStep, Next, Environment, Dial, Reply, Ready, Returned, PeerAnswers, LinkLost,
         DeadlinePasses, vars, taskVars

(* The peer's responses against the ok and status counts.                  *)
LEMMA NextResponses ==
  TypeOK /\ ConnectionInv /\ ResponsesCounted /\ [AnyStep]_vars
    => ResponsesCounted'
<1> SUFFICES ASSUME TypeOK, ConnectionInv, ResponsesCounted, [AnyStep]_vars
             PROVE  ResponsesCounted'
  OBVIOUS
<1>a. stats \in Stats /\ served \in Nat
  BY DEF TypeOK
<1>b. stats.err \in Nat /\ Answered(stats) \in Nat
  BY <1>a, StatsCounts
<1>c. \A s : Recorded(s) = Answered(s) + s.err
  BY DEF Recorded, Answered
<1> USE <1>a, <1>b, <1>c DEF ResponsesCounted
<1>1. CASE UNCHANGED <<stats, wire, served>>
  BY <1>1
<1>2. CASE DialOk
  BY <1>2, StatsCounts DEF DialOk, NewConnection, ConnectionInv
<1>3. CASE DialFail
  BY <1>3, StatsCounts DEF DialFail, FailAttempt, netVars
<1>4. CASE SendRequest
  BY <1>4 DEF SendRequest, HandOver, Issue, ConnectionInv
<1>5. ASSUME NEW code \in Nat, ReceiveReply(code) PROVE ResponsesCounted'
  BY <1>5, StatsCounts DEF ReceiveReply, Receive
<1>6. CASE ReplyError
  BY <1>6, StatsCounts DEF ReplyError, FailAttempt, DropConnection
<1>7. CASE ReadyError
  BY <1>7, StatsCounts DEF ReadyError, DropConnection, ConnectionInv
<1>8. CASE ConnTaskEnded
  BY <1>8 DEF ConnTaskEnded, DropConnection, ConnectionInv
<1>9. CASE PeerAnswers
  BY <1>9 DEF PeerAnswers, taskVars
<1> QED
  BY <1>1, <1>2, <1>3, <1>4, <1>5, <1>6, <1>7, <1>8, <1>9
     DEF AnyStep, Next, Environment, Dial, Reply, Ready, Returned, Stop, BeginDial, PickName, ReadyOk,
         LinkLost, DeadlinePasses, vars, taskVars, netVars

(* Budget and deadline: the check at the head of the loop, or after a      *)
(* reply, covers the one attempt that follows it.                          *)
LEMMA NextBudget == TypeOK /\ BudgetInv /\ [AnyStep]_vars => BudgetInv'
<1> SUFFICES ASSUME TypeOK, BudgetInv, [AnyStep]_vars PROVE BudgetInv'
  OBVIOUS
<1>a. total \in Nat /\ issued \in Nat /\ late \in Nat /\ Requests \subseteq Nat
  BY DEF TypeOK
<1>b. expired \in BOOLEAN
  BY DEF TypeOK
<1> USE <1>a, <1>b DEF BudgetInv, ShouldStop
<1>1. CASE UNCHANGED <<total, issued, late, expired, pc>>
  BY <1>1
<1>2. CASE Stop
  BY <1>2 DEF Stop, histVars
<1>3. CASE BeginDial
  BY <1>3 DEF BeginDial, PickName
<1>4. CASE DialOk
  BY <1>4 DEF DialOk, NewConnection, histVars
<1>5. CASE DialFail
  BY <1>5 DEF DialFail, FailAttempt, histVars
<1>6. CASE SendRequest
  BY <1>6 DEF SendRequest, HandOver, Issue
<1>7. ASSUME NEW code \in Nat, ReceiveReply(code) PROVE BudgetInv'
  <2>1. /\ pc = "reply" /\ total' = total + 1
        /\ UNCHANGED <<issued, late, expired>>
        /\ pc' \in {"done", "loop", "ready"}
        /\ (pc' = "done") <=> ShouldStop(total + 1)
    BY <1>7 DEF ReceiveReply, Receive, AfterReply, histVars
  <2> QED BY <2>1
<1>8. CASE ReplyError
  BY <1>8 DEF ReplyError, FailAttempt, histVars
<1>9. CASE ReadyOk \/ ReadyError \/ ConnTaskEnded
  BY <1>9 DEF ReadyOk, ReadyError, ConnTaskEnded, histVars
<1>10. CASE DeadlinePasses
  BY <1>10 DEF DeadlinePasses, taskVars, histVars
<1> QED
  BY <1>1, <1>2, <1>3, <1>4, <1>5, <1>6, <1>7, <1>8, <1>9, <1>10
     DEF AnyStep, Next, Environment, Dial, Reply, Ready, Returned, PeerAnswers, LinkLost,
         vars, taskVars, histVars

(* Targets and server names are taken in rounds.                           *)
LEMMA NextRotation == TypeOK /\ RotationInv /\ [AnyStep]_vars => RotationInv'
<1> SUFFICES ASSUME TypeOK, RotationInv, [AnyStep]_vars PROVE RotationInv'
  OBVIOUS
<1> DEFINE ForTargets == Turns(sentTo, Targets, Global % Targets, target)
           ForNames   == Turns(sniDials, Names, Global % Names,
                               SniIndex(generation))
<1>1. ForTargets /\ ForNames
  BY DEF RotationInv
<1>2. UNCHANGED <<target, sentTo>> => ForTargets'
  BY <1>1 DEF Turns, InRound
<1>3. UNCHANGED <<generation, sniDials>> => ForNames'
  BY <1>1 DEF Turns, InRound, SniIndex
<1>4. CASE BeginDial
  <2>1. ForNames'
    BY <1>1, <1>4, NameTurn DEF BeginDial
  <2>2. ForTargets'
    BY <1>2, <1>4 DEF BeginDial
  <2> QED BY <2>1, <2>2 DEF RotationInv
<1>5. CASE SendRequest
  <2>1. ForTargets'
    BY <1>1, <1>5, TargetTurn DEF SendRequest
  <2>2. ForNames'
    BY <1>3, <1>5 DEF SendRequest, Issue
  <2> QED BY <2>1, <2>2 DEF RotationInv
<1>6. CASE ~BeginDial /\ ~SendRequest
  <2>1. UNCHANGED <<target, sentTo, generation, sniDials>>
    BY <1>6
       DEF AnyStep, Next, Environment, Stop, Dial, DialOk, DialFail, FailAttempt,
           Reply, ReceiveReply, Receive, ReplyError, Ready, ReadyOk, ReadyError,
           ConnTaskEnded, PeerAnswers, LinkLost, DeadlinePasses, Returned, vars,
           taskVars, histVars
  <2> QED BY <1>2, <1>3, <2>1 DEF RotationInv
<1> QED BY <1>4, <1>5, <1>6
-----------------------------------------------------------------------------
LEMMA InitIInv == Init => IInv
<1> SUFFICES ASSUME Init PROVE IInv
  OBVIOUS
<1>1. LedgerInv /\ ResponsesCounted
  BY DEF Init, LedgerInv, ResponsesCounted, Connected, NewStats, Recorded, Answered
<1>2. BudgetInv /\ ConnectionInv /\ ClosesOnLast
  BY DEF Init, BudgetInv, ConnectionInv, ClosesOnLast, Most, Connected
<1> QED BY <1>1, <1>2, FirstTurns, InitTypeOK DEF IInv, RotationInv

LEMMA NextIInv == IInv /\ [Next]_vars => IInv'
BY NextTypeOK, NextLedger, NextResponses, NextBudget, NextConnection,
   NextCloses, NextRotation DEF IInv, AnyStep

LEMMA Invariance == Spec => []IInv
BY InitIInv, NextIInv, PTL DEF Spec

(* Every variable keeps its type (the task's counters, the connection).    *)
THEOREM TypeCorrect == Spec => []TypeOK
<1>1. IInv => TypeOK
  BY DEF IInv
<1> QED BY <1>1, Invariance, PTL

(* Each attempt is recorded; idle losses add at most one error per         *)
(* connection.                                                             *)
THEOREM AttemptsAreRecorded == Spec => []AttemptsRecorded
<1>1. IInv => AttemptsRecorded
  <2> SUFFICES ASSUME IInv PROVE AttemptsRecorded
    OBVIOUS
  <2>1. stats \in Stats /\ total \in Nat
    BY DEF IInv, TypeOK
  <2>2. stats.conn \in Nat /\ stats.err \in Nat /\ Recorded(stats) \in Nat
    BY <2>1, StatsCounts
  <2> QED BY <2>1, <2>2 DEF IInv, LedgerInv, AttemptsRecorded
<1> QED BY <1>1, Invariance, PTL

(* The reported ok and status counts are the peer's responses.             *)
THEOREM ResponsesAreCounted == Spec => []ResponsesCounted
<1>1. IInv => ResponsesCounted
  BY DEF IInv
<1> QED BY <1>1, Invariance, PTL

(* No more requests than -r, and fewer only when the deadline came first.  *)
THEOREM BudgetIsRespected == Spec => []BudgetRespected
<1>1. IInv => BudgetRespected
  <2> SUFFICES ASSUME IInv, NEW m \in Requests
               PROVE  /\ issued <= m /\ total <= m
                      /\ pc = "done" /\ ~expired => total = m
    BY DEF BudgetRespected
  <2>1. /\ total \in Nat /\ issued \in Nat /\ m \in Nat
        /\ \A n \in Requests : n = m
    BY DEF IInv, TypeOK
  <2>2. /\ issued <= total + (IF pc = "reply" THEN 1 ELSE 0)
        /\ total <= m /\ (pc = "reply" => total < m)
        /\ pc = "done" => (\E n \in Requests : total >= n) \/ expired
    BY DEF IInv, BudgetInv, ShouldStop
  <2> QED BY <2>1, <2>2
<1> QED BY <1>1, Invariance, PTL

(* At most --rpc requests per connection, "Connection: close" on the last. *)
THEOREM CloseIsLast == Spec => []ClosesOnLast
<1>1. IInv => ClosesOnLast
  BY DEF IInv
<1> QED BY <1>1, Invariance, PTL

(* Connections and errors are bounded by the attempts.                     *)
THEOREM ConnectionsAreUsed == Spec => []NoIdleChurn
<1>1. IInv => NoIdleChurn
  <2> SUFFICES ASSUME IInv PROVE NoIdleChurn
    OBVIOUS
  <2>1. stats \in Stats /\ total \in Nat
    BY DEF IInv, TypeOK
  <2>2. stats.conn \in Nat /\ stats.err \in Nat
    BY <2>1, StatsCounts
  <2> QED BY <2>1, <2>2 DEF IInv, LedgerInv, NoIdleChurn
<1> QED BY <1>1, Invariance, PTL

(* Hosts are rotated evenly over the requests.                             *)
THEOREM TargetsAreRotated == Spec => []TargetsRotate
<1>1. IInv => TargetsRotate
  BY TargetsEven DEF IInv, RotationInv
<1> QED BY <1>1, Invariance, PTL

(* Server names are rotated evenly over the connection attempts.           *)
THEOREM NamesAreRotated == Spec => []NamesRotate
<1>1. IInv => NamesRotate
  BY NamesEven DEF IInv, RotationInv
<1> QED BY <1>1, Invariance, PTL

(* At most one request is issued after the deadline.                       *)
THEOREM LateRequestBound == Spec => []OneLateRequest
<1>1. IInv => OneLateRequest
  BY DEF IInv, TypeOK, BudgetInv, OneLateRequest
<1> QED BY <1>1, Invariance, PTL
-----------------------------------------------------------------------------
(* Every step of the task is a step of a Worker, or none.                  *)
LEMMA WorkerStep ==
  TypeOK /\ LedgerInv /\ BudgetInv /\ [AnyStep]_vars => [W!Next]_W!vars
<1> SUFFICES ASSUME TypeOK, LedgerInv, BudgetInv, [AnyStep]_vars
             PROVE  [W!Next]_W!vars
  OBVIOUS
<1>a. /\ stats \in Stats /\ total \in Nat /\ Requests \subseteq Nat
      /\ expired \in BOOLEAN
  BY DEF TypeOK
<1>b. /\ stats = [conn |-> stats.conn, ok |-> stats.ok, fail |-> stats.fail,
                  err |-> stats.err]
      /\ stats.ok \in Nat /\ stats.fail \in Nat /\ stats.err \in Nat
  BY <1>a DEF Stats
<1>c. pc \in {"dial", "reply"} => ~W!BudgetUsed
  BY <1>a DEF BudgetInv, W!BudgetUsed
<1> USE <1>a, <1>b, <1>c DEF W!vars
<1>1. CASE UNCHANGED <<stats, total, expired>> /\ (pc' = "done" <=> pc = "done")
  BY <1>1
<1>2. CASE Stop
  BY <1>2 DEF Stop, ShouldStop, W!Next, W!Stop, W!BudgetUsed
<1>3. CASE DialOk
  BY <1>3 DEF DialOk, NewConnection, IncConn
<1>4. CASE DialFail
  <2>1. W!Attempt
    BY <1>4 DEF DialFail, FailAttempt, SetError, W!Attempt
  <2> QED BY <2>1 DEF W!Next
<1>5. ASSUME NEW code \in Nat, ReceiveReply(code) PROVE W!Next
  <2>1. (pc' # "done") \in (IF W!BudgetUsed' \/ expired THEN BOOLEAN ELSE {TRUE})
    BY <1>5 DEF ReceiveReply, Receive, AfterReply, ShouldStop, W!BudgetUsed
  <2>2. W!Attempt
    BY <1>5, <2>1 DEF ReceiveReply, Receive, SetHttpStatus, IncOk, W!Attempt
  <2> QED BY <2>2 DEF W!Next
<1>6. CASE ReplyError
  <2>1. W!Attempt
    BY <1>6 DEF ReplyError, FailAttempt, SetError, W!Attempt
  <2> QED BY <2>1 DEF W!Next
<1>7. CASE ReadyError
  <2>1. stats.err < total
    BY <1>7 DEF ReadyError, LedgerInv
  <2>2. W!LoseIdleConnection
    BY <1>7, <2>1 DEF ReadyError, SetError, W!LoseIdleConnection
  <2> QED BY <2>2 DEF W!Next
<1>8. CASE DeadlinePasses
  BY <1>8 DEF DeadlinePasses, taskVars, W!Next, W!DeadlinePasses
<1> QED
  BY <1>1, <1>2, <1>3, <1>4, <1>5, <1>6, <1>7, <1>8
     DEF AnyStep, Next, Environment, BeginDial, PickName, Dial, SendRequest,
         Reply, Ready, ReadyOk, ConnTaskEnded, PeerAnswers, LinkLost, Returned,
         vars, taskVars

(* The hyper task keeps the promises of a Worker: the refinement behind    *)
(* ImplementsWorker, its fairness apart.                                   *)
THEOREM ImplementsWorkerSafety == Spec => W!SafeSpec
<1>1. Init => W!Init
  BY DEF Init, W!Init, NewStats
<1>2. IInv /\ [Next]_vars => [W!Next]_W!vars
  BY WorkerStep DEF IInv, AnyStep
<1> QED BY <1>1, <1>2, Invariance, PTL DEF Spec, W!SafeSpec

-----------------------------------------------------------------------------
(***************************************************************************)
(* The MCP client.                                                         *)
(***************************************************************************)
USE McpAssumption DEF McpAssumption

Phases == {"set", "hello", "greeting", "open", "endpoint", "dialpost", "post",
           "events", "answer", "failed"}

(* The messages of the greeting that precede one of them.                  *)
Before(message) ==
  CASE message = "initialize"  -> <<>>
    [] message = "initialized" -> <<"initialize">>
    [] message = "tools/list"  -> <<"initialize", "initialized">>

ToolIds == 0 .. Len(ToolList) - 1

McpTypes ==
  /\ phase \in Phases /\ session \in Nat
  /\ step \in {"initialize", "initialized", "tools/list", "none"}
  /\ bodies \in Seq(Nat) /\ Len(bodies) <= Len(ToolList)
  /\ Wanted # {} => \A i \in 1 .. Len(bodies) : bodies[i] \in Wanted
  /\ bodyIdx \in 0 .. Len(bodies)
  /\ called \in [ToolIds -> Nat]

(* The greeting is over as soon as there are tools to call, and nothing is *)
(* called before.                                                          *)
GreetingInv ==
  /\ IF transport = "sse"
     THEN session = 0 /\ phase \notin {"hello", "greeting"}
     ELSE phase \in {"set", "hello", "greeting", "failed"}
  /\ IF bodies = <<>>
     THEN /\ step # "none" /\ issued = 0
          /\ phase = "set" => transport # "sse" /\ step = "initialize" /\ heard = <<>>
     ELSE step = "none" /\ phase = "set" /\ heard = Greeting
  /\ phase \in {"open", "endpoint", "dialpost"} => step = "initialize"
  /\ phase \in {"hello", "open", "endpoint", "dialpost", "post"} =>
       heard = Before(step)
  /\ phase \in {"greeting", "events", "answer"} =>
       heard = Append(Before(step), step)
  /\ phase \in {"events", "answer"} => step \in {"initialize", "tools/list"}

(* The headers hold the session id by the time they are used.              *)
SessionInv ==
  /\ ~unsigned
  /\ bodies # <<>> \/ transport = "sse" =>
       /\ plainHdr = [t \in TargetIds |-> session]
       /\ closeHdr = [t \in TargetIds |-> session]

Uses == [i \in 0 .. Len(bodies) - 1 |-> called[i]]

ToolsInv ==
  /\ bodies # <<>> => Turns(Uses, Len(bodies), 0, NextBody(bodyIdx))
  /\ \A i \in ToolIds : i >= Len(bodies) => called[i] = 0

McpInv ==
  /\ TypeOK /\ LedgerInv /\ BudgetInv
  /\ McpTypes /\ GreetingInv /\ SessionInv /\ ToolsInv
-----------------------------------------------------------------------------
(* filter_tools: what it keeps is wanted, and no more than it was given.   *)
LEMMA SelectedTools ==
  ASSUME NEW list \in Seq(Nat)
  PROVE  /\ Selected(list) \in Seq(Nat)
         /\ Len(Selected(list)) <= Len(list)
         /\ Wanted # {} =>
              \A i \in 1 .. Len(Selected(list)) : Selected(list)[i] \in Wanted
<1> DEFINE L == Len(list)
           Want(n) == Wanted = {} \/ list[n] \in Wanted
           Next1(g, n) == IF n = 0 THEN <<>>
                          ELSE IF Want(n) THEN Append(g[n - 1], list[n])
                          ELSE g[n - 1]
           Keeps(g, n) == g = [k \in 0 .. n |-> Next1(g, k)]
           kept == CHOOSE g : Keeps(g, L)
           Fine(s, n) == /\ s \in Seq(Nat) /\ Len(s) <= n
                         /\ Wanted # {} => \A i \in 1 .. Len(s) : s[i] \in Wanted
<1>1. L \in Nat
  OBVIOUS
<1>2. \E g : Keeps(g, L)
  <2> DEFINE G == {n \in Nat : \E g : Keeps(g, n)}
  <2>1. 0 \in G
    <3>1. Keeps([k \in 0 .. 0 |-> <<>>], 0)
      OBVIOUS
    <3> QED BY <3>1
  <2>2. ASSUME NEW n \in G PROVE n + 1 \in G
    <3>1. PICK g : Keeps(g, n)
      BY <2>2
    <3> DEFINE h == [k \in 0 .. n + 1 |-> IF k = n + 1 THEN Next1(g, n + 1) ELSE g[k]]
    <3>2. n \in Nat
      OBVIOUS
    <3>3. ASSUME NEW k \in 0 .. n + 1 PROVE h[k] = Next1(h, k)
      <4>1. CASE k = n + 1
        BY <3>2, <4>1
      <4>2. CASE k # n + 1
        <5>1. k \in 0 .. n /\ (k # 0 => k - 1 \in 0 .. n)
          BY <3>2, <4>2
        <5>2. g[k] = Next1(g, k)
          BY <3>1, <5>1
        <5> QED BY <3>2, <5>1, <5>2
      <4> QED BY <4>1, <4>2
    <3>4. Keeps(h, n + 1)
      BY <3>3
    <3> HIDE DEF h, Keeps
    <3> QED BY <3>2, <3>4
  <2>3. G \subseteq Nat
    OBVIOUS
  <2>4. G = Nat
    <3> HIDE DEF G
    <3> QED BY <2>1, <2>2, <2>3, Induction
  <2> QED BY <1>1, <2>4
<1>3. Keeps(kept, L)
  <2> HIDE DEF Keeps
  <2> QED BY <1>2
<1>4. Selected(list) = kept[L]
  BY DEF Selected
<1> HIDE DEF kept
<1>5. kept[0] = <<>>
  BY <1>1, <1>3
<1>6. ASSUME NEW n \in Nat, n + 1 <= L
      PROVE  kept[n + 1] = IF Want(n + 1) THEN Append(kept[n], list[n + 1])
                           ELSE kept[n]
  <2>1. n + 1 \in 0 .. L /\ n + 1 # 0 /\ (n + 1) - 1 = n
    BY <1>1, <1>6
  <2>2. kept[n + 1] = Next1(kept, n + 1)
    BY <1>3, <2>1
  <2> QED BY <2>1, <2>2
<1>7. ASSUME NEW s \in Seq(Nat), NEW n \in Nat, NEW t \in Nat, Fine(s, n),
             Wanted = {} \/ t \in Wanted
      PROVE  Fine(Append(s, t), n + 1)
  <2>1. /\ Append(s, t) \in Seq(Nat) /\ Len(Append(s, t)) = Len(s) + 1
        /\ \A i \in 1 .. Len(s) : Append(s, t)[i] = s[i]
        /\ Append(s, t)[Len(s) + 1] = t
    BY AppendProperties
  <2>2. Len(s) \in Nat
    OBVIOUS
  <2>3. ASSUME Wanted # {}, NEW i \in 1 .. Len(Append(s, t))
        PROVE  Append(s, t)[i] \in Wanted
    <3>1. i \in 1 .. Len(s) \/ i = Len(s) + 1
      BY <2>1, <2>2, <2>3
    <3> QED BY <1>7, <2>1, <2>3, <3>1
  <2> QED BY <1>7, <2>1, <2>2, <2>3
<1> DEFINE G == {n \in Nat : n <= L => Fine(kept[n], n)}
<1>8. 0 \in G
  <2>1. Fine(<<>>, 0)
    OBVIOUS
  <2> QED BY <1>5, <2>1
<1>9. ASSUME NEW n \in G, n + 1 <= L PROVE Fine(kept[n + 1], n + 1)
  <2>1. n \in Nat /\ n <= L /\ Fine(kept[n], n) /\ list[n + 1] \in Nat
    BY <1>1, <1>9
  <2>2. CASE Want(n + 1)
    <3>1. kept[n + 1] = Append(kept[n], list[n + 1])
      BY <1>6, <1>9, <2>1, <2>2
    <3> HIDE DEF Fine
    <3>2. kept[n] \in Seq(Nat)
      BY <2>1 DEF Fine
    <3> QED BY <1>7, <2>1, <2>2, <3>1, <3>2
  <2>3. CASE ~Want(n + 1)
    <3>1. kept[n + 1] = kept[n]
      BY <1>6, <1>9, <2>1, <2>3
    <3> QED BY <2>1, <3>1, SMTT(30)
  <2> QED BY <2>2, <2>3
<1>10. G = Nat
  <2>1. \A n \in G : n \in Nat /\ n + 1 \in G
    <3> HIDE DEF Fine
    <3> QED BY <1>9
  <2>2. G \subseteq Nat
    OBVIOUS
  <2> HIDE DEF G
  <2> QED BY <1>8, <2>1, <2>2, Induction
<1>11. Fine(kept[L], L)
  <2> HIDE DEF Fine
  <2> QED BY <1>1, <1>10
<1> QED BY <1>4, <1>11
-----------------------------------------------------------------------------
(* What the hyper client knows of its own steps still holds: a step is one *)
(* of its steps, or a message of the greeting on a connection that no      *)
(* attempt uses.                                                           *)
LEMMA TaskSteps ==
  [McpNext]_callVars => [AnyStep]_vars \/ Hello \/ HelloAnswered
<1>1. ASSUME CallAnswered PROVE AnyStep
  <2>1. PICK code \in Status : ReceiveReply(Counts(code))
    BY <1>1 DEF CallAnswered
  <2>2. Counts(code) \in Nat
    BY DEF Counts
  <2> QED BY <2>1, <2>2 DEF AnyStep
<1>2. Loop => [AnyStep]_vars
  BY <1>1 DEF Loop, SendCall, CallConnection, AnyStep, Next, Dial, Reply
<1>3. GreetSse => UNCHANGED vars
  BY DEF GreetSse, OpenStream, ReadEndpoint, DialPost, SendPost, ReadInitResult,
         AnswerRoots, ReadToolsResult, StreamEnded, QuietElsewhere
<1>4. HelloFails \/ ServerEmits \/ ServerChats \/ StreamBreaks => UNCHANGED vars
  BY DEF HelloFails, ServerEmits, ServerChats, StreamBreaks
<1>5. PeerAnswers \/ LinkLost \/ DeadlinePasses => AnyStep
  BY DEF AnyStep, Next, Environment
<1>6. UNCHANGED callVars => UNCHANGED vars
  BY DEF callVars
<1> QED BY <1>2, <1>3, <1>4, <1>5, <1>6 DEF McpNext, GreetStreamable

LEMMA NextTask ==
  ASSUME TypeOK, LedgerInv, BudgetInv, [McpNext]_callVars
  PROVE  TypeOK' /\ LedgerInv' /\ BudgetInv'
<1>1. CASE [AnyStep]_vars
  BY <1>1, NextTypeOK, NextLedger, NextBudget
<1>2. CASE Hello \/ HelloAnswered
  <2>1. UNCHANGED <<taskVars, expired, link, onConn, closing, served, histVars>>
        /\ wire' \in {"quiet", "request"}
    BY <1>2 DEF Hello, HelloAnswered
  <2> QED BY <2>1 DEF TypeOK, LedgerInv, Connected, BudgetInv, ShouldStop, taskVars,
                      histVars
<1> QED BY <1>1, <1>2, TaskSteps
-----------------------------------------------------------------------------
(* The steps that leave everything the greeting is about alone.            *)
LEMMA ApartSteps ==
  ASSUME [McpNext]_callVars
  PROVE  \/ SendCall \/ CallConnection \/ GreetStreamable \/ GreetSse
         \/ UNCHANGED <<transport, phase, step, sessionVars, toolVars, seenVars,
                        issued>>
<1>1. \/ Stop \/ BeginDial \/ DialFail \/ CallAnswered \/ ReplyError \/ Ready
      \/ PeerAnswers \/ LinkLost \/ DeadlinePasses
      => UNCHANGED issued
  BY DEF Stop, BeginDial, DialFail, CallAnswered, ReceiveReply, Receive,
         ReplyError, Ready, ReadyOk, ReadyError, ConnTaskEnded, PeerAnswers,
         LinkLost, DeadlinePasses, histVars
<1>2. UNCHANGED mcpVars =>
        UNCHANGED <<transport, phase, step, sessionVars, toolVars, seenVars>>
  BY DEF mcpVars
<1>3. UNCHANGED callVars => UNCHANGED mcpVars /\ UNCHANGED issued
  BY DEF callVars, vars, histVars
<1>4. ServerEmits \/ ServerChats \/ StreamBreaks =>
        UNCHANGED <<transport, phase, step, sessionVars, toolVars, seenVars>>
        /\ UNCHANGED issued
  BY DEF ServerEmits, ServerChats, StreamBreaks, vars, histVars
<1> QED BY <1>1, <1>2, <1>3, <1>4 DEF McpNext, Loop

(* TakeTools leaves the list to call filtered, or ends the process.        *)
LEMMA Taken ==
  ASSUME NEW list \in {<<>>, ToolList}, TakeTools(list), McpTypes
  PROVE  \/ phase' = "failed" /\ step' = step /\ bodies' = bodies
         \/ /\ phase' = "set" /\ step' = "none" /\ bodies' # <<>>
            /\ bodies' \in Seq(Nat) /\ Len(bodies') <= Len(ToolList)
            /\ Wanted # {} => \A i \in 1 .. Len(bodies') : bodies'[i] \in Wanted
<1>1. list \in Seq(Nat) /\ Len(list) <= Len(ToolList)
  <2>1. <<>> \in Seq(Nat) /\ Len(<<>>) = 0 /\ Len(ToolList) \in Nat
    OBVIOUS
  <2>2. CASE list = <<>>
    BY <2>1, <2>2
  <2>3. CASE list = ToolList
    BY <2>1, <2>3
  <2> QED BY <2>2, <2>3
<1>2. Selected(list) \in Seq(Nat) /\ Len(Selected(list)) <= Len(ToolList)
  <2>1. Selected(list) \in Seq(Nat) /\ Len(Selected(list)) <= Len(list)
    BY <1>1, SelectedTools
  <2> QED BY <1>1, <2>1
<1>3. Wanted # {} =>
        \A i \in 1 .. Len(Selected(list)) : Selected(list)[i] \in Wanted
  BY <1>1, SelectedTools
<1> QED BY <1>2, <1>3 DEF TakeTools, Fatal

LEMMA NextMcpTypes ==
  ASSUME McpTypes, GreetingInv, [McpNext]_callVars
  PROVE  McpTypes'
<1> USE DEF McpTypes, Phases
<1>1. CASE UNCHANGED <<transport, phase, step, sessionVars, toolVars, seenVars, issued>>
  BY <1>1 DEF sessionVars, toolVars
<1>2. CASE SendCall
  <2>1. Len(bodies) \in Nat /\ Len(bodies) # 0 /\ NextBody(bodyIdx) \in 0 .. Len(bodies) - 1
    BY <1>2 DEF SendCall, NextBody
  <2>2. bodyIdx' \in 0 .. Len(bodies)
    BY <1>2, <2>1 DEF SendCall
  <2>3. called' \in [ToolIds -> Nat]
    BY <1>2, <2>1, SMTT(30) DEF SendCall, ToolIds
  <2> QED BY <1>2, <2>2, <2>3 DEF SendCall, sessionVars
<1>3. CASE CallConnection
  BY <1>3 DEF CallConnection, sessionVars, toolVars
<1>4. CASE Hello
  BY <1>4 DEF Hello, sessionVars, toolVars
<1>5. CASE HelloAnswered
  <2>1. bodies = <<>> /\ UNCHANGED <<bodyIdx, called>>
    BY <1>5 DEF HelloAnswered, GreetingInv
  <2>2. CASE step = "initialize"
    BY <1>5, <2>1, <2>2 DEF HelloAnswered
  <2>3. CASE step = "initialized"
    BY <1>5, <2>1, <2>3 DEF HelloAnswered, sessionVars
  <2>4. CASE step = "tools/list"
    <3>1. PICK list \in {<<>>, ToolList} : TakeTools(list)
      BY <1>5, <2>4 DEF HelloAnswered
    <3>2. session' = session
      BY <1>5, <2>4 DEF HelloAnswered
    <3>3. bodies' \in Seq(Nat) => bodyIdx' \in 0 .. Len(bodies')
      BY <2>1
    <3> QED BY <2>1, <3>1, <3>2, <3>3, Taken
  <2>5. step \in {"initialize", "initialized", "tools/list"}
    BY <1>5 DEF HelloAnswered
  <2> QED BY <2>2, <2>3, <2>4, <2>5
<1>6. CASE HelloFails
  BY <1>6 DEF HelloFails, Fatal, sessionVars, toolVars
<1>7. CASE ReadToolsResult
  <2>1. bodies = <<>> /\ UNCHANGED <<session, bodyIdx, called>>
    BY <1>7 DEF ReadToolsResult, GreetingInv, QuietElsewhere, sessionVars
  <2>2. ASSUME NEW list \in {<<>>, ToolList}, TakeTools(list) PROVE McpTypes'
    <3>1. bodies' \in Seq(Nat) => bodyIdx' \in 0 .. Len(bodies')
      BY <2>1
    <3> QED BY <2>1, <2>2, <3>1, Taken
  <2>3. CASE UNCHANGED bodies
    BY <1>7, <2>1, <2>2, <2>3 DEF ReadToolsResult
  <2> QED BY <1>7, <2>2, <2>3 DEF ReadToolsResult
<1>8. CASE OpenStream \/ ReadEndpoint \/ DialPost \/ SendPost \/ ReadInitResult
           \/ AnswerRoots \/ StreamEnded
  <2>1. UNCHANGED <<session, bodies, bodyIdx, called>>
    BY <1>8 DEF OpenStream, ReadEndpoint, DialPost, SendPost, ReadInitResult,
                AnswerRoots, StreamEnded, QuietElsewhere, sessionVars
  <2>2. phase' \in Phases
        /\ step' \in {"initialize", "initialized", "tools/list", "none"}
    BY <1>8 DEF OpenStream, ReadEndpoint, DialPost, SendPost, ReadInitResult,
                AnswerRoots, StreamEnded, Proceed, Fatal
  <2> QED BY <2>1, <2>2
<1> QED
  BY <1>1, <1>2, <1>3, <1>4, <1>5, <1>6, <1>7, <1>8, ApartSteps
     DEF GreetStreamable, GreetSse

(* Each message of the greeting leads to the next, the last one to its end. *)
LEMMA GreetingGoesOn ==
  /\ Append(Before("initialize"), "initialize") = Before("initialized")
  /\ Append(Before("initialized"), "initialized") = Before("tools/list")
  /\ Append(Before("tools/list"), "tools/list") = Greeting
<1> DEFINE M == {"initialize", "initialized", "tools/list"}
<1>1. /\ Before("initialize") = <<>> /\ Before("initialized") = <<"initialize">>
      /\ Before("tools/list") = <<"initialize", "initialized">>
  BY DEF Before
<1>2. /\ <<>> \in Seq(M) /\ <<"initialize">> \in Seq(M)
      /\ <<"initialize", "initialized">> \in Seq(M) /\ Greeting \in Seq(M)
  BY DEF Greeting
<1>3. ASSUME NEW s \in Seq(M), NEW t \in Seq(M), NEW e \in M,
             Len(t) = Len(s) + 1, t[Len(t)] = e,
             \A i \in 1 .. Len(s) : t[i] = s[i]
      PROVE  Append(s, e) = t
  <2> HIDE DEF M
  <2>1. Append(s, e) \in Seq(M) /\ Len(Append(s, e)) = Len(s) + 1
        /\ Append(s, e)[Len(s) + 1] = e
        /\ \A i \in 1 .. Len(s) : Append(s, e)[i] = s[i]
    BY AppendProperties
  <2>2. Len(s) \in Nat
    OBVIOUS
  <2>3. \A i \in 1 .. Len(t) : i = Len(s) + 1 \/ i \in 1 .. Len(s)
    BY <1>3, <2>2
  <2>4. \A i \in 1 .. Len(t) : Append(s, e)[i] = t[i]
    BY <1>3, <2>1, <2>3
  <2> QED BY <1>3, <2>1, <2>4, SeqEqual
<1>4. Append(<<>>, "initialize") = <<"initialize">>
  BY <1>2, <1>3
<1>5. Append(<<"initialize">>, "initialized") = <<"initialize", "initialized">>
  <2> DEFINE s == <<"initialize">>
             t == <<"initialize", "initialized">>
  <2>1. /\ Len(s) = 1 /\ Len(t) = 2 /\ t[2] = "initialized"
        /\ \A i \in 1 .. 1 : t[i] = s[i]
        /\ s \in Seq(M) /\ t \in Seq(M) /\ "initialized" \in M
    OBVIOUS
  <2> HIDE DEF s, t, M
  <2>2. Len(t) = Len(s) + 1 /\ t[Len(t)] = "initialized"
        /\ \A i \in 1 .. Len(s) : t[i] = s[i]
    BY <2>1
  <2>3. Append(s, "initialized") = t
    BY <1>3, <2>1, <2>2, ZenonT(30)
  <2> QED BY <2>3 DEF s, t
<1>6. Append(<<"initialize", "initialized">>, "tools/list") = Greeting
  <2>1. Len(<<"initialize", "initialized">>) = 2 /\ Len(Greeting) = 3
        /\ Greeting[3] = "tools/list"
    BY DEF Greeting
  <2>2. \A i \in 1 .. 2 : Greeting[i] = <<"initialize", "initialized">>[i]
    BY DEF Greeting
  <2> QED BY <1>2, <1>3, <2>1, <2>2
<1> QED BY <1>1, <1>4, <1>5, <1>6

(* The greeting is sent in its order.                                      *)
LEMMA NextGreeting ==
  ASSUME McpTypes, GreetingInv, [McpNext]_callVars
  PROVE  GreetingInv'
<1> USE DEF GreetingInv
<1>1. CASE UNCHANGED <<transport, phase, step, sessionVars, toolVars, seenVars, issued>>
  BY <1>1 DEF sessionVars, toolVars, seenVars
<1>2. CASE SendCall
  <2>1. bodies # <<>> /\ phase = "set"
        /\ UNCHANGED <<transport, phase, step, session, bodies, heard>>
    BY <1>2 DEF SendCall, sessionVars
  <2> QED BY <2>1
<1>3. CASE CallConnection
  <2>1. issued' = issued /\ phase = "set"
        /\ UNCHANGED <<transport, step, session, bodies, heard>>
    BY <1>3 DEF CallConnection, DialOk, sessionVars, toolVars, seenVars
  <2>2. phase' = IF transport = "streamable" /\ bodies = <<>> THEN "hello" ELSE "set"
    BY <1>3 DEF CallConnection
  <2> QED BY <2>1, <2>2 DEF Before
<1>4. CASE Hello
  BY <1>4 DEF Hello, Post, sessionVars, toolVars, histVars
<1>5. CASE HelloAnswered
  <2>1. phase = "greeting" /\ bodies = <<>> /\ transport # "sse"
        /\ UNCHANGED <<transport, heard, issued>>
    BY <1>5 DEF HelloAnswered, histVars, seenVars
  <2>2. CASE step = "initialize"
    BY <1>5, <2>1, <2>2, GreetingGoesOn DEF HelloAnswered
  <2>3. CASE step = "initialized"
    BY <1>5, <2>1, <2>3, GreetingGoesOn DEF HelloAnswered
  <2>4. CASE step = "tools/list"
    <3>1. PICK list \in {<<>>, ToolList} : TakeTools(list)
      BY <1>5, <2>4 DEF HelloAnswered
    <3>2. heard = Greeting
      BY <2>1, <2>4, GreetingGoesOn
    <3> QED BY <2>1, <2>4, <3>1, <3>2, Taken
  <2>5. step \in {"initialize", "initialized", "tools/list"}
    BY <1>5 DEF HelloAnswered
  <2> QED BY <2>2, <2>3, <2>4, <2>5
<1>6. CASE HelloFails
  <2>1. phase \in {"hello", "greeting"} /\ phase' = "failed"
        /\ UNCHANGED <<transport, step, session, bodies, heard, issued>>
    BY <1>6 DEF HelloFails, Fatal, sessionVars, toolVars, seenVars, vars, histVars
  <2> QED BY <2>1
<1>7. CASE GreetSse
  <2>0. UNCHANGED <<transport, session, issued>>
    BY <1>7 DEF GreetSse, OpenStream, ReadEndpoint, DialPost, SendPost,
       ReadInitResult, AnswerRoots, ReadToolsResult, StreamEnded,
       QuietElsewhere, sessionVars, vars, histVars
  <2>1. CASE OpenStream \/ ReadEndpoint \/ DialPost
    <3>1. phase \in {"open", "endpoint", "dialpost"}
          /\ phase' \in {"endpoint", "dialpost", "post", "failed"}
          /\ UNCHANGED <<step, bodies, heard>>
      BY <2>1 DEF OpenStream, ReadEndpoint, DialPost, Proceed, seenVars
    <3> QED BY <2>0, <3>1
  <2>2. CASE SendPost
    <3>1. phase = "post" /\ heard' = Append(heard, step) /\ UNCHANGED bodies
      BY <2>2 DEF SendPost, Post
    <3>2. CASE step = "initialized"
      BY <2>0, <2>2, <3>1, <3>2, GreetingGoesOn DEF SendPost
    <3>3. CASE step # "initialized"
      <4>1. step' = step /\ phase' \in {"events", "failed"}
        BY <2>2, <3>3 DEF SendPost
      <4>2. bodies = <<>> /\ transport = "sse" /\ step # "none" /\ heard = Before(step)
        BY <3>1
      <4>3. step \in {"initialize", "tools/list"} /\ heard' = Append(Before(step), step)
        BY <3>1, <3>3, <4>2 DEF McpTypes
      <4>4. phase' = "events" => heard' = Append(Before(step), step)'
        BY <4>1, <4>3
      <4>5. bodies' = <<>> /\ transport' = "sse" /\ session' = 0 /\ issued' = 0
            /\ step' \in {"initialize", "tools/list"}
        BY <2>0, <3>1, <4>1, <4>2, <4>3
      <4> QED BY <4>1, <4>4, <4>5
    <3> QED BY <3>2, <3>3
  <2>3. CASE ReadInitResult
    <3>1. phase = "events" /\ step = "initialize" /\ UNCHANGED <<bodies, heard>>
          /\ \/ step' = "initialized" /\ phase' = "post"
             \/ step' = step /\ phase' = "failed"
      BY <2>3 DEF ReadInitResult, Fatal, seenVars
    <3> QED BY <2>0, <3>1 DEF Before
  <2>4. CASE ReadToolsResult
    <3>1. phase = "events" /\ step = "tools/list" /\ UNCHANGED heard
      BY <2>4 DEF ReadToolsResult, seenVars
    <3>2. bodies = <<>> /\ transport = "sse" /\ heard = Greeting
      BY <3>1, GreetingGoesOn
    <3>3. ASSUME NEW list \in {<<>>, ToolList}, TakeTools(list) PROVE GreetingInv'
      BY <2>0, <3>1, <3>2, <3>3, Taken
    <3>4. CASE UNCHANGED <<step, bodies>> /\ phase' \in {"answer", "events"}
      BY <2>0, <3>1, <3>2, <3>4
    <3> QED BY <2>4, <3>1, <3>3, <3>4 DEF ReadToolsResult
  <2>5. CASE AnswerRoots
    <3>1. phase = "answer" /\ phase' \in {"events", "failed"}
          /\ UNCHANGED <<step, bodies, heard>>
      BY <2>5 DEF AnswerRoots, Proceed
    <3> QED BY <2>0, <3>1
  <2>6. CASE StreamEnded
    <3>1. phase \in {"endpoint", "events"} /\ phase' = "failed"
          /\ UNCHANGED <<step, bodies, heard>>
      BY <2>6 DEF StreamEnded, Fatal, seenVars
    <3> QED BY <2>0, <3>1
  <2> QED BY <1>7, <2>1, <2>2, <2>3, <2>4, <2>5, <2>6 DEF GreetSse
<1> QED
  BY <1>1, <1>2, <1>3, <1>4, <1>5, <1>6, <1>7, ApartSteps DEF GreetStreamable

(* The session id the server gave is in the headers before they are used.  *)
LEMMA NextSession ==
  ASSUME TypeOK, GreetingInv, SessionInv, [McpNext]_callVars
  PROVE  SessionInv'
<1> USE DEF SessionInv, sessionVars, seenVars, toolVars
<1>1. CASE UNCHANGED <<transport, phase, step, sessionVars, toolVars, seenVars, issued>>
  BY <1>1
<1>2. CASE SendCall
  <2>1. target \in TargetIds /\ bodies # <<>>
        /\ UNCHANGED <<transport, sessionVars, bodies>>
    BY <1>2 DEF TypeOK, SendCall
  <2>2. plainHdr[target] = session /\ closeHdr[target] = session
    BY <2>1
  <2>3. ~unsigned'
    BY <1>2, <2>2, Zenon DEF SendCall
  <2> QED BY <2>1, <2>3
<1>3. CASE CallConnection \/ HelloFails
  BY <1>3 DEF CallConnection, HelloFails
<1>4. CASE Hello
  BY <1>4 DEF Hello, Post
<1>5. CASE HelloAnswered
  <2>1. unsigned' = unsigned /\ UNCHANGED transport
    BY <1>5 DEF HelloAnswered
  <2>2. bodies = <<>> /\ transport # "sse"
    BY <1>5 DEF HelloAnswered, GreetingInv
  <2>3. CASE step = "tools/list"
    BY <1>5, <2>1, <2>3 DEF HelloAnswered, Adopt
  <2>4. CASE step # "tools/list"
    BY <1>5, <2>1, <2>2, <2>4 DEF HelloAnswered
  <2> QED BY <2>3, <2>4
<1>6. CASE GreetSse
  <2>1. transport = "sse" /\ session = 0
    BY <1>6 DEF GreetingInv, GreetSse, OpenStream, ReadEndpoint, DialPost, SendPost,
       ReadInitResult, AnswerRoots, ReadToolsResult, StreamEnded, Proceed
  <2>2. UNCHANGED <<transport, sessionVars>>
    BY <1>6 DEF GreetSse, OpenStream, ReadEndpoint, DialPost, SendPost,
       ReadInitResult, AnswerRoots, ReadToolsResult, StreamEnded, QuietElsewhere
  <2>3. ~unsigned'
    BY <1>6, <2>1, Zenon DEF GreetSse, OpenStream, ReadEndpoint, DialPost, SendPost,
       ReadInitResult, AnswerRoots, ReadToolsResult, StreamEnded, Post
  <2> QED BY <2>1, <2>2, <2>3
<1> QED
  BY <1>1, <1>2, <1>3, <1>4, <1>5, <1>6, ApartSteps DEF GreetStreamable

(* The tools are called in turn, from the first on.                        *)
LEMMA NextTools ==
  ASSUME McpTypes, GreetingInv, ToolsInv, [McpNext]_callVars,
         McpTypes'
  PROVE  ToolsInv'
<1> USE DEF sessionVars, seenVars, toolVars
<1>1. CASE UNCHANGED <<bodies, bodyIdx, called>>
  BY <1>1 DEF ToolsInv, Uses, Turns, NextBody, InRound
<1>2. CASE SendCall
  <2> DEFINE n == Len(bodies)
             i == NextBody(bodyIdx)
             k == IF i + 1 = n THEN 0 ELSE i + 1
  <2>1. /\ n \in Nat \ {0} /\ n <= Len(ToolList) /\ Len(ToolList) \in Nat
        /\ i \in 0 .. n - 1 /\ bodies # <<>>
    BY <1>2 DEF SendCall, NextBody, McpTypes
  <2>2. /\ bodies' = bodies /\ bodyIdx' = i + 1
        /\ called' = [called EXCEPT ![i] = @ + 1]
    BY <1>2 DEF SendCall
  <2>3. NextBody(bodyIdx)' = k
    <3>1. NextBody(bodyIdx)' = IF i + 1 >= n THEN 0 ELSE i + 1
      BY <2>2 DEF NextBody
    <3> HIDE DEF i, n
    <3> QED BY <2>1, <3>1
  <2>4. called \in [ToolIds -> Nat] /\ 0 .. n - 1 \subseteq ToolIds
    BY <2>1, SMTT(30) DEF McpTypes, ToolIds
  <2>5. Uses \in [0 .. n - 1 -> Nat]
    BY <2>4 DEF Uses
  <2>6. Uses' = [Uses EXCEPT ![i] = @ + 1]
    BY <2>1, <2>2, <2>4 DEF Uses
  <2>7. Turns(Uses, n, 0, i)
    BY <2>1 DEF ToolsInv
  <2>8. Turns([Uses EXCEPT ![i] = @ + 1], n, 0, k)
    <3> HIDE DEF i, n
    <3>1. 0 \in 0 .. n - 1
      BY <2>1
    <3> QED BY <2>1, <2>5, <2>7, <3>1, TurnsStep
  <2>9. Turns(Uses', Len(bodies'), 0, NextBody(bodyIdx)')
    BY <2>2, <2>3, <2>6, <2>8
  <2>10. \A j \in ToolIds : j >= Len(bodies') => called'[j] = 0
    BY <2>1, <2>2, <2>4 DEF ToolsInv, ToolIds
  <2> QED BY <2>9, <2>10 DEF ToolsInv
<1>3. CASE UNCHANGED <<bodyIdx, called>> /\ bodies = <<>> /\ bodies' # <<>>
  <2>1. /\ Len(bodies') \in Nat \ {0} /\ Len(bodies') <= Len(ToolList)
        /\ Len(ToolList) \in Nat /\ bodyIdx' = 0
    BY <1>3 DEF McpTypes
  <2>2. \A j \in ToolIds : called'[j] = 0
    BY <1>3 DEF ToolsInv, ToolIds
  <2>3. Uses' = [j \in 0 .. Len(bodies') - 1 |-> 0]
    BY <2>1, <2>2 DEF Uses, ToolIds
  <2>4. Turns(Uses', Len(bodies'), 0, 0)
    <3>1. 0 \in 0 .. Len(bodies') - 1
      BY <2>1
    <3> QED BY <2>1, <2>3, <3>1, TurnsStart
  <2>5. NextBody(bodyIdx)' = 0
    BY <2>1 DEF NextBody
  <2> QED BY <2>2, <2>4, <2>5 DEF ToolsInv
<1>4. GreetStreamable \/ GreetSse =>
        UNCHANGED <<bodyIdx, called>> /\ (bodies = <<>> \/ bodies' = bodies)
  BY DEF GreetStreamable, Hello, HelloAnswered, HelloFails, GreetSse,
         OpenStream, ReadEndpoint, DialPost, SendPost, ReadInitResult, AnswerRoots,
         ReadToolsResult, StreamEnded, QuietElsewhere, GreetingInv
<1>5. CallConnection => UNCHANGED <<bodies, bodyIdx, called>>
  BY DEF CallConnection
<1>6. \/ UNCHANGED <<bodies, bodyIdx, called>> \/ SendCall
      \/ UNCHANGED <<bodyIdx, called>> /\ bodies = <<>> /\ bodies' # <<>>
  BY <1>4, <1>5, ApartSteps
<1> QED BY <1>1, <1>2, <1>3, <1>6
-----------------------------------------------------------------------------
LEMMA InitMcpInv == McpInit => McpInv
<1> SUFFICES ASSUME McpInit PROVE McpInv
  OBVIOUS
<1>1. TypeOK /\ LedgerInv /\ BudgetInv
  BY InitIInv DEF McpInit, IInv
<1>2. Len(ToolList) \in Nat /\ <<>> \in Seq(Nat) /\ Len(<<>>) = 0
  OBVIOUS
<1>3. McpTypes
  BY <1>2 DEF McpInit, McpTypes, Phases, ToolIds
<1>4. GreetingInv
  BY DEF McpInit, Init, GreetingInv, Before
<1>5. SessionInv
  BY DEF McpInit, SessionInv
<1>6. ToolsInv
  BY DEF McpInit, ToolsInv, ToolIds
<1> QED BY <1>1, <1>3, <1>4, <1>5, <1>6 DEF McpInv

LEMMA NextMcpInv == McpInv /\ [McpNext]_callVars => McpInv'
<1> SUFFICES ASSUME McpInv, [McpNext]_callVars PROVE McpInv'
  OBVIOUS
<1>1. McpTypes'
  BY NextMcpTypes DEF McpInv
<1> QED BY <1>1, NextTask, NextGreeting, NextSession, NextTools DEF McpInv

LEMMA McpInvariance == McpSpec => []McpInv
BY InitMcpInv, NextMcpInv, PTL DEF McpSpec

(* No call before the whole greeting, and the session id of the server on  *)
(* every message after initialize.                                         *)
THEOREM SessionIsCarried == McpSpec => []SessionCarried
<1>1. McpInv => SessionCarried
  BY DEF McpInv, GreetingInv, SessionInv, SessionCarried, TypeOK
<1> QED BY <1>1, McpInvariance, PTL

(* The wanted tools are called in turn, and no others.                     *)
THEOREM ToolsAreInTurn == McpSpec => []ToolsInTurn
<1>1. McpInv => ToolsInTurn
  <2> SUFFICES ASSUME McpInv PROVE ToolsInTurn
    OBVIOUS
  <2> DEFINE n == Len(bodies)
  <2>1. /\ n \in Nat /\ n <= Len(ToolList) /\ Len(ToolList) \in Nat
        /\ called \in [ToolIds -> Nat] /\ bodies \in Seq(Nat)
    BY DEF McpInv, McpTypes
  <2>2. \A i \in DOMAIN called : called[i] > 0 => i < n
    <3>1. ASSUME NEW i \in ToolIds, i >= n PROVE called[i] = 0
      BY <3>1 DEF McpInv, ToolsInv
    <3> QED BY <2>1, <3>1, SMTT(30) DEF ToolIds
  <2>3. \A i \in DOMAIN bodies : Wanted # {} => bodies[i] \in Wanted
    BY <2>1 DEF McpInv, McpTypes
  <2>4. Balanced(called, n)
    <3>1. CASE n = 0
      BY <3>1 DEF Balanced
    <3>2. CASE n # 0
      <4>1. /\ Uses \in [0 .. n - 1 -> Nat]
            /\ \A i \in 0 .. n - 1 : Uses[i] = called[i]
        BY <2>1 DEF Uses, ToolIds
      <4>2. 0 \in 0 .. n - 1 /\ n \in Nat \ {0}
        BY <2>1, <3>2
      <4>3. NextBody(bodyIdx) \in 0 .. n - 1
        BY <4>2 DEF McpInv, McpTypes, NextBody
      <4>4. Turns(Uses, n, 0, NextBody(bodyIdx))
        BY <3>2 DEF McpInv, ToolsInv
      <4> HIDE DEF n
      <4>5. Balanced(Uses, n)
        BY <4>1, <4>2, <4>3, <4>4, TurnsBalanced
      <4> QED BY <4>1, <4>5 DEF Balanced
    <3> QED BY <3>1, <3>2
  <2> QED BY <2>2, <2>3, <2>4 DEF ToolsInTurn
<1> QED BY <1>1, McpInvariance, PTL

(* Greeting included, the task keeps the promises of a Worker: a step of   *)
(* the greeting is none of a Worker's.                                     *)
THEOREM McpKeepsWorker == McpSpec => KeepsWorker
<1>1. McpInit => W!Init
  BY DEF McpInit, Init, W!Init, NewStats
<1>2. McpInv /\ [McpNext]_callVars => [W!Next]_W!vars
  <2> SUFFICES ASSUME McpInv, [McpNext]_callVars PROVE [W!Next]_W!vars
    OBVIOUS
  <2>1. CASE [AnyStep]_vars
    BY <2>1, WorkerStep DEF McpInv
  <2>2. CASE Hello \/ HelloAnswered
    BY <2>2 DEF Hello, HelloAnswered, taskVars, W!vars
  <2> QED BY <2>1, <2>2, TaskSteps
<1> QED BY <1>1, <1>2, McpInvariance, PTL DEF McpSpec, KeepsWorker, W!SafeSpec
=============================================================================
