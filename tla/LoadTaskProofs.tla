--------------------------- MODULE LoadTaskProofs ---------------------------
(***************************************************************************)
(* The safety properties every client owes the engine, for hyper-chunked,  *)
(* the raw clients and the pooled clients, whatever the budget, --rpc and  *)
(* the number of hosts and server names.  A task never changes its client, *)
(* so the inductive invariant LoadInv has a part for each of the three     *)
(* families, and a family's steps need preserve its own part only.         *)
(***************************************************************************)
EXTENDS LoadTask, TaskProofs, SequenceTheorems

USE TaskAssumption, LoadAssumption DEF TaskAssumption, LoadAssumption

Piece == [part : {"head", "tail", "fat"}, to : Nat]

(* Every variable has its type, and a variable of another client keeps its *)
(* first value.                                                            *)
LoadTypes ==
  /\ TypeOK /\ kind \in Kinds
  /\ owed \in Seq(Nat) /\ inbox \in Seq(Piece) /\ buffer \in Seq(Piece)
  /\ eofs \in Nat /\ extras \in Nat /\ misread \in BOOLEAN
  /\ kind \notin Raw!Kinds => eofs = 0 /\ extras = 0 /\ ~misread

(* The part of the budget that all clients keep in the same way.           *)
LoadBudget ==
  /\ issued <= total + (IF pc = "reply" THEN 1 ELSE 0)
  /\ \A m \in Requests :
       /\ total <= m
       /\ pc \in {"dial", "send", "reply", "ready", "redial"} => total < m
  /\ pc = "done" => ShouldStop(total)

LoadNames == Turns(sniDials, Names, Global % Names, SniIndex(generation))

(* A response is read once.                                                *)
ReadOnce ==
  Answered(stats) + (IF wire = "response" THEN 1 ELSE 0) <= served

(* hyper-chunked: an error besides those of the attempts is preceded by a  *)
(* connection that was up, and whose loss it is.                           *)
ChunkedInv ==
  /\ total <= Recorded(stats)
  /\ LET mayErr == link = "up" \/ wire # "quiet" \/ pc \in {"ready", "redial"}
     IN  Recorded(stats) + (IF mayErr THEN 1 ELSE 0) <= total + stats.conn
  /\ stats.err + (IF pc = "ready" THEN 1 ELSE 0) <= total
  /\ stats.conn <= total + (IF pc \in {"send", "reply"} THEN 1 ELSE 0)
  /\ pc # "reply" => wire = "quiet"
  /\ link # "none" => pc \in {"send", "reply", "ready"}
  /\ pc \in {"send", "ready"} => onConn = connReq /\ connReq < Most
  /\ pc = "reply" /\ wire # "quiet" => onConn = connReq
  /\ ClosesOnLast /\ ReadOnce

(* The raw and the pooled clients record an attempt once.                  *)
AttemptsOnce ==
  /\ Recorded(stats) + eofs = total
  /\ stats.conn <= total + (IF pc \in {"send", "reply"} THEN 1 ELSE 0)

(* The peer of a raw client holds the request in hand, or its answer is on *)
(* its way in pieces that all belong to it: at most two.                   *)
OneAnswer ==
  /\ ~misread
  /\ pc = "send" => Len(owed) = 0 /\ Len(inbox) = 0 /\ Len(buffer) = 0
  /\ pc = "reply" =>
       /\ Len(owed) <= 1 /\ \A i \in DOMAIN owed : owed[i] = issued
       /\ Len(buffer) + Len(inbox) <= (IF Len(owed) = 0 THEN 2 ELSE 0)
       /\ \A i \in DOMAIN buffer : buffer[i].to = issued
       /\ \A i \in DOMAIN inbox : inbox[i].to = issued

RawRest ==
  /\ AttemptsOnce
  /\ wire = "quiet" /\ ~closing
  /\ link # "none" => pc \in {"send", "reply"}
  /\ onConn <= Most
  /\ pc = "send" => connReq < Most /\ onConn <= connReq
  /\ pc = "reply" => connReq < Most /\ onConn <= connReq + 1

(* Every response a raw client counts used up two pieces the peer sent.    *)
RawCounts ==
  2 * Answered(stats) + Len(buffer) + Len(inbox)
    <= 2 * (served + extras) + (IF link = "up" THEN 0 ELSE 1)

RawInv == RawRest /\ RawCounts /\ (extras = 0 => OneAnswer)

PoolInv ==
  /\ AttemptsOnce /\ ReadOnce
  /\ pc # "reply" => wire = "quiet"
  /\ kind = "hyper-legacy" => onConn <= Most
  /\ kind = "hyper-rt1" => ~closing
  /\ kind # "hyper-rt1" =>
       /\ pc = "send" => connReq < Most
       /\ pc = "reply" => connReq \in 1 .. Most
  /\ link = "up" =>
       /\ pc = "send" => ~closing
       /\ pc = "reply" => (closing => Pool!LastPooled(connReq))
       /\ kind = "hyper-legacy" /\ pc \in {"send", "reply"} => onConn <= connReq

LoadInv ==
  /\ LoadTypes /\ LoadBudget /\ LoadNames
  /\ kind = "hyper-chunked" => ChunkedInv
  /\ kind \in Raw!Kinds => RawInv
  /\ kind \in Pool!Kinds => PoolInv
-----------------------------------------------------------------------------
(* The modules of the clients extend ClientTask, each for itself: what     *)
(* they take from it is what LoadTask takes from it.                       *)
LEMMA ChunkedTaskIs ==
  ASSUME ChunkedTask
  PROVE  /\ kind = "hyper-chunked" /\ UNCHANGED <<kind, rawOwn, poolOwn>>
         /\ \/ Stop \/ BeginDial \/ Dial \/ SendRequest \/ ReplyError \/ ReadyOk
            \/ \E code \in Status : Chunked!ReceiveReply(code)
            \/ Chunked!RedialOk \/ Chunked!RedialFail \/ Chunked!ReadyError
<1>1. Chunked!Stop => Stop
  BY DEF Chunked!Stop, Stop, Chunked!ShouldStop, ShouldStop, Chunked!netVars,
         netVars, Chunked!histVars, histVars
<1>2. Chunked!BeginDial => BeginDial
  BY DEF Chunked!BeginDial, BeginDial, Chunked!ShouldStop, ShouldStop,
         Chunked!TimeAllows, TimeAllows, Chunked!PickName, PickName,
         Chunked!SniIndex, SniIndex, Chunked!netVars, netVars
<1>3. Chunked!Dial => Dial
  BY DEF Chunked!Dial, Dial, Chunked!DialOk, DialOk, Chunked!DialFail, DialFail,
         Chunked!IncConn, IncConn, Chunked!NewConnection, NewConnection,
         Chunked!FailAttempt, FailAttempt, Chunked!SetError, SetError,
         Chunked!netVars, netVars, Chunked!histVars, histVars
<1>4. Chunked!SendChunks => SendRequest
  BY DEF Chunked!SendChunks, Chunked!SendRequest, SendRequest, Chunked!TimeAllows,
         TimeAllows, Chunked!NextTarget, NextTarget, Chunked!HandOver, HandOver,
         Chunked!IsLast, IsLast, Chunked!Issue, Issue
<1>5. Chunked!ReplyError => ReplyError
  BY DEF Chunked!ReplyError, ReplyError, Chunked!Broken, Broken,
         Chunked!FailAttempt, FailAttempt, Chunked!SetError, SetError,
         Chunked!DropConnection, DropConnection, Chunked!histVars, histVars
<1>6. Chunked!ReadyOk => ReadyOk
  BY DEF Chunked!ReadyOk, ReadyOk, Chunked!netVars, netVars, Chunked!histVars,
         histVars
<1> QED
  BY <1>1, <1>2, <1>3, <1>4, <1>5, <1>6
     DEF ChunkedTask, Chunked!Connect, Chunked!Reply, Chunked!Redial, Chunked!Ready

(* A response that is recorded, in the terms of ClientTask.                *)
LEMMA ChunkedReceives ==
  ASSUME NEW code \in Status, Chunked!ReceiveReply(code)
  PROVE  /\ pc' \in {"done", "redial", "ready"} /\ Receive(code, pc')
         /\ pc' = "done" <=> ShouldStop(total + 1)
         /\ pc' = "ready" => ~IsLast(connReq)
         /\ IF pc' = "redial" THEN PickName ELSE UNCHANGED <<generation, sniDials>>
<1>1. /\ Chunked!Receive(code, Chunked!AfterReply(total + 1))
      /\ pc' = Chunked!AfterReply(total + 1)
  BY DEF Chunked!ReceiveReply, Chunked!Receive
<1>2. Receive(code, pc')
  BY <1>1 DEF Chunked!Receive, Receive, Chunked!SetHttpStatus, SetHttpStatus,
              Chunked!IncOk, IncOk
<1>3. Chunked!PickName => PickName
  BY DEF Chunked!PickName, PickName, Chunked!SniIndex, SniIndex
<1>4. /\ pc' \in {"done", "redial", "ready"}
      /\ pc' = "done" <=> ShouldStop(total + 1)
      /\ pc' = "ready" => ~IsLast(connReq)
  BY <1>1 DEF Chunked!AfterReply, Chunked!ShouldStop, ShouldStop, Chunked!IsLast, IsLast
<1> QED BY <1>2, <1>3, <1>4 DEF Chunked!ReceiveReply

LEMMA RawTaskIs ==
  ASSUME Raw!RawTask \/ Raw!RawPeer
  PROVE  /\ UNCHANGED kind
         /\ \/ Stop /\ UNCHANGED rawOwn
            \/ Raw!BeginConnect
            \/ DialOk /\ Raw!Connected
            \/ DialFail /\ UNCHANGED rawOwn
            \/ Raw!WriteOk \/ Raw!WriteFails
            \/ \E n \in 1 .. Len(inbox), code \in Status : Raw!Read(n, code)
            \/ Raw!ReadEof \/ Raw!ReadError
            \/ Raw!PeerAnswersRaw \/ Raw!PeerAnswersFat \/ Raw!PeerBreaksOff
            \/ Raw!PeerVolunteers
<1> USE DEF Raw!rawVars, Raw!byteVars, Raw!tallies, rawOwn
<1>1. Raw!Stop => Stop
  BY DEF Raw!Stop, Stop, Raw!ShouldStop, ShouldStop, Raw!netVars,
         netVars, Raw!histVars, histVars
<1>2. (Raw!DialOk => DialOk) /\ (Raw!DialFail => DialFail)
  BY DEF Raw!DialOk, DialOk, Raw!DialFail, DialFail,
         Raw!IncConn, IncConn, Raw!NewConnection, NewConnection,
         Raw!FailAttempt, FailAttempt, Raw!SetError, SetError,
         Raw!netVars, netVars, Raw!histVars, histVars
<1>3. CASE Raw!RawTask
  <2>1. Raw!Connected => DialOk /\ UNCHANGED kind
    BY <1>2 DEF Raw!Connected
  <2>2. Raw!NotConnected => DialFail /\ UNCHANGED rawOwn /\ UNCHANGED kind
    BY <1>2 DEF Raw!NotConnected
  <2>3. Raw!BeginConnect \/ Raw!WriteOk \/ Raw!WriteFails \/ Raw!ReadEof
        \/ Raw!ReadError => UNCHANGED kind
    BY DEF Raw!BeginConnect, Raw!WriteOk, Raw!WriteFails, Raw!ReadEof, Raw!ReadError
  <2>4. ASSUME NEW n, NEW code, Raw!Read(n, code) PROVE UNCHANGED kind
    BY <2>4 DEF Raw!Read
  <2> QED BY <1>1, <1>3, <2>1, <2>2, <2>3, <2>4 DEF Raw!RawTask
<1>4. CASE Raw!RawPeer
  BY <1>4 DEF Raw!RawPeer, Raw!PeerAnswersRaw, Raw!PeerAnswersFat,
              Raw!PeerBreaksOff, Raw!PeerVolunteers, Raw!AnswersWith, Raw!Sends
<1> QED BY <1>3, <1>4

(* What the other actions of a raw client take from ClientTask.            *)
LEMMA RawTerms ==
  /\ \A n : Raw!ShouldStop(n) <=> ShouldStop(n)
  /\ \A n : Raw!IsLast(n) <=> IsLast(n)
  /\ Raw!FailAttempt <=> stats' = SetError(stats) /\ total' = total + 1
  /\ Raw!TakeTarget <=> target' = NextTarget(target) /\ Issue(target)
  /\ \A code : Raw!SetHttpStatus(stats, code) = SetHttpStatus(stats, code)
  /\ Raw!DropConnection <=> link' = "none" /\ wire' = "quiet"
BY DEF Raw!ShouldStop, ShouldStop, Raw!IsLast, IsLast, Raw!FailAttempt,
       Raw!SetError, SetError, Raw!TakeTarget, Raw!NextTarget, NextTarget,
       Raw!Issue, Issue, Raw!SetHttpStatus, SetHttpStatus, Raw!IncOk, IncOk,
       Raw!DropConnection

LEMMA PoolTaskIs ==
  ASSUME Pool!PoolTask
  PROVE  /\ UNCHANGED kind
         /\ \/ Stop
            \/ Pool!BuildClient \/ Pool!SendPooled \/ Pool!LibraryDials
            \/ Pool!LibraryRetries \/ Pool!LibraryRedirects
            \/ \E code \in Status : Pool!Counted(code)
            \/ Pool!RequestError
<1>1. Pool!Stop => Stop
  BY DEF Pool!Stop, Stop, Pool!ShouldStop, ShouldStop, Pool!netVars,
         netVars, Pool!histVars, histVars
<1>2. ASSUME NEW code, Pool!Counted(code) PROVE UNCHANGED kind
  BY <1>2 DEF Pool!Counted, Pool!poolVars
<1> QED
  BY <1>1, <1>2
     DEF Pool!PoolTask, Pool!BuildClient, Pool!SendPooled, Pool!LibraryDials,
         Pool!LibraryRetries, Pool!LibraryRedirects, Pool!RequestError, Pool!poolVars

LEMMA PoolTerms ==
  /\ \A n : Pool!ShouldStop(n) <=> ShouldStop(n)
  /\ \A n : Pool!IsLast(n) <=> IsLast(n)
  /\ Pool!IncConn(stats) = IncConn(stats)
  /\ Pool!FailAttempt <=> stats' = SetError(stats) /\ total' = total + 1
  /\ Pool!NextTarget(target) = NextTarget(target)
  /\ Pool!Issue(target) <=> Issue(target)
  /\ \A close : Pool!HandOver(close) <=> HandOver(close)
  /\ \A code : Pool!SetHttpStatus(stats, code) = SetHttpStatus(stats, code)
  /\ Pool!DropConnection <=> link' = "none" /\ wire' = "quiet"
BY DEF Pool!ShouldStop, ShouldStop, Pool!IsLast, IsLast, Pool!FailAttempt,
       Pool!SetError, SetError, Pool!NextTarget, NextTarget, Pool!IncConn, IncConn,
       Pool!Issue, Issue, Pool!SetHttpStatus, SetHttpStatus, Pool!IncOk, IncOk,
       Pool!DropConnection, Pool!HandOver, HandOver

(* The client decides whose step it is.                                    *)
LEMMA KindSteps ==
  ASSUME [LoadNext]_allVars, kind \in Kinds
  PROVE  /\ UNCHANGED kind
         /\ \/ ChunkedTask
            \/ kind \in Raw!Kinds /\ (Raw!RawTask \/ Raw!RawPeer)
            \/ kind \in Pool!Kinds /\ Pool!PoolTask /\ UNCHANGED rawOwn
            \/ kind \notin Raw!Kinds /\ PeerAnswers /\ UNCHANGED rawOwn
            \/ LinkLost /\ UNCHANGED rawOwn
            \/ DeadlinePasses /\ UNCHANGED rawOwn
            \/ UNCHANGED <<vars, rawOwn>>
<1> USE DEF Raw!Kinds, Pool!Kinds
<1>1. CASE Task
  BY <1>1, ChunkedTaskIs, RawTaskIs, PoolTaskIs
     DEF Task, CompioTask, MonoioTask, UringTask, LegacyTask, Rt1Task, ReqwestTask,
         ChunkedTask
<1>2. CASE Peer
  BY <1>2, RawTaskIs DEF Peer
<1>3. CASE Circumstances
  BY <1>3 DEF Circumstances
<1>4. CASE UNCHANGED allVars
  BY <1>4 DEF allVars
<1> QED BY <1>1, <1>2, <1>3, <1>4 DEF LoadNext
-----------------------------------------------------------------------------
(* Every step keeps the types.                                             *)
LEMMA ChunkedTypes ==
  ASSUME TypeOK, ChunkedTask
  PROVE  TypeOK'
<1>1. ASSUME NEW code \in Status, Chunked!ReceiveReply(code) PROVE TypeOK'
  <2>1. pc' \in Points /\ Receive(code, pc') /\ code \in Nat
    BY <1>1, ChunkedReceives DEF Points
  <2>2. UNCHANGED <<generation, sniDials>> \/ PickName
    BY <1>1, ChunkedReceives
  <2> QED BY <2>1, <2>2, ReceiveTypeOK
<1>2. CASE Chunked!RedialOk
  <2>1. closing' \in BOOLEAN
    BY <1>2, Zenon DEF Chunked!RedialOk, Chunked!NewConnection
  <2>2. link' = "up" /\ wire' = "quiet" /\ onConn' = 0 /\ made' = made + 1
    BY <1>2 DEF Chunked!RedialOk, Chunked!NewConnection
  <2> QED BY <1>2, <2>1, <2>2 DEF Chunked!RedialOk, TypeOK, Points
<1>3. CASE Chunked!RedialFail
  <2>1. stats' = SetError(stats) /\ total' = total + 1
    BY <1>3 DEF Chunked!RedialFail, Chunked!FailAttempt, Chunked!SetError, SetError
  <2> QED BY <1>3, <2>1, StatsTypes
          DEF Chunked!RedialFail, Chunked!netVars, Chunked!histVars, TypeOK, Points
<1>4. CASE Chunked!ReadyError
  <2>1. stats' = SetError(stats)
    BY <1>4 DEF Chunked!ReadyError, Chunked!SetError, SetError
  <2> QED BY <1>4, <2>1, StatsTypes
          DEF Chunked!ReadyError, Chunked!netVars, Chunked!histVars, TypeOK, Points
<1> QED BY <1>1, <1>2, <1>3, <1>4, ChunkedTaskIs, SharedTypeOK

(* A request that is issued goes to one of the targets.                    *)
LEMMA IssueTypes ==
  ASSUME TypeOK, Issue(target), target' = NextTarget(target)
  PROVE  /\ target' \in TargetIds /\ issued' = issued + 1 /\ issued' \in Nat
         /\ late' \in Nat /\ sentTo' \in [TargetIds -> Nat]
         /\ UNCHANGED sniDials => sniDials' \in [NameIds -> Nat]
BY DEF Issue, NextTarget, TypeOK, TargetIds

LEMMA PoolTypes ==
  ASSUME TypeOK, Pool!PoolTask
  PROVE  TypeOK'
<1>a. /\ pc \in Points /\ total \in Nat /\ connReq \in Nat /\ stats \in Stats
      /\ onConn \in Nat /\ made \in Nat /\ closing \in BOOLEAN
      /\ link \in {"none", "up", "down"} /\ wire \in {"quiet", "request", "response"}
  BY DEF TypeOK
<1>b. /\ IncConn(stats) \in Stats /\ SetError(stats) \in Stats
      /\ \A code \in Status : SetHttpStatus(stats, code) \in Stats
  BY <1>a, StatsTypes
<1>1. CASE Stop
  BY <1>1, SharedTypeOK
<1>2. CASE Pool!BuildClient
  BY <1>2, <1>a, <1>b, PoolTerms DEF Pool!BuildClient, Pool!histVars, TypeOK, Points
<1>3. CASE Pool!SendPooled
  <2>1. Issue(target) /\ target' = NextTarget(target)
    BY <1>3, PoolTerms DEF Pool!SendPooled
  <2>2. Pool!LastPooled(connReq + 1) \in BOOLEAN
    BY DEF Pool!LastPooled, Pool!IsLast
  <2>3. /\ onConn' \in Nat /\ closing' \in BOOLEAN
        /\ wire' \in {"quiet", "request", "response"}
    BY <1>3, <1>a, <2>2, PoolTerms DEF Pool!SendPooled, HandOver
  <2>4. connReq' \in Nat /\ link' \in {"none", "up", "down"} /\ pc' \in Points
    BY <1>3, <1>a DEF Pool!SendPooled, Points
  <2> QED BY <1>3, <2>1, <2>3, <2>4, IssueTypes DEF Pool!SendPooled, TypeOK
<1>4. CASE Pool!LibraryDials
  <2>1. Pool!LastPooled(connReq) \in BOOLEAN
    BY DEF Pool!LastPooled, Pool!IsLast
  <2> QED BY <1>4, <1>a, <2>1 DEF Pool!LibraryDials, Pool!taskVars, TypeOK
<1>5. CASE Pool!LibraryRetries
  BY <1>5 DEF Pool!LibraryRetries, Pool!taskVars, Pool!histVars, TypeOK
<1>6. CASE Pool!LibraryRedirects
  BY <1>6 DEF Pool!LibraryRedirects, Pool!taskVars, Pool!histVars, TypeOK
<1>7. ASSUME NEW code \in Status, Pool!Counted(code) PROVE TypeOK'
  <2>1. pc' \in Points /\ stats' \in Stats
    BY <1>7, <1>b, PoolTerms DEF Pool!Counted, Pool!AfterCounted, Points
  <2>2. connReq' \in Nat /\ link' \in {"none", "up", "down"}
    BY <1>7, <1>a DEF Pool!Counted
  <2> QED BY <1>7, <2>1, <2>2 DEF Pool!Counted, Pool!histVars, TypeOK
<1>8. CASE Pool!RequestError
  BY <1>8, <1>a, <1>b, PoolTerms DEF Pool!RequestError, Pool!histVars, TypeOK, Points
<1> QED BY <1>1, <1>2, <1>3, <1>4, <1>5, <1>6, <1>7, <1>8, PoolTaskIs

(* What arrives for a raw client, and what it keeps, are pieces.           *)
LEMMA RawTypes ==
  ASSUME LoadTypes, kind \in Raw!Kinds, Raw!RawTask \/ Raw!RawPeer
  PROVE  LoadTypes'
<1>a. /\ TypeOK /\ pc \in Points /\ total \in Nat /\ connReq \in Nat
      /\ stats \in Stats /\ onConn \in Nat /\ issued \in Nat /\ served \in Nat
      /\ link \in {"none", "up", "down"} /\ kind \in Kinds
      /\ owed \in Seq(Nat) /\ inbox \in Seq(Piece) /\ buffer \in Seq(Piece)
      /\ eofs \in Nat /\ extras \in Nat /\ misread \in BOOLEAN
  BY DEF LoadTypes, TypeOK
<1>b. /\ SetError(stats) \in Stats
      /\ \A code \in Status : SetHttpStatus(stats, code) \in Stats
  BY <1>a, StatsTypes
<1>c. kind' = kind
  BY RawTaskIs
<1>d. TypeOK' /\ owed' \in Seq(Nat) /\ inbox' \in Seq(Piece) /\ buffer' \in Seq(Piece)
      /\ eofs' \in Nat /\ extras' \in Nat /\ misread' \in BOOLEAN
      => LoadTypes'
  BY <1>a, <1>c DEF LoadTypes
<1>e. <<>> \in Seq(Nat) /\ <<>> \in Seq(Piece)
  OBVIOUS
<1>1. CASE Stop /\ UNCHANGED rawOwn
  BY <1>1, <1>a, <1>d, SharedTypeOK DEF rawOwn
<1>2. CASE Raw!BeginConnect
  BY <1>2, <1>a, <1>d DEF Raw!BeginConnect, Raw!netVars, Raw!histVars, Raw!rawVars,
     Raw!byteVars, Raw!tallies, TypeOK, Points
<1>3. CASE DialOk /\ Raw!Connected
  <2>1. TypeOK'
    BY <1>3, <1>a, SharedTypeOK DEF Dial
  <2>2. owed' = <<>> /\ inbox' = <<>> /\ buffer' = <<>> /\ UNCHANGED <<eofs, extras, misread>>
    BY <1>3 DEF Raw!Connected, Raw!tallies
  <2> QED BY <1>a, <1>d, <1>e, <2>1, <2>2
<1>4. CASE DialFail /\ UNCHANGED rawOwn
  <2>1. TypeOK'
    BY <1>4, <1>a, SharedTypeOK DEF Dial
  <2> QED BY <1>4, <1>a, <1>d, <2>1 DEF rawOwn
<1>5. CASE Raw!WriteOk
  <2>1. Issue(target) /\ target' = NextTarget(target)
    BY <1>5, RawTerms DEF Raw!WriteOk
  <2>2. onConn' \in Nat /\ owed' \in Seq(Nat)
    <3>1. Append(owed, issued + 1) \in Seq(Nat) /\ onConn + 1 \in Nat
      BY <1>a
    <3> QED BY <1>5, <1>a, <3>1 DEF Raw!WriteOk
  <2>3. TypeOK'
    BY <1>5, <1>a, <2>1, <2>2, IssueTypes DEF Raw!WriteOk, TypeOK, Points
  <2> QED BY <1>5, <1>a, <1>d, <2>2, <2>3 DEF Raw!WriteOk, Raw!tallies
<1>6. CASE Raw!WriteFails
  <2>1. Issue(target) /\ target' = NextTarget(target)
    BY <1>6, RawTerms DEF Raw!WriteFails
  <2>2. TypeOK'
    BY <1>6, <1>a, <1>b, <2>1, IssueTypes, RawTerms
       DEF Raw!WriteFails, Raw!Disconnect, TypeOK, Points
  <2> QED BY <1>6, <1>a, <1>d, <1>e, <2>2
          DEF Raw!WriteFails, Raw!Disconnect, Raw!tallies
<1>7. ASSUME NEW n \in 1 .. Len(inbox), NEW code \in Status, Raw!Read(n, code)
      PROVE  LoadTypes'
  <2> DEFINE b == buffer \o SubSeq(inbox, 1, n)
  <2>1. b \in Seq(Piece) /\ SubSeq(inbox, n + 1, Len(inbox)) \in Seq(Piece)
    BY <1>a
  <2>2. SubSeq(b, 3, Len(b)) \in Seq(Piece)
    <3> HIDE DEF b
    <3> QED BY <2>1
  <2>3. inbox' \in Seq(Piece) /\ buffer' \in Seq(Piece)
    BY <1>7, <2>1, <2>2 DEF Raw!Read, Raw!Count, Raw!Drain
  <2>4. /\ stats' \in Stats /\ total' \in Nat /\ connReq' \in Nat /\ pc' \in Points
        /\ link' \in {"none", "up", "down"}
    BY <1>7, <1>a, <1>b, RawTerms, SMTT(30) DEF Raw!Read, Raw!Count, Raw!AfterCount, Points
  <2>5. misread' \in BOOLEAN
    BY <1>7, <1>a DEF Raw!Read, Raw!Count
  <2>6. TypeOK'
    BY <1>7, <1>a, <2>4 DEF Raw!Read, Raw!histVars, TypeOK
  <2> QED BY <1>7, <1>a, <1>d, <2>3, <2>5, <2>6 DEF Raw!Read
<1>8. CASE Raw!ReadEof
  <2>1. TypeOK'
    BY <1>8, <1>a, RawTerms DEF Raw!ReadEof, Raw!Disconnect, Raw!histVars, TypeOK, Points
  <2> QED BY <1>8, <1>a, <1>d, <1>e, <2>1 DEF Raw!ReadEof, Raw!Disconnect
<1>9. CASE Raw!ReadError
  <2>1. TypeOK'
    BY <1>9, <1>a, <1>b, RawTerms DEF Raw!ReadError, Raw!Disconnect, Raw!histVars,
       TypeOK, Points
  <2> QED BY <1>9, <1>a, <1>d, <1>e, <2>1 DEF Raw!ReadError, Raw!Disconnect, Raw!tallies
<1>10. CASE Raw!PeerAnswersRaw \/ Raw!PeerAnswersFat \/ Raw!PeerBreaksOff
  <2>1. PICK pieces \in Seq(Piece), count \in {0, 1} : Raw!AnswersWith(pieces, count)
    <3>1. owed # <<>> => Head(owed) \in Nat
      BY <1>a
    <3>2. owed # <<>> =>
            /\ Raw!Whole(Head(owed)) \in Seq(Piece) /\ Raw!Fat(Head(owed)) \in Seq(Piece)
            /\ Raw!Start(Head(owed)) \in Seq(Piece)
      BY <3>1 DEF Raw!Whole, Raw!Fat, Raw!Start, Piece
    <3> QED BY <1>10, <3>2 DEF Raw!PeerAnswersRaw, Raw!PeerAnswersFat,
            Raw!PeerBreaksOff, Raw!AnswersWith
  <2>2. inbox' \in Seq(Piece) /\ owed' \in Seq(Nat)
    BY <1>a, <2>1 DEF Raw!AnswersWith, Raw!Sends
  <2>3. link' \in {"none", "up", "down"}
    BY <1>10, <1>a DEF Raw!PeerAnswersRaw, Raw!PeerAnswersFat, Raw!PeerBreaksOff
  <2>4. TypeOK'
    BY <1>a, <2>1, <2>3 DEF Raw!AnswersWith, Raw!Sends, Raw!taskVars, Raw!histVars, TypeOK
  <2> QED BY <1>a, <1>d, <2>1, <2>2, <2>4 DEF Raw!AnswersWith, Raw!Sends
<1>11. CASE Raw!PeerVolunteers
  <2>1. Raw!Whole(0) \in Seq(Piece)
    BY DEF Raw!Whole, Piece
  <2>2. TypeOK' /\ inbox' \in Seq(Piece)
    BY <1>11, <1>a, <2>1 DEF Raw!PeerVolunteers, Raw!Sends, Raw!taskVars, Raw!histVars, TypeOK
  <2> QED BY <1>11, <1>a, <1>d, <2>2 DEF Raw!PeerVolunteers, Raw!Sends
<1> QED BY <1>1, <1>2, <1>3, <1>4, <1>5, <1>6, <1>7, <1>8, <1>9, <1>10, <1>11, RawTaskIs

LEMMA NextLoadTypes ==
  ASSUME LoadTypes, [LoadNext]_allVars
  PROVE  LoadTypes'
<1>a. TypeOK /\ kind \in Kinds
  BY DEF LoadTypes
<1>1. CASE kind \in Raw!Kinds /\ (Raw!RawTask \/ Raw!RawPeer)
  BY <1>1, RawTypes
<1>2. CASE ChunkedTask
  <2>1. TypeOK' /\ UNCHANGED <<kind, rawOwn>>
    BY <1>2, <1>a, ChunkedTypes, ChunkedTaskIs
  <2> QED BY <2>1 DEF LoadTypes, rawOwn
<1>3. CASE Pool!PoolTask /\ UNCHANGED rawOwn
  <2>1. TypeOK' /\ UNCHANGED <<kind, rawOwn>>
    BY <1>3, <1>a, PoolTypes, PoolTaskIs
  <2> QED BY <2>1 DEF LoadTypes, rawOwn
<1>4. CASE (PeerAnswers \/ LinkLost \/ DeadlinePasses \/ UNCHANGED vars) /\ UNCHANGED rawOwn
  <2>1. TypeOK' /\ UNCHANGED <<kind, rawOwn>>
    BY <1>4, <1>a, SharedTypeOK, KindSteps DEF Environment
  <2> QED BY <2>1 DEF LoadTypes, rawOwn
<1> QED BY <1>a, <1>1, <1>2, <1>3, <1>4, KindSteps

-----------------------------------------------------------------------------
(* The server names take turns: only BeginDial and a reconnect in place    *)
(* pick one.                                                               *)
LEMMA NextNames ==
  ASSUME LoadTypes, LoadNames, [LoadNext]_allVars
  PROVE  LoadNames'
<1>a. TypeOK /\ kind \in Kinds
  BY DEF LoadTypes
<1>1. CASE UNCHANGED <<generation, sniDials>>
  BY <1>1 DEF LoadNames, Turns, InRound, SniIndex
<1>2. CASE PickName
  BY <1>a, <1>2, NameTurn DEF LoadNames
<1>3. ASSUME ChunkedTask PROVE UNCHANGED <<generation, sniDials>> \/ PickName
  BY <1>3, ChunkedTaskIs, ChunkedReceives
     DEF Stop, BeginDial, Dial, DialOk, DialFail, SendRequest, Issue, ReplyError,
         ReadyOk, Chunked!RedialOk, Chunked!RedialFail, Chunked!ReadyError,
         histVars, Chunked!histVars
<1>4. ASSUME Raw!RawTask \/ Raw!RawPeer PROVE UNCHANGED <<generation, sniDials>>
  BY <1>4, RawTaskIs
     DEF Stop, DialOk, DialFail, histVars, Raw!histVars, Raw!BeginConnect,
         Raw!WriteOk, Raw!WriteFails, Raw!Read, Raw!ReadEof, Raw!ReadError,
         Raw!PeerAnswersRaw, Raw!PeerAnswersFat, Raw!PeerBreaksOff,
         Raw!AnswersWith, Raw!PeerVolunteers, Raw!Sends, Raw!taskVars
<1>5. ASSUME Pool!PoolTask PROVE UNCHANGED <<generation, sniDials>>
  BY <1>5, PoolTaskIs
     DEF Stop, histVars, Pool!histVars, Pool!taskVars, Pool!BuildClient,
         Pool!SendPooled, Pool!LibraryDials, Pool!LibraryRetries,
         Pool!LibraryRedirects, Pool!Counted, Pool!RequestError
<1>6. PeerAnswers \/ LinkLost \/ DeadlinePasses \/ UNCHANGED vars =>
        UNCHANGED <<generation, sniDials>>
  BY DEF PeerAnswers, LinkLost, DeadlinePasses, vars, taskVars, histVars
<1> QED BY <1>a, <1>1, <1>2, <1>3, <1>4, <1>5, <1>6, KindSteps

(* What a step may do to the budget: begin to try, stop, issue a request,  *)
(* use up an attempt, or none of these.                                    *)
Trying == {"dial", "send", "reply", "ready", "redial"}

BudgetMove ==
  \/ /\ pc = "loop" /\ ~ShouldStop(total) /\ pc' \in {"dial", "send"}
     /\ UNCHANGED <<issued, total, expired>>
  \/ /\ pc = "loop" /\ ShouldStop(total) /\ pc' = "done"
     /\ UNCHANGED <<issued, total, expired>>
  \/ /\ pc = "send" /\ pc' = "reply" /\ issued' = issued + 1
     /\ UNCHANGED <<total, expired>>
  \/ /\ pc \in Trying /\ total' = total + 1
     /\ issued' = issued \/ (issued' = issued + 1 /\ pc # "reply")
     /\ \/ pc' = "loop"
        \/ pc' = "done" /\ ShouldStop(total + 1)
        \/ pc' \in {"send", "ready", "redial"} /\ ~ShouldStop(total + 1)
     /\ UNCHANGED expired
  \/ /\ pc' = pc \/ (pc \in {"dial", "ready", "redial"} /\ pc' \in {"send", "loop"})
     /\ expired => expired'
     /\ UNCHANGED <<issued, total>>

LEMMA BudgetMoves ==
  ASSUME LoadTypes, LoadBudget, BudgetMove
  PROVE  LoadBudget'
<1>a. /\ total \in Nat /\ issued \in Nat /\ expired \in BOOLEAN /\ pc \in Points
      /\ Requests \subseteq Nat
  BY DEF LoadTypes, TypeOK
<1> QED BY <1>a DEF LoadBudget, BudgetMove, ShouldStop, Trying

LEMMA ChunkedBudget ==
  ASSUME ChunkedTask
  PROVE  BudgetMove
<1>1. ASSUME NEW code \in Status, Chunked!ReceiveReply(code) PROVE BudgetMove
  BY <1>1, ChunkedReceives DEF Receive, BudgetMove, Trying
<1>2. CASE Stop \/ BeginDial
  BY <1>2 DEF Stop, BeginDial, histVars, BudgetMove
<1>3. CASE Dial
  BY <1>3 DEF Dial, DialOk, DialFail, FailAttempt, histVars, BudgetMove, Trying
<1>4. CASE SendRequest
  BY <1>4 DEF SendRequest, Issue, BudgetMove
<1>5. CASE ReplyError
  BY <1>5 DEF ReplyError, FailAttempt, histVars, BudgetMove, Trying
<1>6. CASE ReadyOk \/ Chunked!ReadyError \/ Chunked!RedialOk
  BY <1>6 DEF ReadyOk, Chunked!ReadyError, Chunked!RedialOk, histVars, Chunked!histVars,
     BudgetMove
<1>7. CASE Chunked!RedialFail
  BY <1>7 DEF Chunked!RedialFail, Chunked!FailAttempt, Chunked!histVars, BudgetMove, Trying
<1> QED BY <1>1, <1>2, <1>3, <1>4, <1>5, <1>6, <1>7, ChunkedTaskIs

LEMMA RawBudget ==
  ASSUME Raw!RawTask \/ Raw!RawPeer
  PROVE  BudgetMove
<1>1. CASE Stop
  BY <1>1 DEF Stop, histVars, BudgetMove
<1>2. CASE Raw!BeginConnect
  BY <1>2, RawTerms DEF Raw!BeginConnect, Raw!histVars, BudgetMove
<1>3. CASE DialOk \/ DialFail
  BY <1>3 DEF DialOk, DialFail, FailAttempt, histVars, BudgetMove, Trying
<1>4. CASE Raw!WriteOk
  BY <1>4, RawTerms DEF Raw!WriteOk, Issue, BudgetMove
<1>5. CASE Raw!WriteFails
  BY <1>5, RawTerms DEF Raw!WriteFails, Issue, BudgetMove, Trying
<1>6. ASSUME NEW n, NEW code, Raw!Read(n, code) PROVE BudgetMove
  BY <1>6, RawTerms DEF Raw!Read, Raw!Count, Raw!AfterCount, Raw!histVars, BudgetMove,
     Trying
<1>7. CASE Raw!ReadEof \/ Raw!ReadError
  BY <1>7, RawTerms DEF Raw!ReadEof, Raw!ReadError, Raw!histVars, BudgetMove, Trying
<1>8. CASE Raw!PeerAnswersRaw \/ Raw!PeerAnswersFat \/ Raw!PeerBreaksOff
           \/ Raw!PeerVolunteers
  BY <1>8 DEF Raw!PeerAnswersRaw, Raw!PeerAnswersFat, Raw!PeerBreaksOff,
     Raw!PeerVolunteers, Raw!AnswersWith, Raw!Sends, Raw!taskVars, Raw!histVars, BudgetMove
<1> QED BY <1>1, <1>2, <1>3, <1>4, <1>5, <1>6, <1>7, <1>8, RawTaskIs

LEMMA PoolBudget ==
  ASSUME Pool!PoolTask
  PROVE  BudgetMove
<1>1. CASE Stop
  BY <1>1 DEF Stop, histVars, BudgetMove
<1>2. CASE Pool!BuildClient
  BY <1>2, PoolTerms DEF Pool!BuildClient, Pool!histVars, BudgetMove
<1>3. CASE Pool!SendPooled
  BY <1>3, PoolTerms DEF Pool!SendPooled, Issue, BudgetMove
<1>4. CASE Pool!LibraryDials \/ Pool!LibraryRetries \/ Pool!LibraryRedirects
  BY <1>4 DEF Pool!LibraryDials, Pool!LibraryRetries, Pool!LibraryRedirects,
     Pool!taskVars, Pool!histVars, BudgetMove
<1>5. ASSUME NEW code \in Status, Pool!Counted(code) PROVE BudgetMove
  BY <1>5, PoolTerms DEF Pool!Counted, Pool!AfterCounted, Pool!histVars, BudgetMove, Trying
<1>6. CASE Pool!RequestError
  BY <1>6, PoolTerms DEF Pool!RequestError, Pool!histVars, BudgetMove, Trying
<1> QED BY <1>1, <1>2, <1>3, <1>4, <1>5, <1>6, PoolTaskIs

(* The budget is looked at before an attempt and after it.                 *)
LEMMA NextLoadBudget ==
  ASSUME LoadTypes, LoadBudget, [LoadNext]_allVars
  PROVE  LoadBudget'
<1>1. kind \in Kinds
  BY DEF LoadTypes
<1>2. PeerAnswers \/ LinkLost \/ DeadlinePasses \/ UNCHANGED vars => BudgetMove
  BY DEF PeerAnswers, LinkLost, DeadlinePasses, vars, taskVars, histVars, BudgetMove
<1> QED BY <1>1, <1>2, KindSteps, ChunkedBudget, RawBudget, PoolBudget, BudgetMoves
-----------------------------------------------------------------------------
(* hyper-chunked: the reconnect in place, and the dead connection that is  *)
(* used once more.                                                         *)
LEMMA NextChunked ==
  ASSUME LoadTypes, ChunkedInv, kind = "hyper-chunked", [LoadNext]_allVars
  PROVE  ChunkedInv'
<1>a. /\ total \in Nat /\ connReq \in Nat /\ stats \in Stats /\ onConn \in Nat
      /\ served \in Nat /\ Rpc \in Nat /\ Most \in Nat \ {0} /\ kind \in Kinds
      /\ link \in {"none", "up", "down"} /\ wire \in {"quiet", "request", "response"}
      /\ closing \in BOOLEAN
  BY DEF LoadTypes, TypeOK, Most
<1>b. /\ stats.conn \in Nat /\ stats.err \in Nat
      /\ Answered(stats) \in Nat /\ Recorded(stats) = Answered(stats) + stats.err
  BY <1>a, StatsCounts
<1>c. stats' \in Stats
  BY NextLoadTypes DEF LoadTypes, TypeOK
<1>d. Recorded(stats') = Answered(stats') + stats'.err
  BY <1>c, StatsCounts
<1>e. /\ IncConn(stats).conn = stats.conn + 1 /\ IncConn(stats).err = stats.err
      /\ Answered(IncConn(stats)) = Answered(stats)
      /\ SetError(stats).conn = stats.conn /\ SetError(stats).err = stats.err + 1
      /\ Answered(SetError(stats)) = Answered(stats)
  BY <1>a, StatsCounts
<1> USE <1>a, <1>b, <1>d, <1>e DEF ChunkedInv, ReadOnce, ClosesOnLast
<1>1. CASE Stop \/ BeginDial
  BY <1>1 DEF Stop, BeginDial, PickName, netVars
<1>2. CASE DialOk
  BY <1>2 DEF DialOk, NewConnection
<1>3. CASE DialFail
  BY <1>3 DEF DialFail, FailAttempt, netVars
<1>4. CASE SendRequest
  <2>1. IsLast(connReq + 1) <=> connReq + 1 = Most
    BY <1>4 DEF SendRequest, IsLast, Most
  <2> QED BY <1>4, <2>1 DEF SendRequest, HandOver
<1>5. ASSUME NEW code \in Status, Chunked!ReceiveReply(code) PROVE ChunkedInv'
  <2>1. /\ pc' \in {"done", "redial", "ready"} /\ Receive(code, pc')
        /\ pc' = "ready" => ~IsLast(connReq)
    BY <1>5, ChunkedReceives
  <2>2. /\ stats'.conn = stats.conn /\ stats'.err = stats.err
        /\ Answered(stats') = Answered(stats) + 1
    BY <2>1, StatsCounts DEF Receive
  <2>3. pc' = "ready" => connReq < Most
    BY <2>1 DEF IsLast, Most
  <2> QED BY <2>1, <2>2, <2>3 DEF Receive
<1>6. CASE ReplyError
  BY <1>6 DEF ReplyError, Broken, FailAttempt, DropConnection
<1>7. CASE ReadyOk
  BY <1>7 DEF ReadyOk, netVars
<1>8. CASE Chunked!ReadyError
  <2>1. Chunked!SetError(stats) = SetError(stats)
    BY DEF Chunked!SetError, SetError
  <2> QED BY <1>8, <2>1 DEF Chunked!ReadyError, Chunked!netVars
<1>9. CASE Chunked!RedialOk
  BY <1>9 DEF Chunked!RedialOk, Chunked!NewConnection
<1>10. CASE Chunked!RedialFail
  <2>1. Chunked!SetError(stats) = SetError(stats)
    BY DEF Chunked!SetError, SetError
  <2> QED BY <1>10, <2>1 DEF Chunked!RedialFail, Chunked!FailAttempt, Chunked!netVars
<1>11. CASE PeerAnswers
  BY <1>11 DEF PeerAnswers, taskVars
<1>12. CASE LinkLost
  BY <1>12 DEF LinkLost, taskVars
<1>13. CASE DeadlinePasses \/ UNCHANGED vars
  BY <1>13 DEF DeadlinePasses, vars, taskVars, netVars
<1> QED
  BY <1>1, <1>2, <1>3, <1>4, <1>5, <1>6, <1>7, <1>8, <1>9, <1>10, <1>11, <1>12, <1>13,
     KindSteps, ChunkedTaskIs DEF Dial, Raw!Kinds, Pool!Kinds
-----------------------------------------------------------------------------
(* The pooled clients: the library keeps, replaces and closes connections  *)
(* as it sees fit, and a response is counted once all the same.            *)
LEMMA NextPool ==
  ASSUME LoadTypes, PoolInv, kind \in Pool!Kinds, [LoadNext]_allVars
  PROVE  PoolInv'
<1>a. /\ total \in Nat /\ connReq \in Nat /\ stats \in Stats /\ onConn \in Nat
      /\ served \in Nat /\ Rpc \in Nat /\ Most \in Nat \ {0} /\ kind \in Kinds
      /\ link \in {"none", "up", "down"} /\ wire \in {"quiet", "request", "response"}
      /\ closing \in BOOLEAN /\ eofs \in Nat
  BY DEF LoadTypes, TypeOK, Most
<1>b. /\ stats.conn \in Nat /\ stats.err \in Nat
      /\ Answered(stats) \in Nat /\ Recorded(stats) = Answered(stats) + stats.err
  BY <1>a, StatsCounts
<1>c. stats' \in Stats
  BY NextLoadTypes DEF LoadTypes, TypeOK
<1>d. Recorded(stats') = Answered(stats') + stats'.err
  BY <1>c, StatsCounts
<1>e. /\ IncConn(stats).conn = stats.conn + 1 /\ IncConn(stats).err = stats.err
      /\ Answered(IncConn(stats)) = Answered(stats)
      /\ SetError(stats).conn = stats.conn /\ SetError(stats).err = stats.err + 1
      /\ Answered(SetError(stats)) = Answered(stats)
  BY <1>a, StatsCounts
<1>f. kind' = kind /\ eofs' = eofs
  BY <1>a, KindSteps, ChunkedTaskIs DEF rawOwn, Raw!Kinds, Pool!Kinds
<1>g. /\ \A n : Pool!LastPooled(n) <=> kind # "hyper-rt1" /\ n >= Rpc
      /\ \A n : Pool!LastPooled(n)' <=> kind # "hyper-rt1" /\ n >= Rpc
      /\ Most = IF Rpc = 0 THEN 1 ELSE Rpc
  BY <1>f DEF Pool!LastPooled, Pool!Shares, Pool!IsLast, Most
<1> USE <1>a, <1>b, <1>d, <1>e, <1>f, <1>g DEF PoolInv, AttemptsOnce, ReadOnce
<1>1. CASE Stop
  BY <1>1 DEF Stop, netVars
<1>2. CASE Pool!BuildClient
  BY <1>2, PoolTerms DEF Pool!BuildClient, Pool!Shares
<1>3. CASE Pool!SendPooled
  <2>1. /\ pc = "send" /\ pc' = "reply" /\ HandOver(Pool!LastPooled(connReq + 1))
        /\ connReq' = (IF kind = "hyper-rt1" THEN 0 ELSE connReq + 1)
        /\ link' = (IF link = "up" THEN "up" ELSE "none")
        /\ UNCHANGED <<total, stats, served>>
    BY <1>3, PoolTerms DEF Pool!SendPooled, Pool!Shares
  <2>2. CASE link = "up"
    <3>1. /\ onConn' = onConn + 1 /\ wire' = "request" /\ link' = "up"
          /\ closing' = Pool!LastPooled(connReq + 1)
      BY <2>1, <2>2 DEF HandOver
    <3>2. closing' <=> kind # "hyper-rt1" /\ connReq + 1 >= Rpc
      BY <3>1
    <3> QED BY <2>1, <2>2, <3>1, <3>2
  <2>3. CASE link # "up"
    <3>1. UNCHANGED <<wire, onConn, closing>> /\ link' = "none"
      BY <2>1, <2>3 DEF HandOver
    <3> QED BY <2>1, <3>1
  <2> QED BY <2>2, <2>3
<1>4. CASE Pool!LibraryDials
  <2>1. /\ pc = "reply" /\ link = "none" /\ link' = "up" /\ wire' = "request" /\ onConn' = 1
        /\ closing' = Pool!LastPooled(connReq)
        /\ UNCHANGED <<pc, total, connReq, stats, served>>
    BY <1>4 DEF Pool!LibraryDials, Pool!taskVars
  <2>2. closing' <=> kind # "hyper-rt1" /\ connReq >= Rpc
    BY <2>1
  <2> QED BY <2>1, <2>2 DEF Pool!Kinds
<1>5. CASE Pool!LibraryRetries
  BY <1>5 DEF Pool!LibraryRetries, Pool!taskVars
<1>6. CASE Pool!LibraryRedirects
  BY <1>6 DEF Pool!LibraryRedirects, Pool!taskVars
<1>7. ASSUME NEW code \in Status, Pool!Counted(code) PROVE PoolInv'
  <2>1. /\ stats'.conn = stats.conn /\ stats'.err = stats.err
        /\ Answered(stats') = Answered(stats) + 1
    BY <1>7, StatsCounts, PoolTerms DEF Pool!Counted
  <2>2. /\ pc = "reply" /\ wire = "response" /\ wire' = "quiet"
        /\ pc' \in {"done", "send"} /\ total' = total + 1
        /\ UNCHANGED <<onConn, closing, served>>
    BY <1>7 DEF Pool!Counted, Pool!AfterCounted
  <2>3. IF Pool!LastPooled(connReq)
        THEN connReq' = 0 /\ link' = "none"
        ELSE connReq' = connReq /\ link' \in {link, "none"}
    BY <1>7 DEF Pool!Counted
  <2>4. AttemptsOnce' /\ ReadOnce' /\ wire' = "quiet"
    BY <2>1, <2>2
  <2>5. CASE Pool!LastPooled(connReq)
    BY <2>2, <2>3, <2>4, <2>5
  <2>6. CASE ~Pool!LastPooled(connReq)
    BY <2>2, <2>3, <2>4, <2>6
  <2> QED BY <2>5, <2>6
<1>8. CASE Pool!RequestError
  BY <1>8, PoolTerms DEF Pool!RequestError
<1>9. CASE PeerAnswers
  BY <1>9 DEF PeerAnswers, taskVars
<1>10. CASE LinkLost
  BY <1>10 DEF LinkLost, taskVars
<1>11. CASE DeadlinePasses \/ UNCHANGED vars
  BY <1>11 DEF DeadlinePasses, vars, taskVars, netVars
<1> QED
  BY <1>1, <1>2, <1>3, <1>4, <1>5, <1>6, <1>7, <1>8, <1>9, <1>10, <1>11,
     KindSteps, ChunkedTaskIs, PoolTaskIs DEF Raw!Kinds, Pool!Kinds
-----------------------------------------------------------------------------
(* What a read leaves behind, and what it decodes.                         *)
LEMMA ReadPieces ==
  ASSUME NEW b \in Seq(Piece), NEW i \in Seq(Piece), NEW n \in 1 .. Len(i)
  PROVE  /\ b \o SubSeq(i, 1, n) \in Seq(Piece)
         /\ Len(b \o SubSeq(i, 1, n)) = Len(b) + n
         /\ \A k \in 1 .. Len(b) : (b \o SubSeq(i, 1, n))[k] = b[k]
         /\ \A k \in 1 .. n : (b \o SubSeq(i, 1, n))[Len(b) + k] = i[k]
         /\ Len(SubSeq(i, n + 1, Len(i))) = Len(i) - n
         /\ \A k \in 1 .. Len(i) - n : SubSeq(i, n + 1, Len(i))[k] = i[n + k]
<1>1. /\ Len(i) \in Nat /\ n \in Nat /\ n >= 1 /\ n <= Len(i)
  OBVIOUS
<1>2. /\ SubSeq(i, 1, n) \in Seq(Piece) /\ Len(SubSeq(i, 1, n)) = n
      /\ \A k \in 1 .. n : SubSeq(i, 1, n)[k] = i[k]
  BY <1>1
<1>3. /\ Len(SubSeq(i, n + 1, Len(i))) = Len(i) - n
      /\ \A k \in 1 .. Len(i) - n : SubSeq(i, n + 1, Len(i))[k] = i[n + k]
  BY <1>1
<1> DEFINE t == SubSeq(i, 1, n)
<1> HIDE DEF t
<1>4. /\ b \o t \in Seq(Piece) /\ Len(b \o t) = Len(b) + Len(t)
      /\ \A k \in 1 .. Len(b) : (b \o t)[k] = b[k]
      /\ \A k \in 1 .. Len(t) : (b \o t)[Len(b) + k] = t[k]
  <2>1. t \in Seq(Piece) /\ Len(b) \in Nat
    BY <1>2 DEF t
  <2> QED BY <2>1
<1> QED BY <1>2, <1>3, <1>4 DEF t

(* A response that is counted.                                             *)
LEMMA RawCounted ==
  ASSUME stats \in Stats, connReq \in Nat, NEW b, NEW code \in Status,
         Raw!Count(b, code)
  PROVE  /\ stats'.conn = stats.conn /\ stats'.err = stats.err
         /\ Answered(stats') = Answered(stats) + 1
         /\ total' = total + 1 /\ connReq' = connReq + 1
         /\ pc' \in {"done", "loop", "send"}
         /\ pc' = "send" => connReq + 1 < Most
         /\ link' = IF pc' = "send" THEN link ELSE "none"
         /\ buffer' = SubSeq(b, 3, Len(b))
<1>1. stats' = SetHttpStatus(stats, code) /\ code \in Nat
  BY RawTerms DEF Raw!Count
<1>2. /\ stats'.conn = stats.conn /\ stats'.err = stats.err
      /\ Answered(stats') = Answered(stats) + 1
  BY <1>1, StatsCounts
<1>3. ~IsLast(connReq + 1) => connReq + 1 < Most
  BY DEF IsLast, Most
<1>4. /\ pc' \in {"done", "loop", "send"}
      /\ pc' = "send" => ~IsLast(connReq + 1)
  BY RawTerms DEF Raw!Count, Raw!AfterCount
<1> QED BY <1>2, <1>3, <1>4 DEF Raw!Count, Raw!Drain

(* The raw clients: an attempt is recorded once, or ends with an end of    *)
(* file.                                                                   *)
LEMMA NextRawRest ==
  ASSUME LoadTypes, RawRest, kind \in Raw!Kinds, [LoadNext]_allVars
  PROVE  RawRest'
<1>a. /\ total \in Nat /\ connReq \in Nat /\ stats \in Stats /\ onConn \in Nat
      /\ Most \in Nat \ {0} /\ kind \in Kinds /\ eofs \in Nat
      /\ link \in {"none", "up", "down"}
  BY DEF LoadTypes, TypeOK, Most
<1>b. /\ stats.conn \in Nat /\ stats.err \in Nat
      /\ Answered(stats) \in Nat /\ Recorded(stats) = Answered(stats) + stats.err
  BY <1>a, StatsCounts
<1>c. stats' \in Stats
  BY NextLoadTypes DEF LoadTypes, TypeOK
<1>d. Recorded(stats') = Answered(stats') + stats'.err
  BY <1>c, StatsCounts
<1>e. /\ IncConn(stats).conn = stats.conn + 1 /\ IncConn(stats).err = stats.err
      /\ Answered(IncConn(stats)) = Answered(stats)
      /\ SetError(stats).conn = stats.conn /\ SetError(stats).err = stats.err + 1
      /\ Answered(SetError(stats)) = Answered(stats)
  BY <1>a, StatsCounts
<1> USE <1>a, <1>b, <1>d, <1>e DEF RawRest, AttemptsOnce
<1>1. CASE Stop /\ UNCHANGED rawOwn
  BY <1>1 DEF Stop, netVars, rawOwn
<1>2. CASE Raw!BeginConnect
  BY <1>2 DEF Raw!BeginConnect, Raw!netVars, Raw!rawVars, Raw!tallies
<1>3. CASE DialOk /\ Raw!Connected
  BY <1>3 DEF DialOk, NewConnection, Raw!Connected, Raw!tallies
<1>4. CASE DialFail /\ UNCHANGED rawOwn
  BY <1>4 DEF DialFail, FailAttempt, netVars, rawOwn
<1>5. CASE Raw!WriteOk
  BY <1>5, SMTT(30) DEF Raw!WriteOk, Raw!tallies
<1>6. CASE Raw!WriteFails
  BY <1>6, RawTerms DEF Raw!WriteFails, Raw!Disconnect, Raw!tallies
<1>7. ASSUME NEW n, NEW code \in Status, Raw!Read(n, code) PROVE RawRest'
  <2> DEFINE b == buffer \o SubSeq(inbox, 1, n)
  <2>1. /\ pc = "reply" /\ UNCHANGED <<wire, onConn, closing, eofs>>
        /\ \/ Raw!Count(b, code)
           \/ UNCHANGED <<stats, total, connReq, pc, link>>
    BY <1>7 DEF Raw!Read
  <2> HIDE DEF b
  <2>2. CASE Raw!Count(b, code)
    <3>1. /\ stats'.conn = stats.conn /\ stats'.err = stats.err
          /\ Answered(stats') = Answered(stats) + 1
          /\ total' = total + 1 /\ connReq' = connReq + 1
          /\ pc' \in {"done", "loop", "send"}
          /\ pc' = "send" => connReq + 1 < Most
          /\ link' = IF pc' = "send" THEN link ELSE "none"
      BY <2>2, RawCounted
    <3> QED BY <2>1, <3>1
  <2>3. CASE UNCHANGED <<stats, total, connReq, pc, link>>
    BY <2>1, <2>3
  <2> QED BY <2>1, <2>2, <2>3
<1>8. CASE Raw!ReadEof
  BY <1>8, RawTerms, SMTT(30) DEF Raw!ReadEof, Raw!Disconnect
<1>9. CASE Raw!ReadError
  BY <1>9, RawTerms DEF Raw!ReadError, Raw!Disconnect, Raw!tallies
<1>10. CASE Raw!PeerAnswersRaw \/ Raw!PeerAnswersFat \/ Raw!PeerBreaksOff
            \/ Raw!PeerVolunteers
  <2>1. link = "up" /\ UNCHANGED <<pc, total, connReq, stats, wire, onConn, closing, eofs>>
    BY <1>10 DEF Raw!PeerAnswersRaw, Raw!PeerAnswersFat, Raw!PeerBreaksOff,
       Raw!PeerVolunteers, Raw!AnswersWith, Raw!Sends, Raw!taskVars
  <2> QED BY <2>1
<1>11. CASE LinkLost /\ UNCHANGED rawOwn
  BY <1>11 DEF LinkLost, taskVars, rawOwn
<1>12. CASE (DeadlinePasses \/ UNCHANGED vars) /\ UNCHANGED rawOwn
  BY <1>12 DEF DeadlinePasses, vars, taskVars, netVars, rawOwn
<1> QED
  BY <1>1, <1>2, <1>3, <1>4, <1>5, <1>6, <1>7, <1>8, <1>9, <1>10, <1>11, <1>12,
     KindSteps, ChunkedTaskIs, RawTaskIs DEF Raw!Kinds, Pool!Kinds

(* The pieces that are not used up are still there.                        *)
LEMMA NextRawCounts ==
  ASSUME LoadTypes, RawCounts, kind \in Raw!Kinds, [LoadNext]_allVars
  PROVE  RawCounts'
<1>a. /\ stats \in Stats /\ served \in Nat /\ extras \in Nat /\ connReq \in Nat
      /\ link \in {"none", "up", "down"} /\ kind \in Kinds
  BY DEF LoadTypes, TypeOK
<1>s. inbox \in Seq(Piece) /\ buffer \in Seq(Piece) /\ owed \in Seq(Nat)
  BY DEF LoadTypes
<1>u. stats' \in Stats /\ served' \in Nat /\ extras' \in Nat
  BY NextLoadTypes DEF LoadTypes, TypeOK
<1>t. inbox' \in Seq(Piece) /\ buffer' \in Seq(Piece)
  BY NextLoadTypes DEF LoadTypes, TypeOK
<1> DEFINE i == Len(inbox)
           b == Len(buffer)
           a == Answered(stats)
           got == served + extras
           i1 == Len(inbox')
           b1 == Len(buffer')
           a1 == Answered(stats')
           got1 == served' + extras'
<1>n. /\ i \in Nat /\ b \in Nat /\ a \in Nat /\ got \in Nat
      /\ 2 * a + b + i <= 2 * got + (IF link = "up" THEN 0 ELSE 1)
  <2>1. i \in Nat /\ b \in Nat
    BY <1>s
  <2>2. a \in Nat
    BY <1>a, StatsCounts
  <2> HIDE DEF a, b, i
  <2> QED BY <1>a, <2>1, <2>2 DEF RawCounts, a, b, i
<1>m. i1 \in Nat /\ b1 \in Nat /\ got1 \in Nat /\ a1 \in Nat
  <2>1. i1 \in Nat /\ b1 \in Nat
    BY <1>t
  <2>2. a1 \in Nat
    BY <1>u, StatsCounts
  <2>3. got1 \in Nat
    <3>1. \A x, y \in Nat : x + y \in Nat
      OBVIOUS
    <3> QED BY <1>u, <3>1, Zenon
  <2> HIDE DEF i1, b1, a1, got1
  <2> QED BY <2>1, <2>2, <2>3
<1>q. 2 * a1 + b1 + i1 <= 2 * got1 + (IF link' = "up" THEN 0 ELSE 1) => RawCounts'
  BY DEF RawCounts
<1>o. UNCHANGED <<buffer, inbox, served, extras, stats>> => a1 = a /\ b1 = b /\ i1 = i /\ got1 = got
  OBVIOUS
<1>e. SetError(stats) \in Stats /\ Answered(SetError(stats)) = a
      /\ Answered(IncConn(stats)) = a
  BY <1>a, StatsCounts, StatsTypes
<1>f. Len(<<>>) = 0
  OBVIOUS
<1> HIDE DEF a, b, i, got, a1, b1, i1, got1
<1> USE <1>n, <1>m, <1>q
(* Nothing is counted, nothing arrives. *)
<1>1. CASE a1 = a /\ got1 = got /\ b1 <= b /\ i1 <= i /\ (link' = "up" => link = "up")
  <2>1. 2 * a1 + b1 + i1 <= 2 * a + b + i /\ 2 * got1 = 2 * got
    BY <1>1
  <2>2. (IF link = "up" THEN 0 ELSE 1) <= (IF link' = "up" THEN 0 ELSE 1)
    BY <1>1
  <2> QED BY <2>1, <2>2
<1>2. CASE Stop /\ UNCHANGED rawOwn
  <2>1. UNCHANGED <<buffer, inbox, served, extras, stats, link>>
    BY <1>2 DEF Stop, netVars, rawOwn
  <2> QED BY <1>1, <1>o, <2>1
<1>3. CASE Raw!BeginConnect
  <2>1. UNCHANGED <<buffer, inbox, served, extras, stats, link>>
    BY <1>3 DEF Raw!BeginConnect, Raw!netVars, Raw!rawVars, Raw!byteVars, Raw!tallies
  <2> QED BY <1>1, <1>o, <2>1
<1>4. CASE DialOk /\ Raw!Connected
  <2>1. /\ UNCHANGED <<served, extras>> /\ stats' = IncConn(stats) /\ link' = "up"
        /\ buffer' = <<>> /\ inbox' = <<>>
    BY <1>4 DEF DialOk, NewConnection, Raw!Connected, Raw!tallies
  <2>2. a1 = a /\ b1 = 0 /\ i1 = 0 /\ got1 = got
    BY <1>e, <1>f, <2>1 DEF a, b, i, got, a1, b1, i1, got1
  <2> QED BY <2>1, <2>2
<1>5. CASE DialFail /\ UNCHANGED rawOwn
  <2>1. UNCHANGED <<buffer, inbox, served, extras, link>> /\ stats' = SetError(stats)
    BY <1>5 DEF DialFail, FailAttempt, netVars, rawOwn
  <2>2. a1 = a /\ b1 = b /\ i1 = i /\ got1 = got
    BY <1>e, <2>1 DEF a, b, i, got, a1, b1, i1, got1
  <2> QED BY <1>1, <2>1, <2>2
<1>6. CASE Raw!WriteOk
  <2>1. UNCHANGED <<buffer, inbox, served, extras, stats, link>>
    BY <1>6 DEF Raw!WriteOk, Raw!tallies
  <2> QED BY <1>1, <1>o, <2>1
<1>7. CASE Raw!WriteFails \/ Raw!ReadError \/ Raw!ReadEof
  <2>1. /\ UNCHANGED <<buffer, served, extras>> /\ inbox' = <<>> /\ link' = "none"
        /\ stats' \in {stats, SetError(stats)}
    BY <1>7, RawTerms DEF Raw!WriteFails, Raw!ReadError, Raw!ReadEof,
       Raw!Disconnect, Raw!tallies
  <2>2. a1 = a /\ b1 = b /\ i1 = 0 /\ got1 = got
    BY <1>e, <1>f, <2>1 DEF a, b, i, got, a1, b1, i1, got1
  <2> QED BY <1>1, <2>1, <2>2
<1>8. ASSUME NEW n \in 1 .. Len(inbox), NEW code \in Status, Raw!Read(n, code)
      PROVE  RawCounts'
  <2> DEFINE bytes == buffer \o SubSeq(inbox, 1, n)
  <2>1. /\ bytes \in Seq(Piece) /\ Len(bytes) = b + n /\ n \in Nat
        /\ i1 = i - n
    <3>1. inbox' = SubSeq(inbox, n + 1, Len(inbox))
      BY <1>8 DEF Raw!Read
    <3>2. n \in Nat
      BY <1>n DEF i
    <3> QED BY <1>s, <3>1, <3>2, ReadPieces, Zenon DEF i, b, i1
  <2>2. got1 = got
    BY <1>8 DEF Raw!Read, got, got1
  <2>3. CASE Raw!Decodes(bytes)
    <3>1. Raw!Count(bytes, code) /\ Len(bytes) >= 2
      BY <1>8, <2>3 DEF Raw!Read, Raw!Decodes
    <3>2. /\ a1 = a + 1 /\ link' \in {link, "none"}
          /\ buffer' = SubSeq(bytes, 3, Len(bytes))
      BY <1>a, <3>1, RawCounted DEF a, a1
    <3> HIDE DEF bytes
    <3>3. b1 = b + n - 2
      <4>1. Len(SubSeq(bytes, 3, Len(bytes))) = Len(bytes) - 2
        BY <2>1, <3>1
      <4> QED BY <2>1, <3>2, <4>1 DEF b1
    <3> QED BY <2>1, <2>2, <3>2, <3>3
  <2>4. CASE ~Raw!Decodes(bytes)
    <3>1. buffer' = bytes /\ UNCHANGED <<stats, link>>
      BY <1>8, <2>4 DEF Raw!Read
    <3> HIDE DEF bytes
    <3>2. a1 = a /\ b1 = b + n
      BY <2>1, <3>1 DEF a, b, a1, b1
    <3> QED BY <2>1, <2>2, <3>1, <3>2
  <2> QED BY <2>3, <2>4
<1>9. ASSUME NEW pieces \in Seq(Piece), NEW more \in Nat, Raw!Sends(pieces),
             got1 = got + more,
             \/ Len(pieces) <= 2 * more /\ UNCHANGED link
             \/ Len(pieces) = 1 /\ link' = "down"
      PROVE  RawCounts'
  <2>1. i1 = i + Len(pieces) /\ Len(pieces) \in Nat
    BY <1>9, <1>s DEF Raw!Sends, i, i1
  <2>2. link = "up" /\ a1 = a /\ b1 = b
    BY <1>9 DEF Raw!Sends, Raw!taskVars, a, b, a1, b1
  <2>3. CASE Len(pieces) <= 2 * more /\ link' = "up"
    <3>1. 2 * got1 = 2 * got + 2 * more /\ i1 <= i + 2 * more
      BY <1>9, <2>1, <2>3
    <3> QED BY <2>2, <2>3, <3>1
  <2>4. CASE Len(pieces) = 1 /\ link' = "down"
    <3>1. 2 * got1 >= 2 * got /\ i1 = i + 1
      BY <1>9, <2>1, <2>4
    <3> QED BY <2>2, <2>4, <3>1
  <2> QED BY <1>9, <2>2, <2>3, <2>4
<1>10. CASE Raw!PeerAnswersRaw \/ Raw!PeerAnswersFat \/ Raw!PeerBreaksOff
  <2>1. /\ owed # <<>> /\ UNCHANGED extras
        /\ \/ /\ Raw!Sends(Raw!Whole(Head(owed))) \/ Raw!Sends(Raw!Fat(Head(owed)))
              /\ served' = served + 1 /\ UNCHANGED link
           \/ /\ Raw!Sends(Raw!Start(Head(owed)))
              /\ served' = served + 0 /\ link' = "down"
    BY <1>10 DEF Raw!PeerAnswersRaw, Raw!PeerAnswersFat, Raw!PeerBreaksOff, Raw!AnswersWith
  <2>2. Head(owed) \in Nat
    BY <1>s, <2>1
  <2>3. /\ Raw!Whole(Head(owed)) \in Seq(Piece) /\ Len(Raw!Whole(Head(owed))) = 2
        /\ Raw!Fat(Head(owed)) \in Seq(Piece) /\ Len(Raw!Fat(Head(owed))) = 1
        /\ Raw!Start(Head(owed)) \in Seq(Piece) /\ Len(Raw!Start(Head(owed))) = 1
    BY <2>2 DEF Raw!Whole, Raw!Fat, Raw!Start, Piece
  <2>4. (served' = served + 1 => got1 = got + 1) /\ (served' = served + 0 => got1 = got + 0)
    BY <1>a, <2>1 DEF got, got1
  <2>5. /\ Len(Raw!Whole(Head(owed))) <= 2 * 1 /\ Len(Raw!Fat(Head(owed))) <= 2 * 1
        /\ 0 \in Nat /\ 1 \in Nat
    <3>1. 2 <= 2 * 1 /\ 1 <= 2 * 1 /\ 0 \in Nat /\ 1 \in Nat
      OBVIOUS
    <3> QED BY <2>3, <3>1, Zenon
  <2> QED BY <1>9, <2>1, <2>3, <2>4, <2>5, Zenon
<1>11. CASE Raw!PeerVolunteers
  <2>1. Raw!Whole(0) \in Seq(Piece) /\ Len(Raw!Whole(0)) = 2
    BY DEF Raw!Whole, Piece
  <2>2. Raw!Sends(Raw!Whole(0)) /\ served' = served /\ extras' = extras + 1 /\ UNCHANGED link
    BY <1>11 DEF Raw!PeerVolunteers
  <2>3. got1 = got + 1
    BY <1>a, <2>2 DEF got, got1
  <2>4. Len(Raw!Whole(0)) <= 2 * 1 /\ 1 \in Nat
    <3>1. 2 <= 2 * 1 /\ 1 \in Nat
      OBVIOUS
    <3> QED BY <2>1, <3>1, Zenon
  <2> QED BY <1>9, <2>1, <2>2, <2>3, <2>4, Zenon
<1>12. CASE (LinkLost \/ DeadlinePasses \/ UNCHANGED vars) /\ UNCHANGED rawOwn
  <2>1. UNCHANGED <<buffer, inbox, served, extras, stats>> /\ (link' = "up" => link = "up")
    BY <1>12 DEF LinkLost, DeadlinePasses, vars, taskVars, netVars, rawOwn
  <2> QED BY <1>1, <1>o, <2>1
<1> QED
  BY <1>a, <1>2, <1>3, <1>4, <1>5, <1>6, <1>7, <1>8, <1>10, <1>11, <1>12,
     KindSteps, ChunkedTaskIs, RawTaskIs DEF Raw!Kinds, Pool!Kinds

(* Without unasked-for responses the task, the buffer, the socket and the  *)
(* peer together hold one request and its answer.                          *)
LEMMA NextOneAnswer ==
  ASSUME LoadTypes, RawRest, extras = 0 => OneAnswer, kind \in Raw!Kinds,
         [LoadNext]_allVars, extras' = 0
  PROVE  OneAnswer'
<1>a. /\ kind \in Kinds /\ extras \in Nat /\ issued \in Nat /\ misread \in BOOLEAN
  BY DEF LoadTypes, TypeOK
<1>s. inbox \in Seq(Piece) /\ buffer \in Seq(Piece) /\ owed \in Seq(Nat)
  BY DEF LoadTypes
<1>n. Len(inbox) \in Nat /\ Len(buffer) \in Nat /\ Len(owed) \in Nat
  BY <1>s
<1>f. Len(<<>>) = 0
  OBVIOUS
<1>v. extras = 0
  <2>1. Raw!PeerVolunteers => extras' = extras + 1
    BY DEF Raw!PeerVolunteers
  <2>2. Raw!RawTask \/ Raw!RawPeer => Raw!PeerVolunteers \/ UNCHANGED extras
    BY RawTaskIs DEF rawOwn, Raw!BeginConnect, Raw!Connected, Raw!WriteOk,
       Raw!WriteFails, Raw!Read, Raw!ReadEof, Raw!ReadError, Raw!PeerAnswersRaw,
       Raw!PeerAnswersFat, Raw!PeerBreaksOff, Raw!AnswersWith, Raw!rawVars, Raw!tallies
  <2>3. UNCHANGED rawOwn => UNCHANGED extras
    BY DEF rawOwn
  <2> QED BY <1>a, <2>1, <2>2, <2>3, KindSteps, ChunkedTaskIs
<1>i. OneAnswer
  BY <1>v
<1>1. CASE pc' \notin {"send", "reply"} /\ UNCHANGED misread
  BY <1>1, <1>i DEF OneAnswer
<1>2. CASE UNCHANGED <<pc, issued, owed, inbox, buffer, misread>>
  BY <1>2, <1>i DEF OneAnswer
<1>3. CASE Stop /\ UNCHANGED rawOwn
  BY <1>1, <1>3 DEF Stop, rawOwn
<1>4. CASE Raw!BeginConnect
  BY <1>1, <1>4 DEF Raw!BeginConnect, Raw!rawVars, Raw!tallies
<1>5. CASE DialOk /\ Raw!Connected
  <2>1. pc' = "send" /\ owed' = <<>> /\ inbox' = <<>> /\ buffer' = <<>> /\ UNCHANGED misread
    BY <1>5 DEF DialOk, Raw!Connected, Raw!tallies
  <2> QED BY <2>1, <1>f, <1>i DEF OneAnswer
<1>6. CASE DialFail /\ UNCHANGED rawOwn
  BY <1>1, <1>6 DEF DialFail, rawOwn
<1>7. CASE Raw!WriteOk
  <2>1. /\ pc = "send" /\ pc' = "reply" /\ issued' = issued + 1
        /\ UNCHANGED <<inbox, buffer, misread>>
        /\ owed' = Append(owed, issued + 1) \/ owed' = owed
    BY <1>7, RawTerms DEF Raw!WriteOk, Issue, Raw!tallies
  <2>2. Len(owed) = 0 /\ Len(inbox) = 0 /\ Len(buffer) = 0 /\ ~misread
    BY <2>1, <1>i DEF OneAnswer
  <2>3. /\ Len(owed') <= 1 /\ Len(owed') \in Nat
        /\ \A i \in DOMAIN owed' : owed'[i] = issued'
    <3>1. /\ issued + 1 \in Nat /\ Len(Append(owed, issued + 1)) = 1
          /\ \A i \in DOMAIN Append(owed, issued + 1) :
               Append(owed, issued + 1)[i] = issued + 1
      BY <1>a, <1>s, <2>2
    <3>2. DOMAIN owed = {}
      BY <1>s, <2>2
    <3>3. CASE owed' = owed
      BY <2>2, <3>2, <3>3
    <3>4. CASE owed' = Append(owed, issued + 1)
      BY <2>1, <3>1, <3>4
    <3> QED BY <2>1, <3>3, <3>4
  <2>4. DOMAIN inbox' = {} /\ DOMAIN buffer' = {}
    BY <1>s, <2>1, <2>2
  <2> QED BY <2>1, <2>2, <2>3, <2>4 DEF OneAnswer
<1>8. CASE Raw!WriteFails \/ Raw!ReadEof \/ Raw!ReadError
  BY <1>1, <1>8 DEF Raw!WriteFails, Raw!ReadEof, Raw!ReadError, Raw!tallies
<1>9. ASSUME NEW n \in 1 .. Len(inbox), NEW code \in Status, Raw!Read(n, code)
      PROVE  OneAnswer'
  <2> DEFINE b == buffer \o SubSeq(inbox, 1, n)
  <2>1. /\ b \in Seq(Piece) /\ Len(b) = Len(buffer) + n /\ n \in Nat
        /\ \A k \in 1 .. Len(buffer) : b[k] = buffer[k]
        /\ \A k \in 1 .. n : b[Len(buffer) + k] = inbox[k]
        /\ Len(inbox') = Len(inbox) - n
        /\ \A k \in 1 .. Len(inbox) - n : inbox'[k] = inbox[n + k]
    <3>1. inbox' = SubSeq(inbox, n + 1, Len(inbox))
      BY <1>9 DEF Raw!Read
    <3>2. n \in Nat
      BY <1>n
    <3>3. /\ b \in Seq(Piece) /\ Len(b) = Len(buffer) + n
          /\ \A k \in 1 .. Len(buffer) : b[k] = buffer[k]
          /\ \A k \in 1 .. n : b[Len(buffer) + k] = inbox[k]
      BY <1>s, ReadPieces
    <3>4. /\ Len(SubSeq(inbox, n + 1, Len(inbox))) = Len(inbox) - n
          /\ \A k \in 1 .. Len(inbox) - n : SubSeq(inbox, n + 1, Len(inbox))[k] = inbox[n + k]
      BY <1>s, ReadPieces
    <3> HIDE DEF b
    <3> QED BY <3>1, <3>2, <3>3, <3>4, Zenon
  <2>2. pc = "reply" /\ UNCHANGED <<issued, owed>>
    BY <1>9 DEF Raw!Read, Raw!histVars
  <2>3. /\ Len(owed) = 0 /\ Len(buffer) + Len(inbox) <= 2 /\ ~misread
        /\ \A k \in 1 .. Len(buffer) : buffer[k].to = issued
        /\ \A k \in 1 .. Len(inbox) : inbox[k].to = issued
    <3>1. /\ Len(buffer) + Len(inbox) <= (IF Len(owed) = 0 THEN 2 ELSE 0) /\ ~misread
          /\ \A k \in DOMAIN buffer : buffer[k].to = issued
          /\ \A k \in DOMAIN inbox : inbox[k].to = issued
      BY <2>2, <1>i DEF OneAnswer
    <3>2. DOMAIN buffer = 1 .. Len(buffer) /\ DOMAIN inbox = 1 .. Len(inbox)
      BY <1>s
    <3>3. Len(inbox) >= 1
      BY <1>n
    <3> QED BY <1>n, <3>1, <3>2, <3>3
  <2>4. /\ \A k \in 1 .. Len(b) : b[k].to = issued
        /\ \A k \in 1 .. Len(inbox') : inbox'[k].to = issued
    <3> HIDE DEF b
    <3>1. ASSUME NEW k \in 1 .. Len(b) PROVE b[k].to = issued
      <4>1. CASE k <= Len(buffer)
        BY <1>n, <2>1, <2>3, <4>1
      <4>2. CASE k > Len(buffer)
        <5>1. k - Len(buffer) \in 1 .. n /\ k - Len(buffer) \in 1 .. Len(inbox)
              /\ Len(buffer) + (k - Len(buffer)) = k
          BY <1>n, <2>1, <4>2
        <5>2. b[Len(buffer) + (k - Len(buffer))] = inbox[k - Len(buffer)]
          BY <2>1, <5>1
        <5> QED BY <2>3, <5>1, <5>2
      <4> QED BY <1>n, <4>1, <4>2
    <3>2. ASSUME NEW k \in 1 .. Len(inbox') PROVE inbox'[k].to = issued
      <4>1. k \in 1 .. Len(inbox) - n /\ n + k \in 1 .. Len(inbox)
        BY <1>n, <2>1
      <4> QED BY <2>1, <2>3, <4>1
    <3> QED BY <3>1, <3>2
  <2>5. inbox' \in Seq(Piece) /\ buffer' \in Seq(Piece)
    BY NextLoadTypes DEF LoadTypes
  <2>6. DOMAIN inbox' = 1 .. Len(inbox') /\ DOMAIN buffer' = 1 .. Len(buffer')
        /\ Len(buffer') \in Nat /\ Len(inbox') \in Nat
    BY <2>5
  <2>7. DOMAIN owed' = {} /\ Len(owed') = 0
    BY <1>s, <2>2, <2>3
  <2>8. CASE Raw!Decodes(b)
    <3>1. Raw!Count(b, code) /\ Len(b) >= 2
      BY <1>9, <2>8 DEF Raw!Read, Raw!Decodes
    <3>2. /\ misread' = (misread \/ b[1].to # issued) /\ buffer' = SubSeq(b, 3, Len(b))
          /\ pc' # "reply"
      BY <3>1, RawTerms DEF Raw!Count, Raw!Drain, Raw!AfterCount
    <3> HIDE DEF b
    <3>3. Len(b) = 2 /\ n = Len(inbox) /\ Len(inbox') = 0
      BY <1>n, <2>1, <2>3, <3>1
    <3>4. ~misread'
      <4>1. b[1].to = issued
        BY <2>4, <3>3
      <4> QED BY <2>3, <3>2, <4>1, Zenon
    <3>5. Len(buffer') = 0
      <4>1. Len(SubSeq(b, 3, Len(b))) = Len(b) - 2
        BY <2>1, <3>1
      <4>2. Len(buffer') = Len(b) - 2
        BY <3>2, <4>1, Zenon
      <4> QED BY <3>3, <4>2
    <3> QED BY <2>7, <3>2, <3>3, <3>4, <3>5 DEF OneAnswer
  <2>9. CASE ~Raw!Decodes(b)
    <3>1. buffer' = b /\ UNCHANGED <<pc, misread>>
      BY <1>9, <2>9 DEF Raw!Read
    <3> HIDE DEF b
    <3>2. Len(buffer') + Len(inbox') <= 2
      BY <1>n, <2>1, <2>3, <3>1
    <3> QED BY <2>2, <2>3, <2>4, <2>6, <2>7, <3>1, <3>2 DEF OneAnswer
  <2> QED BY <2>8, <2>9
<1>10. CASE Raw!PeerAnswersRaw \/ Raw!PeerAnswersFat \/ Raw!PeerBreaksOff
  <2>1. PICK pieces \in {Raw!Whole(Head(owed)), Raw!Fat(Head(owed)), Raw!Start(Head(owed))} :
          /\ link = "up" /\ owed # <<>> /\ owed' = Tail(owed) /\ inbox' = inbox \o pieces
          /\ UNCHANGED <<pc, issued, buffer, misread>>
    BY <1>10 DEF Raw!PeerAnswersRaw, Raw!PeerAnswersFat, Raw!PeerBreaksOff,
       Raw!AnswersWith, Raw!Sends, Raw!taskVars, Raw!histVars
  <2>2. Len(owed) >= 1 /\ Len(Tail(owed)) = Len(owed) - 1 /\ Head(owed) = owed[1]
        /\ 1 \in DOMAIN owed
    BY <1>s, <2>1
  <2>3. pc = "reply"
    BY <1>n, <1>i, <2>1, <2>2 DEF OneAnswer, RawRest
  <2>4. /\ Len(owed) = 1 /\ Head(owed) = issued /\ Len(buffer) = 0 /\ Len(inbox) = 0 /\ ~misread
    <3>1. /\ Len(owed) <= 1 /\ owed[1] = issued /\ ~misread
          /\ Len(buffer) + Len(inbox) <= (IF Len(owed) = 0 THEN 2 ELSE 0)
      BY <1>i, <2>2, <2>3, Zenon DEF OneAnswer
    <3>2. Len(owed) = 1
      <4>1. \A x \in Nat : x >= 1 /\ x <= 1 => x = 1
        OBVIOUS
      <4> QED BY <1>n, <2>2, <3>1, <4>1, Zenon
    <3>3. Len(buffer) + Len(inbox) <= 0
      BY <3>1, <3>2
    <3> QED BY <1>n, <2>2, <3>1, <3>2, <3>3
  <2>5. /\ pieces \in Seq(Piece) /\ Len(pieces) <= 2 /\ Len(pieces) \in Nat
        /\ \A k \in 1 .. Len(pieces) : pieces[k].to = issued
    <3>1. CASE pieces = Raw!Whole(issued)
      BY <1>a, <3>1 DEF Raw!Whole, Piece
    <3>2. CASE pieces = Raw!Fat(issued)
      BY <1>a, <3>2 DEF Raw!Fat, Piece
    <3>3. CASE pieces = Raw!Start(issued)
      BY <1>a, <3>3 DEF Raw!Start, Piece
    <3> QED BY <2>4, <3>1, <3>2, <3>3
  <2>6. inbox' = pieces
    BY <1>s, <2>1, <2>4, <2>5
  <2>7. Len(owed') = 0 /\ DOMAIN owed' = {} /\ DOMAIN buffer' = {} /\ Len(buffer') = 0
    BY <1>s, <2>1, <2>2, <2>4
  <2>8. DOMAIN inbox' = 1 .. Len(pieces) /\ Len(inbox') = Len(pieces)
    BY <2>5, <2>6
  <2> QED BY <2>1, <2>3, <2>4, <2>5, <2>6, <2>7, <2>8 DEF OneAnswer
<1>11. CASE Raw!PeerVolunteers
  BY <1>11, <1>a, <1>v DEF Raw!PeerVolunteers
<1>12. CASE (LinkLost \/ DeadlinePasses \/ UNCHANGED vars) /\ UNCHANGED rawOwn
  BY <1>2, <1>12 DEF LinkLost, DeadlinePasses, vars, taskVars, histVars, rawOwn
<1> QED
  BY <1>a, <1>3, <1>4, <1>5, <1>6, <1>7, <1>8, <1>9, <1>10, <1>11, <1>12,
     KindSteps, ChunkedTaskIs, RawTaskIs DEF Raw!Kinds, Pool!Kinds

-----------------------------------------------------------------------------
LEMMA InitLoadInv == LoadInit => LoadInv
<1> SUFFICES ASSUME LoadInit PROVE LoadInv
  OBVIOUS
<1>1. TypeOK /\ LoadNames
  BY InitTypeOK, FirstTurns DEF LoadInit, LoadNames
<1>2. /\ pc = "loop" /\ total = 0 /\ connReq = 0 /\ issued = 0 /\ served = 0 /\ onConn = 0
      /\ link = "none" /\ wire = "quiet" /\ closing = FALSE /\ expired = FALSE
      /\ stats.conn = 0 /\ stats.err = 0 /\ Recorded(stats) = 0 /\ Answered(stats) = 0
  BY DEF LoadInit, Init, NewStats, Recorded, Answered
<1>3. /\ kind \in Kinds /\ owed = <<>> /\ inbox = <<>> /\ buffer = <<>>
      /\ eofs = 0 /\ extras = 0 /\ misread = FALSE
  BY DEF LoadInit, Raw!RawInit
<1>4. LoadTypes
  <2>1. <<>> \in Seq(Nat) /\ <<>> \in Seq(Piece)
    OBVIOUS
  <2>2. owed \in Seq(Nat) /\ inbox \in Seq(Piece) /\ buffer \in Seq(Piece)
    BY <1>3, <2>1, Zenon
  <2>3. eofs \in Nat /\ extras \in Nat /\ misread \in BOOLEAN /\ ~misread
    BY <1>3
  <2> QED BY <1>1, <1>3, <2>2, <2>3, Zenon DEF LoadTypes
<1>5. LoadBudget
  BY <1>2 DEF LoadBudget
<1>6. Most \in Nat \ {0}
  BY DEF Most
<1>7. ChunkedInv
  BY <1>2, <1>6 DEF ChunkedInv, ClosesOnLast, ReadOnce
<1>8. AttemptsOnce /\ ReadOnce
  BY <1>2, <1>3 DEF AttemptsOnce, ReadOnce
<1>9. RawInv
  <2>1. Len(buffer) = 0 /\ Len(inbox) = 0
    BY <1>3
  <2>2. RawCounts
    BY <1>2, <1>3, <2>1 DEF RawCounts
  <2>3. RawRest
    BY <1>2, <1>6, <1>8 DEF RawRest
  <2>4. OneAnswer
    BY <1>2, <1>3 DEF OneAnswer
  <2> QED BY <2>2, <2>3, <2>4 DEF RawInv
<1>10. PoolInv
  BY <1>2, <1>6, <1>8 DEF PoolInv
<1> QED BY <1>1, <1>4, <1>5, <1>7, <1>9, <1>10 DEF LoadInv

LEMMA NextLoadInv == LoadInv /\ [LoadNext]_allVars => LoadInv'
<1> SUFFICES ASSUME LoadInv, [LoadNext]_allVars PROVE LoadInv'
  OBVIOUS
<1>1. LoadTypes' /\ LoadBudget' /\ LoadNames'
  BY NextLoadTypes, NextLoadBudget, NextNames DEF LoadInv
<1>2. UNCHANGED kind
  BY KindSteps DEF LoadInv, LoadTypes
<1>3. kind = "hyper-chunked" => ChunkedInv'
  BY NextChunked DEF LoadInv
<1>4. kind \in Pool!Kinds => PoolInv'
  BY NextPool DEF LoadInv
<1>5. kind \in Raw!Kinds => RawInv'
  BY NextRawRest, NextRawCounts, NextOneAnswer DEF LoadInv, RawInv
<1> QED BY <1>1, <1>2, <1>3, <1>4, <1>5 DEF LoadInv, Pool!Kinds, Raw!Kinds

LEMMA LoadInvariance == LoadSpec => []LoadInv
BY InitLoadInv, NextLoadInv, PTL DEF LoadSpec

(* What the counters of a task are, in a form the theorems share.          *)
LEMMA LoadNumbers ==
  ASSUME LoadInv
  PROVE  /\ total \in Nat /\ served \in Nat /\ extras \in Nat /\ eofs \in Nat
         /\ stats.conn \in Nat /\ stats.err \in Nat /\ Answered(stats) \in Nat
         /\ Recorded(stats) = Answered(stats) + stats.err
         /\ kind \in Kinds
         /\ kind \notin Raw!Kinds => eofs = 0 /\ extras = 0 /\ ~misread
         /\ kind = "hyper-chunked" \/ kind \in Raw!Kinds \/ kind \in Pool!Kinds
BY StatsCounts DEF LoadInv, LoadTypes, TypeOK, Kinds

(* Every client records each attempt once, ends of file of a raw client    *)
(* and the lost connections of hyper-chunked apart.                        *)
THEOREM LedgersBalance == LoadSpec => []LedgerBalances
<1>1. LoadInv => LedgerBalances
  <2> SUFFICES ASSUME LoadInv PROVE LedgerBalances
    OBVIOUS
  <2>1. CASE kind = "hyper-chunked"
    BY <2>1, LoadNumbers DEF LoadInv, ChunkedInv, LedgerBalances, Raw!Kinds
  <2>2. CASE kind \in Raw!Kinds \cup Pool!Kinds
    <3>1. AttemptsOnce /\ kind # "hyper-chunked"
      BY <2>2 DEF LoadInv, RawInv, RawRest, PoolInv, Raw!Kinds, Pool!Kinds
    <3> QED BY <3>1, LoadNumbers DEF AttemptsOnce, LedgerBalances
  <2> QED BY <2>1, <2>2, LoadNumbers
<1> QED BY <1>1, LoadInvariance, PTL

(* A response is counted once, and for the request it answers, unless the  *)
(* peer sends what nobody asked for.                                       *)
THEOREM RepliesAreMatched == LoadSpec => []RepliesMatch
<1>1. LoadInv => RepliesMatch
  <2> SUFFICES ASSUME LoadInv PROVE RepliesMatch
    OBVIOUS
  <2>1. CASE kind \notin Raw!Kinds
    <3>1. ReadOnce
      BY <2>1, LoadNumbers DEF LoadInv, ChunkedInv, PoolInv
    <3> QED BY <2>1, <3>1, LoadNumbers DEF ReadOnce, RepliesMatch
  <2>2. CASE kind \in Raw!Kinds
    <3>1. misread => extras > 0
      BY <2>2, LoadNumbers DEF LoadInv, RawInv, OneAnswer
    <3>2. Len(buffer) \in Nat /\ Len(inbox) \in Nat
      BY DEF LoadInv, LoadTypes
    <3>3. RawCounts
      BY <2>2 DEF LoadInv, RawInv
    <3> DEFINE a == Answered(stats)
               b == Len(buffer) + Len(inbox)
               g == served + extras
    <3>4. a \in Nat /\ b \in Nat /\ g \in Nat /\ 2 * a + b <= 2 * g + 1
      <4>1. \A x, y \in Nat : x + y \in Nat
        OBVIOUS
      <4>2. a \in Nat /\ b \in Nat /\ g \in Nat
        BY <3>2, <4>1, LoadNumbers, Zenon
      <4>3. \A x, y, z, w \in Nat :
              2 * x + y + z <= 2 * w + (IF link = "up" THEN 0 ELSE 1)
              => 2 * x + (y + z) <= 2 * w + 1
        OBVIOUS
      <4> QED BY <3>2, <3>3, <4>2, <4>3, Zenon DEF RawCounts
    <3>5. a <= g
      <4> HIDE DEF a, b, g
      <4> QED BY <3>4
    <3> QED BY <3>1, <3>5 DEF RepliesMatch
  <2> QED BY <2>1, <2>2
<1> QED BY <1>1, LoadInvariance, PTL

(* No client makes more attempts than -r, and none stops short of it       *)
(* before the deadline.                                                    *)
THEOREM LoadBudgetIsRespected == LoadSpec => []BudgetRespected
<1>1. LoadInv => BudgetRespected
  <2> SUFFICES ASSUME LoadInv, NEW m \in Requests
               PROVE  /\ issued <= m /\ total <= m
                      /\ pc = "done" /\ ~expired => total = m
    BY DEF BudgetRespected
  <2>1. /\ total \in Nat /\ issued \in Nat /\ m \in Nat
        /\ \A n \in Requests : n = m
    BY DEF LoadInv, LoadTypes, TypeOK
  <2>2. /\ issued <= total + (IF pc = "reply" THEN 1 ELSE 0)
        /\ total <= m /\ (pc = "reply" => total < m)
        /\ pc = "done" => (\E n \in Requests : total >= n) \/ expired
    BY DEF LoadInv, LoadBudget, ShouldStop
  <2> QED BY <2>1, <2>2
<1> QED BY <1>1, LoadInvariance, PTL

(* --rpc bounds what a connection carries, and one that was told to close  *)
(* carries nothing more.                                                   *)
THEOREM ConnectionsAreBounded == LoadSpec => []PerConnection
<1>1. LoadInv => PerConnection
  <2> SUFFICES ASSUME LoadInv PROVE PerConnection
    OBVIOUS
  <2>a. connReq \in Nat /\ onConn \in Nat /\ Most \in Nat \ {0} /\ kind \in Kinds
    BY DEF LoadInv, LoadTypes, TypeOK, Most
  <2>1. CASE kind = "hyper-chunked"
    BY <2>1, <2>a DEF LoadInv, ChunkedInv, ClosesOnLast, PerConnection
  <2>2. CASE kind \in Raw!Kinds
    BY <2>2, <2>a DEF LoadInv, RawInv, RawRest, PerConnection, Raw!Kinds
  <2>3. CASE kind \in Pool!Kinds
    BY <2>3, <2>a DEF LoadInv, PoolInv, PerConnection, Pool!Kinds
  <2> QED BY <2>1, <2>2, <2>3, <2>a DEF Kinds
<1> QED BY <1>1, LoadInvariance, PTL

(* No client reconnects for ever without using up attempts.                *)
THEOREM LoadConnectionsAreUsed == LoadSpec => []NoIdleChurn
<1>1. LoadInv => NoIdleChurn
  <2> SUFFICES ASSUME LoadInv PROVE NoIdleChurn
    OBVIOUS
  <2>1. CASE kind = "hyper-chunked"
    BY <2>1, LoadNumbers DEF LoadInv, ChunkedInv, NoIdleChurn
  <2>2. CASE kind \in Raw!Kinds \cup Pool!Kinds
    <3>1. AttemptsOnce
      BY <2>2 DEF LoadInv, RawInv, RawRest, PoolInv
    <3> QED BY <3>1, LoadNumbers DEF AttemptsOnce, NoIdleChurn
  <2> QED BY <2>1, <2>2, LoadNumbers
<1> QED BY <1>1, LoadInvariance, PTL

(* Server names are rotated evenly, a reconnect in place included.         *)
THEOREM LoadNamesAreRotated == LoadSpec => []NamesRotate
<1>1. LoadInv => NamesRotate
  BY NamesEven DEF LoadInv, LoadTypes, LoadNames
<1> QED BY <1>1, LoadInvariance, PTL
-----------------------------------------------------------------------------
(* A step that makes one attempt, and records it or meets an end of file,  *)
(* is an attempt of a Worker.                                              *)
LEMMA WorkerAttempts ==
  ASSUME LoadTypes, LoadBudget, pc \in {"dial", "send", "reply", "redial"},
         total' = total + 1, UNCHANGED expired,
         \/ stats' = SetError(stats) /\ eofs' = eofs
         \/ stats' = stats /\ eofs' = eofs + 1
         \/ \E code \in Nat : stats' = SetHttpStatus(stats, code) /\ eofs' = eofs,
         pc' = "done" => ShouldStop(total + 1)
  PROVE  LW!Attempt
<1>1. /\ stats = [conn |-> stats.conn, ok |-> stats.ok, fail |-> stats.fail,
                  err |-> stats.err]
      /\ stats.ok \in Nat /\ stats.fail \in Nat /\ stats.err \in Nat
      /\ eofs \in Nat /\ total \in Nat /\ Requests \subseteq Nat /\ expired \in BOOLEAN
  BY DEF LoadTypes, TypeOK, Stats
<1>2. ~LW!BudgetUsed
  BY <1>1 DEF LoadBudget, LW!BudgetUsed
<1>3. (pc' # "done") \in (IF LW!BudgetUsed' \/ expired THEN BOOLEAN ELSE {TRUE})
  BY <1>1 DEF ShouldStop, LW!BudgetUsed
<1>4. \/ stats'.ok = stats.ok + 1 /\ stats'.fail = stats.fail
         /\ stats'.err + eofs' = stats.err + eofs
      \/ stats'.fail = stats.fail + 1 /\ stats'.ok = stats.ok
         /\ stats'.err + eofs' = stats.err + eofs
      \/ stats'.ok = stats.ok /\ stats'.fail = stats.fail
         /\ stats'.err + eofs' = (stats.err + eofs) + 1
  BY <1>1 DEF SetError, SetHttpStatus, IncOk
<1> QED BY <1>2, <1>3, <1>4 DEF LW!Attempt

(* Every step of a load task is a step of a Worker, or none.               *)
LEMMA LoadWorkerStep == LoadInv /\ [LoadNext]_allVars => [LW!Next]_LW!vars
<1> SUFFICES ASSUME LoadInv, [LoadNext]_allVars PROVE [LW!Next]_LW!vars
  OBVIOUS
<1>a. /\ LoadTypes /\ LoadBudget /\ kind \in Kinds
      /\ stats \in Stats /\ total \in Nat /\ eofs \in Nat /\ expired \in BOOLEAN
      /\ stats.err \in Nat /\ Status \subseteq Nat
  BY StatsCounts DEF LoadInv, LoadTypes, TypeOK
<1>b. ASSUME UNCHANGED <<total, expired, eofs>>, pc' = "done" <=> pc = "done",
             stats' = stats \/ stats' = IncConn(stats)
      PROVE  UNCHANGED LW!vars
  BY <1>a, <1>b DEF LW!vars, Stats, IncConn
<1>c. LW!Attempt => [LW!Next]_LW!vars
  BY DEF LW!Next
<1>1. CASE ChunkedTask
  <2>1. UNCHANGED eofs /\ eofs = 0 /\ kind = "hyper-chunked"
    BY <1>1, <1>a, ChunkedTaskIs DEF rawOwn, LoadTypes, Raw!Kinds
  <2>2. CASE Stop
    BY <2>1, <2>2, <1>a DEF Stop, ShouldStop, LW!Next, LW!Stop, LW!BudgetUsed
  <2>3. CASE BeginDial \/ ReadyOk \/ Chunked!RedialOk \/ SendRequest
    <3>1. UNCHANGED <<total, expired, stats>> /\ pc # "done" /\ pc' # "done"
      BY <2>3 DEF BeginDial, ReadyOk, Chunked!RedialOk, SendRequest
    <3> QED BY <1>b, <2>1, <3>1
  <2>4. CASE DialOk
    BY <1>b, <2>1, <2>4 DEF DialOk
  <2>5. CASE DialFail \/ ReplyError \/ Chunked!RedialFail
    <3>1. /\ pc \in {"dial", "reply", "redial"} /\ pc' = "loop"
          /\ stats' = SetError(stats) /\ total' = total + 1 /\ UNCHANGED expired
      BY <2>5 DEF DialFail, ReplyError, Chunked!RedialFail, FailAttempt,
                  Chunked!FailAttempt, Chunked!SetError, SetError
    <3> QED BY <1>a, <1>c, <2>1, <3>1, WorkerAttempts
  <2>6. ASSUME NEW code \in Status, Chunked!ReceiveReply(code) PROVE LW!Attempt
    <3>1. /\ pc = "reply" /\ total' = total + 1 /\ UNCHANGED expired
          /\ stats' = SetHttpStatus(stats, code) /\ code \in Nat
          /\ pc' = "done" => ShouldStop(total + 1)
      BY <1>a, <2>6, ChunkedReceives DEF Receive
    <3> QED BY <1>a, <2>1, <3>1, WorkerAttempts
  <2>7. CASE Chunked!ReadyError
    <3>1. /\ pc = "ready" /\ pc' = "send" /\ stats' = SetError(stats)
          /\ UNCHANGED <<total, expired>>
      BY <2>7 DEF Chunked!ReadyError, Chunked!SetError, SetError
    <3>2. stats.err < total
      BY <1>a, <2>1, <3>1 DEF LoadInv, ChunkedInv
    <3>3. stats'.ok = stats.ok /\ stats'.fail = stats.fail
          /\ stats'.err = stats.err + 1
      BY <1>a, <3>1 DEF SetError, Stats
    <3>4. LW!LoseIdleConnection
      BY <1>a, <2>1, <3>1, <3>2, <3>3 DEF LW!LoseIdleConnection
    <3> QED BY <3>4 DEF LW!Next
  <2> QED
    BY <1>1, <1>c, <2>2, <2>3, <2>4, <2>5, <2>6, <2>7, ChunkedTaskIs DEF Dial
<1>2. CASE Raw!RawTask \/ Raw!RawPeer
  <2>1. CASE Stop /\ UNCHANGED rawOwn
    BY <2>1, <1>a DEF Stop, ShouldStop, rawOwn, LW!Next, LW!Stop, LW!BudgetUsed
  <2>2. CASE Raw!BeginConnect \/ Raw!WriteOk
    <3>1. UNCHANGED <<total, expired, stats, eofs>> /\ pc # "done" /\ pc' # "done"
      BY <2>2 DEF Raw!BeginConnect, Raw!WriteOk, Raw!rawVars, Raw!tallies
    <3> QED BY <1>b, <3>1
  <2>3. CASE DialOk /\ Raw!Connected
    <3>1. UNCHANGED eofs
      BY <2>3 DEF Raw!Connected, Raw!tallies
    <3> QED BY <1>b, <2>3, <3>1 DEF DialOk
  <2>4. CASE (DialFail /\ UNCHANGED rawOwn) \/ Raw!WriteFails \/ Raw!ReadError
    <3>1. /\ pc \in {"dial", "send", "reply"} /\ pc' = "loop" /\ UNCHANGED eofs
          /\ stats' = SetError(stats) /\ total' = total + 1 /\ UNCHANGED expired
      BY <2>4, RawTerms DEF DialFail, FailAttempt, rawOwn, Raw!WriteFails,
                            Raw!ReadError, Raw!tallies
    <3> QED BY <1>a, <1>c, <3>1, WorkerAttempts
  <2>5. ASSUME NEW n \in 1 .. Len(inbox), NEW code \in Status, Raw!Read(n, code)
        PROVE  [LW!Next]_LW!vars
    <3>1. UNCHANGED <<expired, eofs>> /\ pc = "reply" /\ code \in Nat
      BY <1>a, <2>5 DEF Raw!Read
    <3>2. \/ UNCHANGED <<stats, total, pc>>
          \/ \E b : Raw!Count(b, code)
      BY <2>5 DEF Raw!Read
    <3>3. ASSUME NEW b, Raw!Count(b, code) PROVE LW!Attempt
      <4>1. /\ stats' = SetHttpStatus(stats, code) /\ total' = total + 1
            /\ pc' = Raw!AfterCount(connReq + 1)
        BY <3>3, RawTerms DEF Raw!Count
      <4>2. pc' = "done" => ShouldStop(total + 1)
        BY <4>1, RawTerms DEF Raw!AfterCount
      <4> QED BY <1>a, <3>1, <4>1, <4>2, WorkerAttempts
    <3> QED BY <1>b, <1>c, <3>1, <3>2, <3>3
  <2>6. CASE Raw!ReadEof
    <3>1. /\ pc = "reply" /\ pc' = "loop" /\ eofs' = eofs + 1
          /\ stats' = stats /\ total' = total + 1 /\ UNCHANGED expired
      BY <2>6 DEF Raw!ReadEof
    <3> QED BY <1>a, <1>c, <3>1, WorkerAttempts
  <2>7. CASE Raw!PeerAnswersRaw \/ Raw!PeerAnswersFat \/ Raw!PeerBreaksOff
             \/ Raw!PeerVolunteers
    <3>1. UNCHANGED <<total, expired, stats, eofs, pc>>
      BY <2>7 DEF Raw!PeerAnswersRaw, Raw!PeerAnswersFat, Raw!PeerBreaksOff,
                  Raw!PeerVolunteers, Raw!AnswersWith, Raw!Sends, Raw!taskVars
    <3> QED BY <1>b, <3>1
  <2> QED BY <1>2, <1>c, <2>1, <2>2, <2>3, <2>4, <2>5, <2>6, <2>7, RawTaskIs
<1>3. CASE Pool!PoolTask /\ UNCHANGED rawOwn
  <2>1. UNCHANGED eofs
    BY <1>3 DEF rawOwn
  <2>2. CASE Stop
    BY <2>1, <2>2, <1>a DEF Stop, ShouldStop, LW!Next, LW!Stop, LW!BudgetUsed
  <2>3. CASE Pool!BuildClient
    BY <1>b, <2>1, <2>3, PoolTerms DEF Pool!BuildClient
  <2>4. CASE Pool!SendPooled \/ Pool!LibraryDials \/ Pool!LibraryRetries
             \/ Pool!LibraryRedirects
    <3>1. UNCHANGED <<total, expired, stats>> /\ pc # "done" /\ pc' # "done"
      BY <2>4 DEF Pool!SendPooled, Pool!LibraryDials, Pool!LibraryRetries,
                  Pool!LibraryRedirects, Pool!taskVars
    <3> QED BY <1>b, <2>1, <3>1
  <2>5. ASSUME NEW code \in Status, Pool!Counted(code) PROVE LW!Attempt
    <3>1. /\ pc = "reply" /\ total' = total + 1 /\ UNCHANGED expired
          /\ stats' = SetHttpStatus(stats, code) /\ code \in Nat
          /\ pc' = "done" => ShouldStop(total + 1)
      BY <1>a, <2>5, PoolTerms DEF Pool!Counted, Pool!AfterCounted
    <3> QED BY <1>a, <2>1, <3>1, WorkerAttempts
  <2>6. CASE Pool!RequestError
    <3>1. /\ pc = "reply" /\ pc' = "loop"
          /\ stats' = SetError(stats) /\ total' = total + 1 /\ UNCHANGED expired
      BY <2>6, PoolTerms DEF Pool!RequestError
    <3> QED BY <1>a, <1>c, <2>1, <3>1, WorkerAttempts
  <2> QED BY <1>3, <1>c, <2>2, <2>3, <2>4, <2>5, <2>6, PoolTaskIs
<1>4. CASE (PeerAnswers \/ LinkLost) /\ UNCHANGED rawOwn
  <2>1. UNCHANGED <<total, expired, stats, eofs, pc>>
    BY <1>4 DEF PeerAnswers, LinkLost, taskVars, rawOwn
  <2> QED BY <1>b, <2>1
<1>5. CASE DeadlinePasses /\ UNCHANGED rawOwn
  BY <1>5 DEF DeadlinePasses, taskVars, rawOwn, LW!Next, LW!DeadlinePasses
<1>6. CASE UNCHANGED <<vars, rawOwn>>
  BY <1>b, <1>6 DEF vars, taskVars, rawOwn
<1> QED BY <1>1, <1>2, <1>3, <1>4, <1>5, <1>6, <1>a, KindSteps

(* Whichever client it runs, a load task keeps the promises of a Worker:   *)
(* the refinement behind LoadImplementsWorker, its fairness apart.         *)
THEOREM LoadTaskIsWorker == LoadSpec => LW!SafeSpec
<1>1. LoadInit => LW!Init
  BY DEF LoadInit, Init, Raw!RawInit, LW!Init, NewStats
<1>2. LoadInv /\ [LoadNext]_allVars => [LW!Next]_LW!vars
  BY LoadWorkerStep
<1> QED BY <1>1, <1>2, LoadInvariance, PTL DEF LoadSpec, LW!SafeSpec
=============================================================================
