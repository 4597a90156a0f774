---------------------------- MODULE TaskProofs -----------------------------
(***************************************************************************)
(* What the load tasks have in common, proved once: the counters of their  *)
(* Statistics, the types of the variables across the actions of            *)
(* ClientTask, and the turns of targets and server names.                  *)
(***************************************************************************)
EXTENDS ClientTask, Lemmas

USE TaskAssumption DEF TaskAssumption

(* Definitions every step needs. *)
LEMMA IndexRange ==
  /\ Global % Targets \in TargetIds
  /\ \A g \in Nat : SniIndex(g) \in NameIds
BY ModSucc DEF TargetIds, NameIds, SniIndex

LEMMA StatsTypes ==
  ASSUME NEW s \in Stats, NEW code \in Nat
  PROVE  /\ IncConn(s) \in Stats /\ SetHttpStatus(s, code) \in Stats
         /\ SetError(s) \in Stats
BY DEF Stats, IncConn, SetHttpStatus, IncOk, SetError

(* The type invariant holds initially and is preserved by every step.      *)
LEMMA InitTypeOK == Init => TypeOK
<1>1. NewStats \in Stats
  BY DEF NewStats, Stats
<1>2. Global % Targets \in TargetIds
  BY IndexRange
<1>3. /\ [t \in TargetIds |-> 0] \in [TargetIds -> Nat]
      /\ [n \in NameIds |-> 0] \in [NameIds -> Nat]
  OBVIOUS
<1> QED BY <1>1, <1>2, <1>3 DEF Init, TypeOK, Points

(* What the counters of one Statistics add up to after each update.        *)
LEMMA StatsCounts ==
  ASSUME NEW s \in Stats, NEW code \in Nat
  PROVE  /\ s.conn \in Nat /\ s.err \in Nat
         /\ Answered(s) \in Nat /\ Recorded(s) = Answered(s) + s.err
         /\ IncConn(s).conn = s.conn + 1
         /\ IncConn(s).err = s.err
         /\ Answered(IncConn(s)) = Answered(s)
         /\ SetError(s).conn = s.conn
         /\ SetError(s).err = s.err + 1
         /\ Answered(SetError(s)) = Answered(s)
         /\ SetHttpStatus(s, code).conn = s.conn
         /\ SetHttpStatus(s, code).err = s.err
         /\ Answered(SetHttpStatus(s, code)) = Answered(s) + 1
<1>1. s = [conn |-> s.conn, ok |-> s.ok, fail |-> s.fail, err |-> s.err]
      /\ s.conn \in Nat /\ s.ok \in Nat /\ s.fail \in Nat /\ s.err \in Nat
  BY DEF Stats
<1>2. IncConn(s).conn = s.conn + 1 /\ IncConn(s).err = s.err
      /\ Answered(IncConn(s)) = Answered(s)
  BY <1>1 DEF IncConn, Answered
<1>3. SetError(s).conn = s.conn /\ SetError(s).err = s.err + 1
      /\ Answered(SetError(s)) = Answered(s)
  BY <1>1 DEF SetError, Answered
<1>4. SetHttpStatus(s, code).conn = s.conn /\ SetHttpStatus(s, code).err = s.err
      /\ Answered(SetHttpStatus(s, code)) = Answered(s) + 1
  BY <1>1 DEF SetHttpStatus, IncOk, Answered
<1> QED BY <1>1, <1>2, <1>3, <1>4 DEF Answered, Recorded

-----------------------------------------------------------------------------
(* The actions of ClientTask keep the types, ...                           *)
LEMMA SharedTypeOK ==
  ASSUME TypeOK,
         \/ Stop \/ BeginDial \/ Dial \/ SendRequest \/ ReplyError \/ ReadyOk
         \/ Environment \/ UNCHANGED vars
  PROVE  TypeOK'
<1> USE DEF TypeOK, Points
<1>1. CASE Stop
  BY <1>1 DEF Stop, netVars, histVars
<1>2. CASE BeginDial
  BY <1>2, IndexRange DEF BeginDial, PickName, netVars
<1>3. CASE DialOk
  <2>1. IncConn(stats) \in Stats
    BY DEF IncConn, Stats
  <2>2. link' = "up" /\ wire' = "quiet" /\ onConn' = 0 /\ made' = made + 1
    BY <1>3 DEF DialOk, NewConnection
  <2>3. pc' = "send" /\ stats' = IncConn(stats) /\ connReq' = 0
        /\ UNCHANGED <<total, target, generation, served, issued, late,
                       sentTo, sniDials>>
    BY <1>3 DEF DialOk
  <2>4. closing' \in BOOLEAN /\ expired' \in BOOLEAN
    BY <1>3, Zenon DEF DialOk, NewConnection
  <2> QED BY <2>1, <2>2, <2>3, <2>4
<1>4. CASE DialFail
  BY <1>4, StatsTypes DEF DialFail, FailAttempt, netVars, histVars
<1>5. CASE SendRequest
  <2>1. NextTarget(target) \in TargetIds
    BY DEF NextTarget, TargetIds
  <2>2. IsLast(connReq + 1) \in BOOLEAN
    BY DEF IsLast
  <2>3. wire' \in {"quiet", "request", "response"} /\ onConn' \in Nat
        /\ closing' \in BOOLEAN
    BY <1>5, <2>2 DEF SendRequest, HandOver
  <2>4. issued' \in Nat /\ late' \in Nat /\ sentTo' \in [TargetIds -> Nat]
    BY <1>5 DEF SendRequest, Issue
  <2> QED BY <1>5, <2>1, <2>3, <2>4 DEF SendRequest
<1>6. CASE ReplyError
  BY <1>6, StatsTypes DEF ReplyError, FailAttempt, DropConnection, histVars
<1>7. CASE ReadyOk
  BY <1>7 DEF ReadyOk, netVars, histVars
<1>8. CASE PeerAnswers
  BY <1>8 DEF PeerAnswers, taskVars, histVars
<1>9. CASE LinkLost
  BY <1>9 DEF LinkLost, taskVars, histVars
<1>10. CASE DeadlinePasses
  BY <1>10 DEF DeadlinePasses, taskVars, netVars, histVars
<1>11. CASE UNCHANGED vars
  BY <1>11 DEF vars, taskVars, netVars, histVars
<1> QED
  BY <1>1, <1>2, <1>3, <1>4, <1>5, <1>6, <1>7, <1>8, <1>9, <1>10, <1>11
     DEF Dial, Environment

(* ... and so does a response that is recorded, whatever its status.       *)
LEMMA ReceiveTypeOK ==
  ASSUME TypeOK, NEW code \in Nat, NEW to \in Points, Receive(code, to),
         UNCHANGED <<generation, sniDials>> \/ PickName
  PROVE  TypeOK'
<1> USE DEF TypeOK
<1>1. generation' \in Nat /\ sniDials' \in [NameIds -> Nat]
  BY IndexRange DEF PickName
<1>2. SetHttpStatus(stats, code) \in Stats
  BY StatsTypes
<1> QED BY <1>1, <1>2 DEF Receive

-----------------------------------------------------------------------------
(* One more request goes to the target whose turn it is, ...               *)
LEMMA TargetTurn ==
  ASSUME TypeOK, Turns(sentTo, Targets, Global % Targets, target),
         Issue(target), target' = NextTarget(target)
  PROVE  Turns(sentTo', Targets, Global % Targets, target')
<1>1. /\ target \in TargetIds /\ Global % Targets \in TargetIds
      /\ sentTo \in [TargetIds -> Nat]
  BY IndexRange DEF TypeOK
<1>2. Turns([sentTo EXCEPT ![target] = @ + 1], Targets, Global % Targets,
            NextTarget(target))
  BY <1>1, TurnsStep DEF TargetIds, NextTarget
<1> QED BY <1>2 DEF Issue

(* ... and one more connection is tried under the name whose turn it is.   *)
LEMMA NameTurn ==
  ASSUME TypeOK, Turns(sniDials, Names, Global % Names, SniIndex(generation)),
         PickName
  PROVE  Turns(sniDials', Names, Global % Names, SniIndex(generation'))
<1>1. SniIndex(generation) \in NameIds /\ Global % Names \in NameIds
      /\ SniIndex(generation + 1) = IF SniIndex(generation) + 1 = Names
                                    THEN 0 ELSE SniIndex(generation) + 1
  <2>1. generation \in Nat /\ Global + generation \in Nat
        /\ Global + (generation + 1) = (Global + generation) + 1
    BY DEF TypeOK
  <2> QED BY <2>1, ModSucc DEF SniIndex, NameIds
<1>2. sniDials \in [NameIds -> Nat]
  BY DEF TypeOK
<1>3. Turns([sniDials EXCEPT ![SniIndex(generation)] = @ + 1], Names,
            Global % Names, SniIndex(generation + 1))
  BY <1>1, <1>2, TurnsStep DEF NameIds
<1> QED BY <1>3 DEF PickName

(* Before the first use the turns are in order.                            *)
LEMMA FirstTurns ==
  ASSUME Init
  PROVE  /\ Turns(sentTo, Targets, Global % Targets, target)
         /\ Turns(sniDials, Names, Global % Names, SniIndex(generation))
<1>1. Turns(sentTo, Targets, Global % Targets, target)
  BY IndexRange, TurnsStart DEF Init, TargetIds
<1>2. SniIndex(0) = Global % Names
  BY DEF SniIndex
<1>3. Global % Names \in NameIds
  BY IndexRange, <1>2
<1> QED BY <1>1, <1>2, <1>3, TurnsStart DEF Init, NameIds

(* Turns are even.                                                         *)
LEMMA NamesEven ==
  ASSUME TypeOK, Turns(sniDials, Names, Global % Names, SniIndex(generation))
  PROVE  NamesRotate
<1>1. generation \in Nat /\ sniDials \in [NameIds -> Nat]
  BY DEF TypeOK
<1>2. SniIndex(generation) \in NameIds
  BY <1>1, IndexRange
<1>3. Global % Names \in NameIds
  BY ModSucc DEF NameIds
<1> QED BY <1>1, <1>2, <1>3, TurnsBalanced DEF NamesRotate, NameIds

LEMMA TargetsEven ==
  ASSUME TypeOK, Turns(sentTo, Targets, Global % Targets, target)
  PROVE  TargetsRotate
BY IndexRange, TurnsBalanced DEF TypeOK, TargetsRotate, TargetIds
=============================================================================
