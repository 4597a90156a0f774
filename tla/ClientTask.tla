----------------------------- MODULE ClientTask -----------------------------
(***************************************************************************)
(* What the load tasks built on hyper connections have in common           *)
(* (src/client/hyper.rs, hyper_chunked.rs, hyper_h2.rs): the task's        *)
(* variables, the connection with the peer at its other end, the head of   *)
(* the 'connection loop, and the properties.  Each client module extends   *)
(* this one with the part of the loop that is its own.                     *)
(*                                                                         *)
(* Every .await of the code is a boundary between two actions; what the    *)
(* code does between two awaits is one action.  The peer may answer, and   *)
(* the connection may be lost, at any time.                                *)
(***************************************************************************)
EXTENDS Statistics, Rotation

CONSTANTS
  Requests,     \* -r: {} when absent, {m} for a budget of m attempts
  HasDuration,  \* -d was given
  Rpc,          \* --rpc, requests per connection (u32::MAX by default)
  Targets,      \* number of request targets (hosts x URI)
  Names,        \* number of TLS server names the task rotates through
  Global,       \* conn_base + cid, the global index of this task
  Status,       \* status codes the peer may answer with
  Horizon       \* bound: attempts that fit in the duration

ASSUME TaskAssumption ==
  /\ Requests \subseteq Nat /\ \A m, n \in Requests : m = n
  /\ HasDuration \in BOOLEAN
  /\ Rpc \in Nat
  /\ Targets \in Nat \ {0} /\ Names \in Nat \ {0}
  /\ Global \in Nat
  /\ Status \subseteq Nat
  /\ Horizon \in Nat

VARIABLES
  pc,          \* where the task is between two awaits
  total,       \* attempts made
  connReq,     \* conn_req_count: requests on the current connection
  target,      \* target_idx
  generation,  \* connections tried so far
  stats,       \* the task's Statistics
  expired,     \* start.elapsed() > duration
  link,        \* "none", "up" or "down"
  wire,        \* what is outstanding on the link: "quiet", "request", "response"
  onConn,      \* requests the peer received on this connection
  closing,     \* the peer received "Connection: close" on this connection
  served,      \* responses the peer sent, on all connections
  issued,      \* requests issued, on all connections
  late,        \* requests issued after the deadline
  sentTo,      \* requests issued per target
  sniDials,    \* connections tried per server name
  made         \* connections established

taskVars == <<pc, total, connReq, target, generation, stats>>
netVars  == <<link, wire, onConn, closing, served>>
histVars == <<issued, late, sentTo, sniDials, made>>
vars     == <<taskVars, expired, netVars, histVars>>

TargetIds == 0 .. Targets - 1
NameIds   == 0 .. Names - 1

(* The await a task stands at; a client uses those its code has. *)
Points == {"loop", "dial", "send", "reply", "ready", "redial", "done", "panicked"}
-----------------------------------------------------------------------------
(* A definition named ...Mut is a bug one could write in the definition    *)
(* that follows it; no action uses it.                                     *)

(* should_stop(total, start, opts) *)
ShouldStopMut(n) == (\E m \in Requests : n > m) \/ expired
ShouldStop(n) == (\E m \in Requests : n >= m) \/ expired

IsLastMut(n) == n > Rpc
(* is_last: this request is the last one of its connection. *)
IsLast(n) == n >= Rpc

NextTargetMut(t) == t + 1
NextTargetSkipMut(t) == IF t + 2 = Targets THEN 0 ELSE t + 1
(* target_idx += 1, wrapping at targets.len() *)
NextTarget(t) == IF t + 1 = Targets THEN 0 ELSE t + 1

SniIndexMut(g) == Global % Names
(* tls_server_name_at(opts, uri, cid, generation) *)
SniIndex(g) == (Global + g) % Names

(* The bound on a run limited by its duration only: time passes. *)
TimeAllows == expired \/ total < Horizon

(* Leaving the inner loop drops the sender, which ends the connection. *)
DropConnection == link' = "none" /\ wire' = "quiet"

(* The error arms of the loop: set_error and total += 1. *)
FailAttemptMut == stats' = SetError(stats) /\ total' = total
FailAttemptSilentMut == stats' = stats /\ total' = total + 1
FailAttempt == stats' = SetError(stats) /\ total' = total + 1

(* A connection is established: the peer has seen nothing on it yet. *)
NewConnection ==
  /\ link' = "up" /\ wire' = "quiet" /\ onConn' = 0 /\ closing' = FALSE
  /\ made' = made + 1

(* A request goes out, with "Connection: close" or not; a dead link        *)
(* swallows it and the error comes back at the reply.                      *)
HandOver(close) ==
  IF link = "up"
  THEN wire' = "request" /\ onConn' = onConn + 1 /\ closing' = close
  ELSE UNCHANGED <<wire, onConn, closing>>

(* The server name of the next connection is picked, and it is tried. *)
PickName ==
  /\ generation' = generation + 1
  /\ sniDials' = [sniDials EXCEPT ![SniIndex(generation)] = @ + 1]

(* Bookkeeping of a request issued for target t. *)
Issue(t) ==
  /\ issued' = issued + 1
  /\ late' = IF expired THEN late + 1 ELSE late
  /\ sentTo' = [sentTo EXCEPT ![t] = @ + 1]

Init ==
  /\ pc = "loop"
  /\ total = 0 /\ connReq = 0 /\ generation = 0
  /\ target = Global % Targets
  /\ stats = NewStats
  /\ expired = FALSE
  /\ link = "none" /\ wire = "quiet"
  /\ onConn = 0 /\ closing = FALSE /\ served = 0
  /\ issued = 0 /\ late = 0 /\ made = 0
  /\ sentTo = [t \in TargetIds |-> 0]
  /\ sniDials = [n \in NameIds |-> 0]
-----------------------------------------------------------------------------
(* The head of 'connection: the task returns its statistics ... *)
Stop ==
  /\ pc = "loop" /\ ShouldStop(total)
  /\ pc' = "done"
  /\ UNCHANGED <<total, connReq, target, generation, stats, expired,
                 netVars, histVars>>

(* ... or picks the server name and starts to connect. *)
BeginDial ==
  /\ pc = "loop" /\ ~ShouldStop(total) /\ TimeAllows
  /\ pc' = "dial"
  /\ PickName
  /\ UNCHANGED <<total, connReq, target, stats, expired, netVars,
                 issued, late, sentTo, made>>

(* build_connection returned Some: inc_conn and a fresh request count. *)
DialOk ==
  /\ pc = "dial"
  /\ pc' = "send"
  /\ stats' = IncConn(stats)
  /\ connReq' = 0
  /\ NewConnection
  /\ UNCHANGED <<total, target, generation, expired, served, issued, late,
                 sentTo, sniDials>>

(* TCP, TLS or handshake failed: one error, one attempt used. *)
DialFail ==
  /\ pc = "dial"
  /\ pc' = "loop"
  /\ FailAttempt
  /\ UNCHANGED <<connReq, target, generation, expired, netVars, histVars>>
-----------------------------------------------------------------------------
(* The body of the inner loop, as hyper and hyper-chunked have it.  Build  *)
(* the next request and hand it to the connection ...                      *)
SendRequest ==
  /\ pc = "send" /\ TimeAllows
  /\ pc' = "reply"
  /\ connReq' = connReq + 1
  /\ target' = NextTarget(target)
  /\ HandOver(IsLast(connReq + 1))
  /\ Issue(target)
  /\ UNCHANGED <<total, generation, stats, expired, link, served, sniDials,
                 made>>

(* ... record the response once its whole body arrived; the task goes on   *)
(* to `next`, and only a task that waits for `ready` keeps its connection. *)
Receive(code, next) ==
  /\ pc = "reply" /\ wire = "response"
  /\ stats' = SetHttpStatus(stats, code)
  /\ total' = total + 1
  /\ pc' = next
  /\ wire' = "quiet"
  /\ link' = IF next = "ready" THEN link ELSE "none"
  /\ UNCHANGED <<connReq, target, expired, onConn, closing, served, issued,
                 late, sentTo, made>>

BrokenMut == link = "down" /\ wire # "quiet"
Broken == link = "down"

(* ... or fail: send_request failed, or the body broke off. *)
ReplyError ==
  /\ pc = "reply" /\ Broken
  /\ FailAttempt
  /\ pc' = "loop"
  /\ DropConnection
  /\ UNCHANGED <<connReq, target, generation, expired, onConn, closing,
                 served, histVars>>

(* sender.ready() found the connection fit for another request. *)
ReadyOk ==
  /\ pc = "ready" /\ link = "up"
  /\ pc' = "send"
  /\ UNCHANGED <<total, connReq, target, generation, stats, expired, netVars,
                 histVars>>
-----------------------------------------------------------------------------
(* The environment: the peer, the network and the clock. *)
PeerAnswers ==
  /\ link = "up" /\ wire = "request"
  /\ wire' = "response"
  /\ served' = served + 1
  /\ UNCHANGED <<taskVars, expired, link, onConn, closing, histVars>>

LinkLost ==
  /\ link = "up"
  /\ link' = "down"
  /\ UNCHANGED <<taskVars, expired, wire, onConn, closing, served, histVars>>

DeadlinePasses ==
  /\ HasDuration /\ ~expired
  /\ expired' = TRUE
  /\ UNCHANGED <<taskVars, netVars, histVars>>

(* The task has returned; nothing is left to happen to it. *)
Returned == pc = "done" /\ UNCHANGED vars

(* A peer that holds a request answers it or goes away. *)
PeerReacts == PeerAnswers \/ (wire = "request" /\ LinkLost)

Dial == DialOk \/ DialFail

Environment == PeerAnswers \/ LinkLost \/ DeadlinePasses
-----------------------------------------------------------------------------
TypeOK ==
  /\ pc \in Points
  /\ total \in Nat /\ connReq \in Nat /\ generation \in Nat
  /\ target \in TargetIds
  /\ stats \in Stats
  /\ expired \in BOOLEAN
  /\ link \in {"none", "up", "down"}
  /\ wire \in {"quiet", "request", "response"}
  /\ onConn \in Nat /\ closing \in BOOLEAN /\ served \in Nat
  /\ issued \in Nat /\ late \in Nat
  /\ sentTo \in [TargetIds -> Nat]
  /\ sniDials \in [NameIds -> Nat] /\ made \in Nat

(* An attempt is recorded, whichever of its awaits failed, and what else   *)
(* is recorded is at most one error per connection: the paths that call    *)
(* set_error without total += 1 all lead to a new connection.              *)
AttemptsRecorded ==
  /\ total <= Recorded(stats)
  /\ Recorded(stats) <= total + stats.conn

(* The printed ok and status counts are responses the peer really sent,    *)
(* each counted once, and a response that was sent and not counted shows   *)
(* up as an error: discard_body and the error paths neither drop nor       *)
(* double a response.                                                      *)
ResponsesCounted ==
  LET unread == IF wire = "response" THEN 1 ELSE 0
  IN  /\ Answered(stats) + unread <= served
      /\ served <= Recorded(stats) + unread

(* With -r the task issues at most that many requests, reconnects and      *)
(* failed connects included, and stops short of it only at the deadline.   *)
BudgetRespected ==
  \A m \in Requests :
    /\ issued <= m /\ total <= m
    /\ pc = "done" /\ ~expired => total = m

(* The requests a connection may carry. *)
Most == IF Rpc = 0 THEN 1 ELSE Rpc

(* A connection carries at most --rpc requests (one if 0 is given), and    *)
(* the peer reads "Connection: close" on the last of them and on no other. *)
ClosesOnLast ==
  /\ onConn <= Most
  /\ closing <=> onConn = Most

(* Connecting again, and an error of any kind, uses up the budget: a peer  *)
(* that drops idle connections cannot keep the task reconnecting for ever. *)
NoIdleChurn ==
  /\ stats.conn <= total + 1
  /\ stats.err <= total

(* The reported connections are the connections established, the figure    *)
(* --rpc 1 is documented to measure.                                       *)
ConnectionsCounted == stats.conn = made

(* Hosts are rotated round-robin over the requests across reconnects and   *)
(* errors: no target is ever two requests ahead of another.                *)
TargetsRotate == Balanced(sentTo, Targets)

(* Server names are rotated over all connection attempts, failed ones      *)
(* included.                                                               *)
NamesRotate == Balanced(sniDials, Names)

(* After the deadline at most one more request is issued: the one whose    *)
(* should_stop check came before it.                                       *)
OneLateRequest == late <= 1

(* The task keeps the promises of a Worker.                                *)
W == INSTANCE Worker WITH
       attempts <- total, ok <- stats.ok, fail <- stats.fail,
       err <- stats.err, running <- (pc # "done"), deadline <- expired

ImplementsWorker == W!Spec
=============================================================================
