---------------------------- MODULE PooledClient ----------------------------
(***************************************************************************)
(* One load task of the clients that leave connections to a library:       *)
(* `hyper-legacy` (src/client/hyper_legacy.rs), `hyper-rt1` and `reqwest`. *)
(* The task counts a connection when it builds or takes up a client; the   *)
(* library connects when a request needs a connection, keeps one for the   *)
(* next request, replaces a dead one and may retry on a new one.           *)
(*                                                                         *)
(*    loop --BuildClient--> send --SendPooled--> reply --Counted--+        *)
(*      ^                    ^                     |              |        *)
(*      +------- error ------|---------------------+              |        *)
(*                           +------------------------------------+        *)
(***************************************************************************)
EXTENDS ClientTask

CONSTANT MaxHops   \* redirects reqwest follows in one request

VARIABLES
  kind,     \* which of the clients this is; never changes
  reused,   \* the request went out on a connection that was already there
  hops      \* redirects followed for the request in hand

poolVars == <<kind, reused, hops>>

Kinds == {"hyper-legacy", "hyper-rt1", "reqwest"}

(* hyper-rt1 is handed a client the tasks of an instance share: it knows   *)
(* no --rpc and keeps the client across errors.                            *)
Shares == kind = "hyper-rt1"

PoolInit == reused = FALSE /\ hops = 0
-----------------------------------------------------------------------------
(* The head of 'connection: a client is built (or taken up), and counted   *)
(* as a connection before there is any.                                    *)
BuildClient ==
  /\ pc = "loop" /\ ~ShouldStop(total) /\ TimeAllows
  /\ pc' = "send"
  /\ stats' = IncConn(stats)
  /\ connReq' = 0
  /\ link' = (IF Shares THEN link ELSE "none")
  /\ UNCHANGED <<total, target, generation, expired, wire, onConn, closing,
                 served, histVars, poolVars>>

LastPooled(n) == ~Shares /\ IsLast(n)

(* client.request: an idle connection of the pool is used again ... *)
SendPooled ==
  /\ pc = "send" /\ TimeAllows
  /\ pc' = "reply"
  /\ connReq' = (IF Shares THEN 0 ELSE connReq + 1)
  /\ target' = NextTarget(target)
  /\ Issue(target)
  /\ HandOver(LastPooled(connReq + 1))
  /\ reused' = (link = "up")
  /\ link' = (IF link = "up" THEN "up" ELSE "none")
  /\ hops' = 0
  /\ UNCHANGED <<total, generation, stats, expired, served, sniDials, made,
                 kind>>

(* ... or the library connects and sends the request; it may fail to. *)
LibraryDials ==
  /\ pc = "reply" /\ link = "none"
  /\ link' = "up" /\ wire' = "request" /\ onConn' = 1
  /\ closing' = LastPooled(connReq)
  /\ made' = made + 1
  /\ UNCHANGED <<taskVars, expired, served, issued, late, sentTo, sniDials,
                 poolVars>>

(* A request lost with a connection out of the pool is tried once more. *)
LibraryRetries ==
  /\ pc = "reply" /\ link = "down" /\ wire # "response" /\ reused
  /\ link' = "none" /\ wire' = "quiet" /\ reused' = FALSE
  /\ UNCHANGED <<taskVars, expired, onConn, closing, served, histVars, kind,
                 hops>>

(* reqwest follows a redirect on the connection or on another one. *)
LibraryRedirects ==
  /\ kind = "reqwest" /\ pc = "reply" /\ wire = "response"
  /\ hops < MaxHops /\ hops' = hops + 1
  /\ IF link = "up" /\ ~closing
     THEN wire' = "request" /\ onConn' = onConn + 1 /\ UNCHANGED link
     ELSE wire' = "quiet" /\ link' = "none" /\ UNCHANGED onConn
  /\ UNCHANGED <<taskVars, expired, closing, served, histVars, kind, reused>>

TooManyRedirects == kind = "reqwest" /\ wire = "response" /\ hops = MaxHops
-----------------------------------------------------------------------------
AfterCountedMut(n) == IF n = 0 \/ LastPooled(connReq) THEN "loop" ELSE "send"
(* Where the task goes once its response is counted. *)
AfterCounted(n) == IF ShouldStop(n) THEN "done" ELSE "send"

(* The response is counted; after the last request the client is built     *)
(* anew without a look at the head of the loop.  reqwest counts the head   *)
(* and drops the body unread, which may cost it the connection.            *)
Counted(code) ==
  /\ pc = "reply" /\ wire = "response"
  /\ stats' = SetHttpStatus(stats, code)
  /\ total' = total + 1
  /\ pc' = AfterCounted(total + 1)
  /\ wire' = "quiet"
  /\ IF LastPooled(connReq)
     THEN connReq' = 0 /\ link' = "none"
     ELSE /\ connReq' = connReq
          /\ link' \in (IF kind = "reqwest" THEN {link, "none"} ELSE {link})
  /\ UNCHANGED <<target, generation, expired, onConn, closing, served, histVars,
                 poolVars>>

(* Connecting, sending or reading failed, or reqwest gave up. *)
RequestError ==
  /\ pc = "reply"
  /\ link # "up" \/ TooManyRedirects
  /\ FailAttempt
  /\ pc' = "loop"
  /\ DropConnection
  /\ UNCHANGED <<connReq, target, generation, expired, onConn, closing, served,
                 histVars, poolVars>>
-----------------------------------------------------------------------------
PoolTask ==
  \/ (Stop /\ UNCHANGED poolVars) \/ BuildClient \/ SendPooled
  \/ LibraryDials \/ LibraryRetries \/ LibraryRedirects
  \/ (\E code \in Status : Counted(code)) \/ RequestError
=============================================================================
