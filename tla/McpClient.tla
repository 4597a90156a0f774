----------------------------- MODULE McpClient -----------------------------
(***************************************************************************)
(* One load task of the `hyper-mcp` client (src/client/hyper_mcp.rs).  Its *)
(* loop is that of `hyper` around tool calls; before the first call it     *)
(* greets the server: initialize, the initialized notification, then       *)
(* tools/list, whose answer gives the bodies of the calls.                 *)
(*                                                                         *)
(* Over "streamable" HTTP the greeting runs on the first connection of the *)
(* loop and gives a session id; over "sse" it runs before the loop, with   *)
(* the messages posted on one connection and answered as events on         *)
(* another.  Whatever goes wrong in a greeting ends the process.           *)
(***************************************************************************)
EXTENDS HyperClient, Sequences

CONSTANTS
  Transports,   \* transports to examine
  Sessions,     \* session ids the server may give; 0 stands for none
  ToolList,     \* the tools of the server, numbered, in its order
  Wanted,       \* --mcp-tool, {} for all
  MaxNoise      \* bound: events of the server nobody asked for

ASSUME McpAssumption ==
  /\ Transports \subseteq {"streamable", "sse"}
  /\ Sessions \subseteq Nat /\ ToolList \in Seq(Nat)
  /\ MaxNoise \in Nat

VARIABLES
  transport,   \* never changes
  phase,       \* where the greeting is; "set" when it is over
  step,        \* the message of the greeting that is next
  session,     \* the session id the server gave
  plainHdr,    \* targets: the session id in each target's headers
  closeHdr,    \* targets_close: the same with Connection: close
  bodies,      \* tool_bodies
  bodyIdx,     \* body_idx
  stream,      \* events on their way to the task
  streamUp,    \* the event stream has not ended
  owes,        \* events the server has yet to send
  noise,       \* events sent without need
  heard,       \* messages of the greeting the server received
  called,      \* calls per tool body
  unsigned     \* a message after initialize lacked the session id

streamVars  == <<stream, streamUp, owes, noise>>
sessionVars == <<session, plainHdr, closeHdr>>
toolVars    == <<bodies, bodyIdx, called>>
seenVars    == <<heard, unsigned>>
mcpVars  == <<transport, phase, step, sessionVars, toolVars, streamVars, seenVars>>
callVars == <<vars, mcpVars>>

Greeting == <<"initialize", "initialized", "tools/list">>

McpInit ==
  /\ Init
  /\ transport \in Transports
  /\ phase = (IF transport = "sse" THEN "open" ELSE "set")
  /\ step = "initialize" /\ session = 0
  /\ plainHdr = [t \in TargetIds |-> 0] /\ closeHdr = [t \in TargetIds |-> 0]
  /\ bodies = <<>> /\ bodyIdx = 0
  /\ called = [i \in 0 .. Len(ToolList) - 1 |-> 0]
  /\ stream = <<>> /\ streamUp = FALSE /\ owes = {} /\ noise = 0
  /\ heard = <<>> /\ unsigned = FALSE

(* fatal!: the process exits. *)
Fatal == phase' = "failed"

(* filter_tools, in the order of the server. *)
Selected(list) ==
  LET kept[n \in 0 .. Len(list)] ==
        IF n = 0 THEN <<>>
        ELSE IF Wanted = {} \/ list[n] \in Wanted
        THEN Append(kept[n - 1], list[n]) ELSE kept[n - 1]
  IN  kept[Len(list)]

(* The server receives a message with this session id. *)
Post(message, sid) ==
  /\ heard' = Append(heard, message)
  /\ unsigned' = (unsigned \/ (message # "initialize" /\ sid # session))
-----------------------------------------------------------------------------
(* mcp_streamable_http_initialize, on the connection just made: post_json  *)
(* waits for the response to each message.                                 *)
Hello ==
  /\ phase = "hello" /\ link = "up"
  /\ phase' = "greeting"
  /\ wire' = "request"
  /\ Post(step, session)
  /\ UNCHANGED <<taskVars, expired, link, onConn, closing, served, histVars,
                 transport, step, sessionVars, toolVars, streamVars>>

AdoptMut == plainHdr' = [t \in TargetIds |-> session] /\ closeHdr' = closeHdr
(* The session id goes into both header sets of every target. *)
Adopt ==
  /\ plainHdr' = [t \in TargetIds |-> session]
  /\ closeHdr' = [t \in TargetIds |-> session]

(* The list is filtered and compiled; nothing to call is fatal. *)
TakeTools(list) ==
  IF Selected(list) = <<>>
  THEN Fatal /\ UNCHANGED <<step, bodies>>
  ELSE bodies' = Selected(list) /\ step' = "none" /\ phase' = "set"

HelloAnswered ==
  /\ phase = "greeting" /\ wire = "response"
  /\ wire' = "quiet"
  /\ \/ /\ step = "initialize"
        /\ session' \in Sessions
        /\ step' = "initialized" /\ phase' = "hello"
        /\ UNCHANGED <<plainHdr, closeHdr, bodies>>
     \/ /\ step = "initialized"
        /\ step' = "tools/list" /\ phase' = "hello"
        /\ UNCHANGED <<sessionVars, bodies>>
     \/ /\ step = "tools/list"
        /\ \E list \in {<<>>, ToolList} : TakeTools(list)
        /\ Adopt
        /\ UNCHANGED session
  /\ UNCHANGED <<taskVars, expired, link, onConn, closing, served, histVars,
                 transport, bodyIdx, called, streamVars, seenVars>>

(* Not ready, not sent, a status that is not accepted, a body that is not  *)
(* the expected one.                                                       *)
HelloFails ==
  /\ \/ phase \in {"hello", "greeting"} /\ link = "down"
     \/ phase = "greeting" /\ wire = "response"
  /\ Fatal
  /\ UNCHANGED <<vars, transport, step, sessionVars, toolVars, streamVars,
                 seenVars>>
-----------------------------------------------------------------------------
(* mcp_sse_initialize.  A step of the task that fails is fatal.            *)
Proceed(from, to) == phase = from /\ phase' \in {to, "failed"}

QuietElsewhere == UNCHANGED <<vars, transport, sessionVars, bodyIdx, called>>

(* The GET request; the server answers with a stream of events, of which   *)
(* the first names the endpoint to post to.                                *)
OpenStream ==
  /\ Proceed("open", "endpoint")
  /\ streamUp' = TRUE
  /\ owes' = {"endpoint"}
  /\ QuietElsewhere /\ UNCHANGED <<step, bodies, stream, noise, seenVars>>

DialPost ==
  /\ Proceed("dialpost", "post")
  /\ QuietElsewhere /\ UNCHANGED <<step, bodies, streamVars, seenVars>>

(* send_post: the response is drained, whatever its status; the answer, if *)
(* there is one, comes as an event.                                        *)
SendPost ==
  /\ phase = "post"
  /\ IF step = "initialized"
     THEN step' = "tools/list" /\ phase' \in {"post", "failed"} /\ UNCHANGED owes
     ELSE step' = step /\ phase' \in {"events", "failed"} /\ owes' = owes \cup {step}
  /\ Post(step, session)
  /\ QuietElsewhere /\ UNCHANGED <<bodies, stream, streamUp, noise>>

(* roots/list is answered with MethodNotFound. *)
AnswerRoots ==
  /\ Proceed("answer", "events")
  /\ unsigned' = (unsigned \/ session # 0)
  /\ QuietElsewhere /\ UNCHANGED <<step, bodies, streamVars, heard>>

(* read_sse_event returned an event of the stream. *)
NextEvent(e) == stream # <<>> /\ e = Head(stream) /\ stream' = Tail(stream)

ReadEndpoint ==
  /\ phase = "endpoint" /\ NextEvent("endpoint")
  /\ phase' = "dialpost"
  /\ QuietElsewhere
  /\ UNCHANGED <<step, bodies, streamUp, owes, noise, seenVars>>

(* The first event after initialize has to be its result. *)
ReadInitResult ==
  /\ phase = "events" /\ step = "initialize"
  /\ \E e \in {"initialize", "roots", "ping", "notice"} :
       /\ NextEvent(e)
       /\ IF e = "initialize"
          THEN step' = "initialized" /\ phase' = "post"
          ELSE Fatal /\ step' = step
  /\ QuietElsewhere /\ UNCHANGED <<bodies, streamUp, owes, noise, seenVars>>

(* While the tools are awaited roots/list is answered, other requests and  *)
(* notifications are skipped.                                              *)
ReadToolsResult ==
  /\ phase = "events" /\ step = "tools/list"
  /\ \/ /\ NextEvent("tools/list")
        /\ \E list \in {<<>>, ToolList} : TakeTools(list)
     \/ NextEvent("roots") /\ phase' = "answer" /\ UNCHANGED <<step, bodies>>
     \/ \E e \in {"ping", "notice"} :
          NextEvent(e) /\ UNCHANGED <<phase, step, bodies>>
  /\ QuietElsewhere /\ UNCHANGED <<streamUp, owes, noise, seenVars>>

StreamEndedMut ==
  /\ phase = "endpoint" /\ stream = <<>> /\ ~streamUp
  /\ Fatal
  /\ QuietElsewhere /\ UNCHANGED <<step, bodies, streamVars, seenVars>>
(* A stream that ends before the awaited event is an error.                *)
StreamEnded ==
  /\ phase \in {"endpoint", "events"} /\ stream = <<>> /\ ~streamUp
  /\ Fatal
  /\ QuietElsewhere /\ UNCHANGED <<step, bodies, streamVars, seenVars>>
-----------------------------------------------------------------------------
(* The event stream's other end.  The endpoint comes first.                *)
ServerEmits ==
  /\ streamUp /\ \E e \in owes : stream' = Append(stream, e) /\ owes' = owes \ {e}
  /\ UNCHANGED <<vars, transport, phase, step, sessionVars, toolVars, streamUp,
                 noise, seenVars>>

ServerChats ==
  /\ streamUp /\ phase \in {"post", "events"} /\ noise < MaxNoise
  /\ noise' = noise + 1
  /\ \E e \in {"roots", "ping", "notice"} : stream' = Append(stream, e)
  /\ UNCHANGED <<vars, transport, phase, step, sessionVars, toolVars, streamUp,
                 owes, seenVars>>

StreamBreaks ==
  /\ streamUp /\ streamUp' = FALSE
  /\ phase \notin {"set", "failed"}
  /\ UNCHANGED <<vars, transport, phase, step, sessionVars, toolVars, stream,
                 owes, noise, seenVars>>
-----------------------------------------------------------------------------
(* The loop.  A connection that is up is greeted if no tools are known.    *)
CallConnection ==
  /\ phase = "set" /\ DialOk
  /\ phase' = (IF transport = "streamable" /\ bodies = <<>> THEN "hello" ELSE "set")
  /\ UNCHANGED <<transport, step, sessionVars, toolVars, streamVars, seenVars>>

NextBodyMut(i) == IF i >= Len(bodies) THEN 0 ELSE connReq % Len(bodies)
(* body_idx, wrapped before it is used. *)
NextBody(i) == IF i >= Len(bodies) THEN 0 ELSE i

SendCall ==
  LET i == NextBody(bodyIdx)
      sid == IF IsLast(connReq + 1) THEN closeHdr[target] ELSE plainHdr[target]
  IN  /\ phase = "set" /\ bodies # <<>>
      /\ SendRequest
      /\ bodyIdx' = i + 1
      /\ called' = [called EXCEPT ![i] = @ + 1]
      /\ unsigned' = (unsigned \/ sid # session)
      /\ UNCHANGED <<transport, phase, step, sessionVars, bodies, streamVars,
                     heard>>

(* 202 Accepted counts as ok, too: over sse the result comes as an event,  *)
(* which nobody waits for.                                                 *)
Counts(code) == IF code = 202 THEN 200 ELSE code

CallAnswered == \E code \in Status : ReceiveReply(Counts(code))

Loop ==
  \/ SendCall \/ CallConnection
  \/ /\ phase = "set"
     /\ Stop \/ BeginDial \/ DialFail \/ CallAnswered \/ ReplyError \/ Ready
     /\ UNCHANGED mcpVars

GreetStreamable == Hello \/ HelloAnswered \/ HelloFails

GreetSse ==
  \/ OpenStream \/ ReadEndpoint \/ DialPost \/ SendPost \/ ReadInitResult
  \/ AnswerRoots \/ ReadToolsResult \/ StreamEnded

(* The clock of -d is started after the greeting over sse. *)
Clock == transport = "sse" => phase = "set"

Over == pc = "done" \/ phase = "failed"

McpNext ==
  \/ Loop \/ GreetStreamable \/ GreetSse
  \/ ServerEmits \/ ServerChats \/ StreamBreaks
  \/ (PeerAnswers \/ LinkLost) /\ ~Over /\ UNCHANGED mcpVars
  \/ DeadlinePasses /\ Clock /\ ~Over /\ UNCHANGED mcpVars
  \/ Over /\ UNCHANGED callVars

(* As for the hyper client; a server sends what it owes or ends the        *)
(* stream.                                                                 *)
McpFairness ==
  /\ WF_callVars(Loop) /\ WF_callVars(GreetStreamable) /\ WF_callVars(GreetSse)
  /\ WF_callVars(ServerEmits)
  /\ WF_callVars(PeerReacts /\ ~Over /\ UNCHANGED mcpVars)
  /\ WF_callVars(DeadlinePasses /\ Clock /\ ~Over /\ UNCHANGED mcpVars)

McpSpec == McpInit /\ [][McpNext]_callVars /\ McpFairness
-----------------------------------------------------------------------------
(* A tool is called only after the whole greeting, in its order, and every *)
(* message after initialize carries the session id the server gave, on     *)
(* each connection and with Connection: close or without.                  *)
SessionCarried ==
  /\ ~unsigned
  /\ issued > 0 => heard = Greeting

(* The tools that were asked for are called in turn, and no others, across *)
(* reconnects.                                                             *)
ToolsInTurn ==
  /\ Balanced(called, Len(bodies))
  /\ \A i \in DOMAIN called : called[i] > 0 => i < Len(bodies)
  /\ \A i \in DOMAIN bodies : Wanted # {} => bodies[i] \in Wanted

(* Greetings are no attempts: the calls alone are counted, and the task    *)
(* keeps the promises of a Worker.                                         *)
KeepsWorker == W!SafeSpec

(* The greeting and the calls end, or the process does. *)
McpEnds == <>Over
=============================================================================
