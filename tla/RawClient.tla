----------------------------- MODULE RawClient -----------------------------
(***************************************************************************)
(* One load task of the clients that read and write the socket themselves: *)
(* `compio` (src/client/compio.rs), `monoio` and `tokio-uring`.  Their     *)
(* loops are the same statement by statement; only compio binds a source   *)
(* port, which module PortPool models.                                     *)
(*                                                                         *)
(*    loop --BeginConnect--> dial --Connected--> send --WriteOk--> reply   *)
(*      ^                      |                 ^  |              | |     *)
(*      +------ failures ------+-----------------|--+--------------+ |     *)
(*      +------ after the last of a connection --+---- a response ---+     *)
(*                                                                         *)
(* Nobody pairs a response with its request here: bytes are appended to a  *)
(* buffer until it starts with a complete response, and that is taken for  *)
(* the answer.                                                             *)
(***************************************************************************)
EXTENDS ClientTask, Sequences

CONSTANT MaxExtras   \* bound: responses the peer sends without being asked

VARIABLES
  kind,     \* which of the clients this is; never changes
  owed,     \* requests the peer holds, by their number
  inbox,    \* what the socket holds for the task
  buffer,   \* connection_buffer
  eofs,     \* attempts that ended with Ok(0)
  extras,   \* responses sent without a request
  misread   \* a response was counted for a request it does not answer

byteVars == <<owed, inbox, buffer>>
tallies  == <<eofs, extras, misread>>
rawVars  == <<kind, byteVars, tallies>>

Kinds == {"compio", "monoio", "tokio-uring"}

(* A response is two pieces that a read may separate; one of more than     *)
(* sixteen headers is a piece nothing can be made of.                      *)
Whole(n) == <<[part |-> "head", to |-> n], [part |-> "tail", to |-> n]>>
Start(n) == <<[part |-> "head", to |-> n]>>
Fat(n)   == <<[part |-> "fat", to |-> n]>>

RawInit ==
  /\ owed = <<>> /\ inbox = <<>> /\ buffer = <<>>
  /\ eofs = 0 /\ extras = 0 /\ misread = FALSE
-----------------------------------------------------------------------------
(* FullResponse::decode: whatever follows a head is taken for its body. *)
Decodes(b) == Len(b) >= 2 /\ b[1].part = "head"

DrainMut(b) == b
(* connection_buffer.drain(..response_end) *)
Drain(b) == SubSeq(b, 3, Len(b))

Disconnect == DropConnection /\ owed' = <<>> /\ inbox' = <<>>

BeginConnect ==
  /\ pc = "loop" /\ ~ShouldStop(total) /\ TimeAllows
  /\ pc' = "dial"
  /\ UNCHANGED <<total, connReq, target, generation, stats, expired, netVars,
                 histVars, rawVars>>

(* A new connection has a buffer of its own. *)
Connected ==
  /\ DialOk
  /\ owed' = <<>> /\ inbox' = <<>> /\ buffer' = <<>>
  /\ UNCHANGED <<kind, tallies>>

NotConnected == DialFail /\ UNCHANGED rawVars

(* The target is taken before the write, whatever becomes of it. *)
TakeTarget == target' = NextTarget(target) /\ Issue(target)

(* write_all: bytes written to a dead connection may be lost silently ... *)
WriteOk ==
  /\ pc = "send" /\ TimeAllows
  /\ pc' = "reply"
  /\ TakeTarget
  /\ IF link = "up"
     THEN owed' = Append(owed, issued + 1) /\ onConn' = onConn + 1
     ELSE UNCHANGED <<owed, onConn>>
  /\ UNCHANGED <<total, connReq, generation, stats, expired, link, wire,
                 closing, served, sniDials, made, kind, inbox, buffer, tallies>>

(* ... or refused. *)
WriteFails ==
  /\ pc = "send" /\ link = "down" /\ TimeAllows
  /\ TakeTarget
  /\ FailAttempt
  /\ pc' = "loop"
  /\ Disconnect
  /\ UNCHANGED <<connReq, generation, expired, onConn, closing, served,
                 sniDials, made, kind, buffer, tallies>>
-----------------------------------------------------------------------------
AfterCountMut(n) == IF n > Rpc THEN "loop" ELSE "send"
(* Where the task goes once its n-th response on the connection counts. *)
AfterCount(n) ==
  IF ShouldStop(total + 1) THEN "done" ELSE IF IsLast(n) THEN "loop" ELSE "send"

(* The response at the front of the buffer is counted for the request the  *)
(* task waits on.                                                          *)
Count(b, code) ==
  /\ stats' = SetHttpStatus(stats, code)
  /\ misread' = (misread \/ b[1].to # issued)
  /\ buffer' = Drain(b)
  /\ total' = total + 1 /\ connReq' = connReq + 1
  /\ pc' = AfterCount(connReq + 1)
  /\ link' = IF pc' = "send" THEN link ELSE "none"

(* read: the first n pieces that are there, then an attempt to decode. *)
Read(n, code) ==
  LET b == buffer \o SubSeq(inbox, 1, n)
  IN  /\ pc = "reply" /\ n \in 1 .. Len(inbox)
      /\ inbox' = SubSeq(inbox, n + 1, Len(inbox))
      /\ IF Decodes(b)
         THEN Count(b, code)
         ELSE buffer' = b
              /\ UNCHANGED <<stats, misread, total, connReq, pc, link>>
      /\ UNCHANGED <<target, generation, expired, wire, onConn, closing, served,
                     histVars, kind, owed, eofs, extras>>

(* Ok(0): an attempt is used and nothing is recorded. *)
ReadEof ==
  /\ pc = "reply" /\ link = "down" /\ inbox = <<>>
  /\ pc' = "loop"
  /\ total' = total + 1 /\ eofs' = eofs + 1
  /\ Disconnect
  /\ UNCHANGED <<connReq, target, generation, stats, expired, onConn, closing,
                 served, histVars, kind, buffer, extras, misread>>

ReadError ==
  /\ pc = "reply" /\ link = "down"
  /\ pc' = "loop"
  /\ FailAttempt
  /\ Disconnect
  /\ UNCHANGED <<connReq, target, generation, expired, onConn, closing, served,
                 histVars, kind, buffer, tallies>>
-----------------------------------------------------------------------------
(* The peer: it answers in order, may break off, may send a response whose *)
(* headers are too many, one that was not asked for, or go away.           *)
Sends(pieces) ==
  /\ link = "up" /\ inbox' = inbox \o pieces
  /\ UNCHANGED <<taskVars, expired, wire, onConn, closing, histVars, kind,
                 buffer, eofs, misread>>

AnswersWith(pieces, count) ==
  /\ owed # <<>> /\ Sends(pieces)
  /\ owed' = Tail(owed)
  /\ served' = served + count
  /\ UNCHANGED extras

PeerAnswersRaw == AnswersWith(Whole(Head(owed)), 1) /\ UNCHANGED link
PeerAnswersFat == AnswersWith(Fat(Head(owed)), 1) /\ UNCHANGED link
PeerBreaksOff  == AnswersWith(Start(Head(owed)), 0) /\ link' = "down"

PeerVolunteers ==
  /\ extras < MaxExtras
  /\ Sends(Whole(0))
  /\ extras' = extras + 1
  /\ UNCHANGED <<link, owed, served>>

LinkLostRaw == LinkLost /\ UNCHANGED rawVars

RawTask ==
  \/ (Stop /\ UNCHANGED rawVars) \/ BeginConnect \/ Connected \/ NotConnected
  \/ WriteOk \/ WriteFails
  \/ \E n \in 1 .. Len(inbox), code \in Status : Read(n, code)
  \/ ReadEof \/ ReadError

RawPeer == PeerAnswersRaw \/ PeerAnswersFat \/ PeerBreaksOff \/ PeerVolunteers

(* A peer that holds a request answers it or goes away, and one that has   *)
(* nothing to answer closes an idle connection in the end: without the     *)
(* second assumption a response that cannot be decoded keeps the task for  *)
(* ever.                                                                   *)
RawPeerReacts ==
  IF owed # <<>>
  THEN PeerAnswersRaw \/ PeerAnswersFat \/ PeerBreaksOff \/ LinkLostRaw
  ELSE pc = "reply" /\ LinkLostRaw
=============================================================================
