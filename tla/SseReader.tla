----------------------------- MODULE SseReader -----------------------------
(***************************************************************************)
(* read_sse_event (src/client/hyper_mcp.rs), called again and again on one *)
(* stream: frames cut anywhere are appended to a buffer, complete lines    *)
(* are taken off it, and a blank line ends an event that has data.         *)
(*                                                                         *)
(* A text is a sequence of symbols: "d" and "a" are the two halves of      *)
(* `data:`, "sp" a space, "cr" and "n" the line ends, "c1" and "c2" the    *)
(* bytes of one character of two bytes, anything else is text.             *)
(***************************************************************************)
EXTENDS Ordering, SequencesExt

CONSTANT Streams   \* the texts the server may send

VARIABLES
  whole,    \* the text the server sends
  text,     \* the part of it that has not arrived
  buffer,   \* buffer
  data,     \* event_data
  events    \* the events returned

sseVars == <<whole, text, buffer, data, events>>

SseInit ==
  /\ whole \in Streams /\ text = whole
  /\ buffer = <<>> /\ data = <<>> /\ events = <<>>

(* from_utf8, or from_utf8_lossy if the frame is not valid by itself: half *)
(* a character becomes the replacement character.                          *)
Torn(f, i) ==
  \/ f[i] = "c1" /\ (i = Len(f) \/ f[i + 1] # "c2")
  \/ f[i] = "c2" /\ (i = 1 \/ f[i - 1] # "c1")

Decoded(f) == [i \in 1 .. Len(f) |-> IF Torn(f, i) THEN "?" ELSE f[i]]

Space == {"sp", "cr"}

(* trim_end *)
Trimmed(l) ==
  LET kept == {i \in 1 .. Len(l) : l[i] \notin Space}
  IN  SubSeq(l, 1, IF kept = {} THEN 0 ELSE CHOOSE i \in kept : \A j \in kept : j <= i)

IsData(l) == Len(l) >= 2 /\ l[1] = "d" /\ l[2] = "a"

(* What follows `data:`, without one leading space. *)
Payload(l) == SubSeq(l, IF Len(l) >= 3 /\ l[3] = "sp" THEN 4 ELSE 3, Len(l))

LineEnds == {i \in 1 .. Len(buffer) : buffer[i] = "n"}

(* The next frame is awaited only when no line is complete. *)
TakeFrame(n) ==
  /\ LineEnds = {}
  /\ n \in 1 .. Len(text)
  /\ buffer' = buffer \o Decoded(SubSeq(text, 1, n))
  /\ text' = SubSeq(text, n + 1, Len(text))
  /\ UNCHANGED <<whole, data, events>>

AddLineMut(l) == IF IsData(l) THEN Payload(l) \o <<"n">> ELSE data
(* A line that is not blank: data is added, other fields are ignored. *)
AddLine(l) == IF IsData(l) THEN data \o Payload(l) \o <<"n">> ELSE data

TakeLine ==
  /\ LineEnds # {}
  /\ LET i == CHOOSE i \in LineEnds : \A j \in LineEnds : i <= j
         line == Trimmed(SubSeq(buffer, 1, i - 1))
     IN  /\ buffer' = SubSeq(buffer, i + 1, Len(buffer))
         /\ IF line # <<>>
            THEN data' = AddLine(line) /\ events' = events
            ELSE IF data = <<>>
            THEN UNCHANGED <<data, events>>
            ELSE events' = Append(events, data) /\ data' = <<>>
  /\ UNCHANGED <<whole, text>>

(* The stream ended: the reader reports that, whatever is left over. *)
AtEnd == text = <<>> /\ LineEnds = {}
StreamEnded == AtEnd /\ UNCHANGED sseVars

SseNext == (\E n \in 1 .. Len(text) : TakeFrame(n)) \/ TakeLine \/ StreamEnded

SseSpec == SseInit /\ [][SseNext]_sseVars
-----------------------------------------------------------------------------
(* The events of a text, read at once: a blank line ends an event made of  *)
(* the data lines since the blank line before it, if there are any.        *)
LinesOf(t) ==
  LET p == Pieces(t, "n") IN [j \in 1 .. Len(p) - 1 |-> Trimmed(p[j])]

Blank(lines, j) == lines[j] = <<>>

DataBefore(lines, k) ==
  {j \in 1 .. k - 1 : IsData(lines[j]) /\ \A b \in j .. k - 1 : ~Blank(lines, b)}

EventEnds(lines) ==
  {k \in 1 .. Len(lines) : Blank(lines, k) /\ DataBefore(lines, k) # {}}

Joined(lines, S) ==
  LET js == Ascending(S)
  IN  FlattenSeq([n \in 1 .. Len(js) |-> Payload(lines[js[n]]) \o <<"n">>])

EventsAt(lines, S) ==
  LET ends == Ascending(S)
  IN  [n \in 1 .. Len(ends) |-> Joined(lines, DataBefore(lines, ends[n]))]

EventsOf(t) == EventsAt(LinesOf(t), EventEnds(LinesOf(t)))

(* However the stream is cut into frames, the events are those of its      *)
(* text, in order, none lost, merged or torn.                              *)
EventsWhole ==
  /\ IsPrefix(events, EventsOf(whole))
  /\ AtEnd => events = EventsOf(whole)
=============================================================================
