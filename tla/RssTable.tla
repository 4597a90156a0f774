------------------------------ MODULE RssTable ------------------------------
(***************************************************************************)
(* Which server queue a source port leads to (src/rss.rs): rss_queue       *)
(* hashes the whole 4-tuple, build_balanced_ports gets every port's hash   *)
(* from that of port 0 and two tables, one for each byte of the port.  The *)
(* widths are parameters: a byte has 8 bits, a word 32, a synthetic table  *)
(* 128 entries, and an IPv4 address 4 bytes.                               *)
(*                                                                         *)
(* A definition named ...Mut is a bug one could write in the next one.     *)
(***************************************************************************)
EXTENDS Naturals, FiniteSets, Sequences, SequencesExt, Bitwise

CONSTANTS
  Bits,        \* of a byte
  WordBytes,   \* bytes of a hash
  Synthetic,   \* SYNTHETIC_INDIR_LEN
  AddrBytes,   \* of an address
  Inputs       \* [key, items, src, dst, dport] that are tried

VARIABLES
  input,     \* key and addresses are sequences of bytes, items of queues
  table,     \* fixed_hash, hi_table, lo_table, or none yet
  port,      \* the next candidate
  queues     \* the queue of each port before it

rssVars == <<input, table, port, queues>>

Byte == 0 .. 2 ^ Bits - 1
PortNumbers == 0 .. 2 ^ (2 * Bits) - 1
Hi(p) == p \div 2 ^ Bits
Lo(p) == p % 2 ^ Bits

IsPowerOfTwo(n) == \E k \in 0 .. n : n = 2 ^ k

(* parse_indir_inline: a count of queues, or a list of them that is used   *)
(* as it is or, if its length is not a power of two, over and over.        *)
Indir(items) ==
  IF Len(items) = 1 THEN [i \in 1 .. Synthetic |-> (i - 1) % items[1]]
  ELSE IF IsPowerOfTwo(Len(items)) THEN items
  ELSE [i \in 1 .. Synthetic |-> items[((i - 1) % Len(items)) + 1]]

(* toeplitz_word: one byte more than a word is read, and shifted.          *)
ToeplitzWord(key, offset) ==
  LET at    == offset % (Len(key) * Bits)
      bytes == [i \in 1 .. WordBytes + 1 |-> key[((at \div Bits + i - 1) % Len(key)) + 1]]
      val   == FoldLeft(LAMBDA v, b : v * 2 ^ Bits + b, 0, bytes)
  IN  (val \div 2 ^ (Bits - (at % Bits))) % 2 ^ (WordBytes * Bits)

(* Bit b of a byte, from the most significant one. *)
IsSet(byte, b) == (byte \div 2 ^ (Bits - 1 - b)) % 2 = 1

(* The words of the set bits of a byte that begins at a bit offset. *)
ByteHash(key, byte, offset) ==
  FoldLeft(LAMBDA h, b : IF IsSet(byte, b - 1) THEN h ^^ ToeplitzWord(key, offset + b - 1) ELSE h,
           0, [b \in 1 .. Bits |-> b])

ToeplitzHash(key, bytes) ==
  FoldLeft(LAMBDA h, i : h ^^ ByteHash(key, bytes[i], (i - 1) * Bits),
           0, [i \in 1 .. Len(bytes) |-> i])

(* write_rss_input *)
RssInput(p) == input.src \o input.dst \o <<Hi(p), Lo(p)>> \o input.dport

SportOffsetMut == AddrBytes * Bits
(* sport_bit_offset: 64, behind two addresses. *)
SportOffset == 2 * AddrBytes * Bits

RssInit == input \in Inputs /\ table = <<>> /\ port = 0 /\ queues = <<>>

BuildTables ==
  /\ table = <<>>
  /\ table' = [fixed |-> ToeplitzHash(input.key, RssInput(0)),
               hi |-> [b \in Byte |-> ByteHash(input.key, b, SportOffset)],
               lo |-> [b \in Byte |-> ByteHash(input.key, b, SportOffset + Bits)]]
  /\ UNCHANGED <<input, port, queues>>

(* The queue of the next candidate, by the tables. *)
Classify ==
  /\ table # <<>> /\ port \in PortNumbers
  /\ LET hash  == (table.fixed ^^ table.hi[Hi(port)]) ^^ table.lo[Lo(port)]
         indir == Indir(input.items)
     IN  queues' = Append(queues, indir[(hash % Len(indir)) + 1])
  /\ port' = port + 1
  /\ UNCHANGED <<input, table>>

RssNext == BuildTables \/ Classify \/ (port \notin PortNumbers /\ UNCHANGED rssVars)
-----------------------------------------------------------------------------
(* Reference: a hash is the set of the places of its ones.  Bit j of it is *)
(* the parity of the set bits n of the 4-tuple for which bit n + j of the  *)
(* key, repeated as often as it takes, is one.                             *)
KeyBit(n) ==
  LET at == n % (Len(input.key) * Bits) IN IsSet(input.key[at \div Bits + 1], at % Bits)

HashBit(j, bytes) ==
  Cardinality({n \in 0 .. Len(bytes) * Bits - 1 :
                 IsSet(bytes[n \div Bits + 1], n % Bits) /\ KeyBit(n + j)}) % 2

Hash(bytes) ==
  FoldLeft(LAMBDA h, j : 2 * h + HashBit(j - 1, bytes),
           0, [j \in 1 .. WordBytes * Bits |-> j])

(* The queue the NIC's own table leads to: a synthetic one is as long as   *)
(* the hardware's.                                                         *)
QueueOfHash(h) ==
  LET items == input.items
      whole == Len(items) > 1 /\ IsPowerOfTwo(Len(items))
      slot  == h % (IF whole THEN Len(items) ELSE Synthetic)
  IN  IF Len(items) = 1 THEN slot % items[1] ELSE items[(slot % Len(items)) + 1]

(* The tables give every port the queue that the hash of its 4-tuple leads *)
(* to: ports balanced by them are balanced on the server.                  *)
TablesAgree ==
  queues # <<>> => queues[port] = QueueOfHash(Hash(RssInput(port - 1)))
=============================================================================
