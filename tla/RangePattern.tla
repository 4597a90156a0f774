---------------------------- MODULE RangePattern ----------------------------
(***************************************************************************)
(* expand_range_pattern (src/options.rs): the numeric ranges of a --host   *)
(* or --sni pattern are expanded from left to right, in place, in all the  *)
(* strings made so far.  A string is a sequence of characters.             *)
(*                                                                         *)
(* A definition named ...Mut is a bug one could write in the next one.     *)
(***************************************************************************)
EXTENDS Naturals, Sequences, SequencesExt

CONSTANT Patterns   \* patterns, each given as the sequence of its parts

VARIABLES
  parts,     \* the pattern
  results,   \* results
  from,      \* search_from: characters of results[1] that are done with
  end        \* "", or "ok" or "error"

rangeVars == <<parts, results, from, end>>

Digit == <<"0", "1", "2", "3", "4", "5", "6", "7", "8", "9">>

(* The decimal digits of n, with zeros in front up to a width. *)
Decimal[n \in Nat] ==
  IF n < 10 THEN <<Digit[n + 1]>> ELSE Append(Decimal[n \div 10], Digit[(n % 10) + 1])

Padded(n, width) ==
  LET d == Decimal[n]
  IN  [i \in 1 .. (IF width > Len(d) THEN width - Len(d) ELSE 0) |-> "0"] \o d

IsNumber(s) == s # <<>> /\ \A i \in 1 .. Len(s) : \E d \in 1 .. 10 : s[i] = Digit[d]

Numeral(c) == (CHOOSE d \in 1 .. 10 : Digit[d] = c) - 1

Value(s) ==
  LET v[i \in 0 .. Len(s)] == IF i = 0 THEN 0 ELSE 10 * v[i - 1] + Numeral(s[i])
  IN  v[Len(s)]

(* The first place of a character after the i-th, or 0. *)
Find(s, c, i) ==
  LET at == {j \in i + 1 .. Len(s) : s[j] = c}
  IN  IF at = {} THEN 0 ELSE CHOOSE j \in at : \A k \in at : j <= k

Slice(s, i, j) == SubSeq(s, i + 1, j - 1)

Text(p) ==
  IF p.range THEN <<"[">> \o Padded(p.lo, p.width) \o <<"-">> \o Decimal[p.hi] \o <<"]">>
             ELSE p.text

RangeInit ==
  /\ parts \in Patterns
  /\ results = <<FlattenSeq([i \in 1 .. Len(parts) |-> Text(parts[i])])>>
  /\ from = 0 /\ end = ""

(* The next bracketed expression of the first result. *)
Open  == Find(results[1], "[", from)
Close == IF Open = 0 THEN 0 ELSE Find(results[1], "]", Open)
Inner == Slice(results[1], Open, Close)

(* Two numbers with a dash between them, the first in the text. *)
Dash(s)    == Find(s, "-", 0)
LowOf(s)   == SubSeq(s, 1, Dash(s) - 1)
HighOf(s)  == SubSeq(s, Dash(s) + 1, Len(s))
IsRange(s) == Dash(s) > 0 /\ IsNumber(LowOf(s)) /\ IsNumber(HighOf(s))

Numeric == IsRange(Inner)
Low     == LowOf(Inner)
High    == HighOf(Inner)

Width == IF Len(Low) > 1 /\ Low[1] = "0" THEN Len(Low) ELSE 0

Searching == end = "" /\ Close > 0

NoBracket ==
  /\ end = "" /\ Close = 0
  /\ end' = "ok"
  /\ UNCHANGED <<parts, results, from>>

SkipBracket ==
  /\ Searching /\ ~Numeric
  /\ from' = Close
  /\ UNCHANGED <<parts, results, end>>

Inverted ==
  /\ Searching /\ Numeric /\ Value(Low) > Value(High)
  /\ end' = "error"
  /\ UNCHANGED <<parts, results, from>>

ShiftMut(s) == 0
(* The strings end alike but have numbers of different lengths before. *)
Shift(s) == Len(s) - Len(results[1])

(* A string with every value in place of its next range. *)
Expanded(s) ==
  [v \in 1 .. Value(High) - Value(Low) + 1 |->
     SubSeq(s, 1, Open + Shift(s) - 1)
       \o Padded(Value(Low) + v - 1, Width)
       \o SubSeq(s, Close + Shift(s) + 1, Len(s))]

(* The search goes on from the number just put in. *)
ExpandRange ==
  /\ Searching /\ Numeric /\ Value(Low) <= Value(High)
  /\ results' = FlattenSeq([i \in 1 .. Len(results) |-> Expanded(results[i])])
  /\ from' = Open - 1
  /\ UNCHANGED <<parts, end>>

RangeNext ==
  \/ NoBracket \/ SkipBracket \/ Inverted \/ ExpandRange
  \/ end # "" /\ UNCHANGED rangeVars

RangeSpec == RangeInit /\ [][RangeNext]_rangeVars
-----------------------------------------------------------------------------
(* Reference: the product of the parts, the first part varying slowest.    *)
Names(p) ==
  IF p.range THEN [v \in 1 .. p.hi - p.lo + 1 |-> Padded(p.lo + v - 1, p.width)]
             ELSE <<p.text>>

Times(names, more) ==
  FlattenSeq([i \in 1 .. Len(names) |-> [j \in 1 .. Len(more) |-> names[i] \o more[j]]])

Product(ps) ==
  LET upto[k \in 0 .. Len(ps)] ==
        IF k = 0 THEN <<<<>>>> ELSE Times(upto[k - 1], Names(ps[k]))
  IN  upto[Len(ps)]

(* A pattern becomes the names it stands for, each once and in the order   *)
(* of its numbers, however the numbers before a range differ in length and *)
(* whatever other brackets there are; a range that is inverted, wherever   *)
(* it stands, makes it an error instead.                                   *)
RangesExpand ==
  /\ end = "ok" => results = Product(parts)
  /\ end # "" =>
       (end = "error" <=> \E i \in 1 .. Len(parts) : parts[i].range /\ parts[i].lo > parts[i].hi)
=============================================================================
