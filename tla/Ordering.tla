------------------------------ MODULE Ordering ------------------------------
(***************************************************************************)
(* A finite set in order, and a string in pieces: what the references of   *)
(* several modules are made of.                                            *)
(***************************************************************************)
EXTENDS Naturals, FiniteSets, Sequences

(* How many members of S the relation R puts before x; S in the order of R.*)
Place(S, R, x) == Cardinality({y \in S : <<y, x>> \in R})
Sorted(S, R) ==
  [n \in 1 .. Cardinality(S) |-> CHOOSE x \in S : Place(S, R, x) = n - 1]

(* How many members of S are less than x; and S in ascending order.        *)
Below(S, x) == Cardinality({y \in S : y < x})
Ascending(S) ==
  [n \in 1 .. Cardinality(S) |-> CHOOSE x \in S : Below(S, x) = n - 1]

(* Where a string is cut at a separator, its two ends among them; and the  *)
(* pieces between the cuts, one more than there are separators.            *)
Cuts(s, sep) == {0, Len(s) + 1} \cup {i \in 1 .. Len(s) : s[i] = sep}

Pieces(s, sep) ==
  LET cut == Ascending(Cuts(s, sep))
  IN  [k \in 1 .. Len(cut) - 1 |-> SubSeq(s, cut[k] + 1, cut[k + 1] - 1)]
=============================================================================
