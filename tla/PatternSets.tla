------------------------------ MODULE PatternSets ----------------------------
(* Patterns of three parts.                                                *)


Literal(t) == [range |-> FALSE, text |-> t]
Numbers(lo, hi, width) == [range |-> TRUE, lo |-> lo, hi |-> hi, width |-> width]

Parts ==
  {Literal(<<>>), Literal(<<"x">>), Literal(<<"[", "x", "]">>), Literal(<<"]">>),
   Literal(<<"[", "1", "-", "]">>),
   Numbers(1, 2, 0), Numbers(9, 11, 0), Numbers(8, 10, 2), Numbers(0, 0, 0),
   Numbers(2, 1, 0)}

ThreeParts == {<<a, b, c>> : a \in Parts, b \in Parts, c \in Parts}
=============================================================================
