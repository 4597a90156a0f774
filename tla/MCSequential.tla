---------------------------- MODULE MCSequential ----------------------------
(* The inputs of the parts, those of the RSS table among them.             *)
EXTENDS Sequential, OptionSets, PatternSets, PlanSets, StreamSets

Keys == {<<2>>, <<1, 3>>, <<3, 0>>, <<2, 1>>} \cup {<<a, b, 2, 1>> : a, b \in 0 .. 3}

FourTuples ==
  [key : Keys, items : {<<2>>, <<3>>, <<1, 0>>, <<0, 1, 2>>},
   src : {<<1>>, <<2>>}, dst : {<<0>>, <<3>>}, dport : {<<1, 2>>}]

(* The part "offers" has one list, the one with RSS.  Of a range, shorter  *)
(* than the limit on candidates, all candidates are different ports.       *)
InRange == INSTANCE SourcePorts WITH Total <- 2, Entries <- 5, Stride <- 0

ASSUME RangeIsOffered ==
  \A g \in InRange!Tasks, e \in 0 .. 5 :
    {InRange!Candidate(g, e, j) : j \in 0 .. InRange!Tries - 1} = InRange!Indices
=============================================================================
