---------------------------- MODULE EngineProofs ----------------------------
(***************************************************************************)
(* The engine, for every number of instances and connections.  First its   *)
(* numbers: the split gives every task an index of its own, and sums over  *)
(* tasks and instances do not depend on an order.  Then two inductive      *)
(* invariants: IInv for the indices of the threads spawned so far, SumInv  *)
(* for what is recorded, shown and reported.                               *)
(*                                                                         *)
(* That no two tasks share an index is a fact about the split.  That none  *)
(* is left out is an induction over the instances, which the run itself    *)
(* performs: IInv says it of the instances spawned so far.                 *)
(***************************************************************************)
EXTENDS Engine, Lemmas

(* The split in terms of two numbers: per instance, and the remainder.     *)
LEMMA SplitNumbers ==
  /\ PerInstance \in Nat /\ Remainder \in Nat
  /\ Remainder < Instances
  /\ Connections = Instances * PerInstance + Remainder
BY SplitAssumption DEF PerInstance, Remainder

(* A product grows with its first factor.                                  *)
LEMMA Product ==
  ASSUME NEW p \in Nat, NEW i \in Nat, NEW j \in Nat, i < j
  PROVE  /\ i * p \in Nat /\ j * p \in Nat
         /\ i * p + p <= j * p
<1>1. PICK d \in Nat : j = i + 1 + d
  <2>1. j - i - 1 \in Nat /\ j = i + 1 + (j - i - 1)
    OBVIOUS
  <2> QED BY <2>1
<1>2. (i + 1 + d) * p = i * p + p + d * p
  OBVIOUS
<1>3. d * p \in Nat /\ i * p \in Nat
  OBVIOUS
<1> QED BY <1>1, <1>2, <1>3

(* The instances take consecutive blocks of indices ...                    *)
LEMMA BlocksFollow ==
  ASSUME NEW i \in Ids, NEW j \in Ids, i < j
  PROVE  /\ Base(i) \in Nat /\ Count(i) \in Nat /\ Base(j) \in Nat
         /\ Base(i) + Count(i) <= Base(j)
<1>1. i \in Nat /\ j \in Nat
  BY SplitAssumption DEF Ids
<1>2. /\ i * PerInstance \in Nat /\ j * PerInstance \in Nat
      /\ i * PerInstance + PerInstance <= j * PerInstance
  BY <1>1, SplitNumbers, Product
<1>3. CASE i < Remainder
  BY <1>1, <1>2, <1>3, SplitNumbers DEF Base, Count
<1>4. CASE ~(i < Remainder)
  BY <1>1, <1>2, <1>4, SplitNumbers DEF Base, Count
<1> QED BY <1>3, <1>4

(* ... and the last block ends with the last connection.                   *)
LEMMA BlocksEnd ==
  ASSUME NEW i \in Ids
  PROVE  /\ Base(i) \in Nat /\ Count(i) \in Nat
         /\ Base(i) + Count(i) <= Connections
<1>1. i \in Nat /\ i < Instances
  BY SplitAssumption DEF Ids
<1>2. /\ i * PerInstance \in Nat /\ Instances * PerInstance \in Nat
      /\ i * PerInstance + PerInstance <= Instances * PerInstance
  BY <1>1, SplitNumbers, SplitAssumption, Product
<1>3. CASE i < Remainder
  BY <1>1, <1>2, <1>3, SplitNumbers DEF Base, Count
<1>4. CASE ~(i < Remainder)
  BY <1>1, <1>2, <1>4, SplitNumbers DEF Base, Count
<1> QED BY <1>3, <1>4

(* Every task's global index (conn_base + cid) is below the number of      *)
(* connections asked for.                                                  *)
THEOREM IndexInRange ==
  ASSUME NEW t \in TaskIds
  PROVE  GlobalIndex(t) \in 0 .. Connections - 1
<1>1. t[1] \in Ids /\ t[2] \in Nat /\ t[2] < Count(t[1])
  BY SplitAssumption DEF TaskIds
<1>2. /\ Base(t[1]) \in Nat /\ Count(t[1]) \in Nat
      /\ Base(t[1]) + Count(t[1]) <= Connections
  BY <1>1, BlocksEnd
<1> QED BY <1>1, <1>2, SplitAssumption DEF GlobalIndex

(* No two tasks, of the same instance or of two, share a global index.     *)
THEOREM IndexUnique ==
  ASSUME NEW t \in TaskIds, NEW u \in TaskIds, GlobalIndex(t) = GlobalIndex(u)
  PROVE  t = u
<1>1. /\ t[1] \in Ids /\ t[2] \in Nat /\ t[2] < Count(t[1])
      /\ u[1] \in Ids /\ u[2] \in Nat /\ u[2] < Count(u[1])
      /\ t = <<t[1], t[2]>> /\ u = <<u[1], u[2]>>
  BY SplitAssumption DEF TaskIds
<1>2. /\ Base(t[1]) \in Nat /\ Count(t[1]) \in Nat
      /\ Base(u[1]) \in Nat /\ Count(u[1]) \in Nat
  BY <1>1, BlocksEnd
<1>3. t[1] \in Nat /\ u[1] \in Nat
  BY <1>1, SplitAssumption DEF Ids
<1>4. Base(t[1]) + t[2] = Base(u[1]) + u[2]
  BY DEF GlobalIndex
<1>5. CASE t[1] < u[1]
  <2>1. Base(t[1]) + Count(t[1]) <= Base(u[1])
    BY <1>1, <1>5, BlocksFollow
  <2> QED BY <1>1, <1>2, <1>4, <2>1
<1>6. CASE u[1] < t[1]
  <2>1. Base(u[1]) + Count(u[1]) <= Base(t[1])
    BY <1>1, <1>6, BlocksFollow
  <2> QED BY <1>1, <1>2, <1>4, <2>1
<1>7. CASE t[1] = u[1]
  BY <1>1, <1>2, <1>4, <1>7
<1> QED BY <1>3, <1>5, <1>6, <1>7
-----------------------------------------------------------------------------
(* The first n instances are spawned, and their tasks have the indices     *)
(* below conn_base of the next.                                            *)
Spawned(n) == \A id \in Ids : thread[id] # "new" <=> id < n

Covered(n) ==
  \A x \in 0 .. Base(n) - 1 : \E t \in TaskIds : t[1] < n /\ GlobalIndex(t) = x

Phases == {"spawning", "joining", "reported", "killed"}

IInv ==
  /\ phase \in Phases
  /\ thread \in [Ids -> {"new", "started", "joining", "returned"}]
  /\ \E n \in 0 .. Instances :
       /\ Spawned(n) /\ Covered(n)
       /\ phase = "spawning" => next = n
       /\ phase = "joining" => n = Instances
-----------------------------------------------------------------------------
(* A block ends where the next one begins; the last one ends with the last *)
(* connection.                                                             *)
LEMMA NextBase ==
  /\ Base(0) = 0 /\ Base(Instances) = Connections
  /\ \A n \in Ids : Base(n) \in Nat /\ Count(n) \in Nat /\ Base(n + 1) = Base(n) + Count(n)
<1>1. Base(0) = 0
  BY SplitNumbers, SplitAssumption DEF Base
<1>2. Base(Instances) = Connections
  BY SplitNumbers, SplitAssumption DEF Base
<1>3. ASSUME NEW n \in Ids
      PROVE  Base(n) \in Nat /\ Count(n) \in Nat /\ Base(n + 1) = Base(n) + Count(n)
  <2>1. n \in Nat
    BY SplitAssumption DEF Ids
  <2>2. (n + 1) * PerInstance = n * PerInstance + PerInstance
    BY <2>1, SplitNumbers
  <2>3. n * PerInstance \in Nat
    BY <2>1, SplitNumbers
  <2>4. CASE n < Remainder
    BY <2>1, <2>2, <2>3, <2>4, SplitNumbers DEF Base, Count
  <2>5. CASE ~(n < Remainder)
    BY <2>1, <2>2, <2>3, <2>5, SplitNumbers DEF Base, Count
  <2> QED BY <2>4, <2>5
<1> QED BY <1>1, <1>2, <1>3

(* The tasks of the instances below n have indices below Base(n).          *)
LEMMA IndexBelow ==
  ASSUME NEW n \in 0 .. Instances, NEW t \in TaskIds, t[1] < n
  PROVE  GlobalIndex(t) \in 0 .. Base(n) - 1 /\ Base(n) \in Nat
<1>1. t[1] \in Ids /\ t[2] \in Nat /\ t[2] < Count(t[1])
  BY SplitAssumption DEF TaskIds
<1>2. Base(t[1]) \in Nat /\ Count(t[1]) \in Nat /\ Base(t[1]) + Count(t[1]) <= Connections
  BY <1>1, BlocksEnd
<1>3. CASE n = Instances
  BY <1>1, <1>2, <1>3, NextBase, SplitAssumption DEF GlobalIndex
<1>4. CASE n # Instances
  <2>1. n \in Ids
    BY <1>4, SplitAssumption DEF Ids
  <2>2. Base(n) \in Nat /\ Base(t[1]) + Count(t[1]) <= Base(n)
    BY <1>1, <2>1, BlocksFollow
  <2> QED BY <1>1, <1>2, <2>2 DEF GlobalIndex
<1> QED BY <1>3, <1>4

(* One more instance covers one more block.                                *)
LEMMA CoverNext ==
  ASSUME NEW n \in Ids, Covered(n)
  PROVE  Covered(n + 1)
<1>1. n \in Nat /\ n < Instances
  BY SplitAssumption DEF Ids
<1>2. /\ Base(n) \in Nat /\ Count(n) \in Nat /\ Base(n + 1) = Base(n) + Count(n)
      /\ Base(n) + Count(n) <= Connections
  BY NextBase, BlocksEnd
<1>3. SUFFICES ASSUME NEW x \in 0 .. Base(n + 1) - 1
               PROVE  \E t \in TaskIds : t[1] < n + 1 /\ GlobalIndex(t) = x
  BY DEF Covered
<1>4. CASE x < Base(n)
  <2>1. PICK t \in TaskIds : t[1] < n /\ GlobalIndex(t) = x
    BY <1>2, <1>4 DEF Covered
  <2>2. t[1] \in Nat
    BY SplitAssumption DEF TaskIds, Ids
  <2> QED BY <1>1, <2>1, <2>2
<1>5. CASE x >= Base(n)
  <2> DEFINE c == x - Base(n)
  <2>1. c \in Nat /\ c < Count(n) /\ c \in 0 .. Connections
    BY <1>2, <1>5, SplitAssumption
  <2>2. <<n, c>> \in TaskIds
    BY <2>1 DEF TaskIds
  <2>3. GlobalIndex(<<n, c>>) = x
    BY <1>2, <2>1 DEF GlobalIndex
  <2> QED BY <1>1, <2>2, <2>3
<1> QED BY <1>2, <1>4, <1>5
-----------------------------------------------------------------------------
LEMMA InvInit == Init => IInv
<1> SUFFICES ASSUME Init PROVE IInv
  OBVIOUS
<1>1. phase \in Phases /\ thread \in [Ids -> {"new", "started", "joining", "returned"}]
  BY DEF Init, Phases
<1>2. 0 \in 0 .. Instances
  BY SplitAssumption
<1>3. Spawned(0)
  BY SplitAssumption DEF Init, Spawned, Ids
<1>4. Covered(0)
  BY NextBase DEF Covered
<1>5. (phase = "spawning" => next = 0) /\ (phase = "joining" => 0 = Instances)
  BY DEF Init
<1> QED BY <1>1, <1>2, <1>3, <1>4, <1>5 DEF IInv

(* A step of anything but a thread's start leaves the spawned ones alone.  *)
LEMMA SameThreads ==
  ASSUME IInv, NEW id \in Ids, thread[id] # "new",
         NEW s \in {"started", "joining", "returned"},
         thread' = [thread EXCEPT ![id] = s], UNCHANGED <<phase, next>>
  PROVE  IInv'
<1>1. PICK n \in 0 .. Instances :
         /\ Spawned(n) /\ Covered(n)
         /\ phase = "spawning" => next = n
         /\ phase = "joining" => n = Instances
  BY DEF IInv
<1>2. thread' \in [Ids -> {"new", "started", "joining", "returned"}]
  BY DEF IInv
<1>3. Spawned(n)'
  BY <1>1 DEF Spawned, IInv
<1> QED BY <1>1, <1>2, <1>3 DEF IInv, Covered

LEMMA InvNext == IInv /\ [Next]_vars => IInv'
<1> SUFFICES ASSUME IInv, [Next]_vars PROVE IInv'
  OBVIOUS
<1>1. PICK n \in 0 .. Instances :
         /\ Spawned(n) /\ Covered(n)
         /\ phase = "spawning" => next = n
         /\ phase = "joining" => n = Instances
  BY DEF IInv
<1>2. ASSUME UNCHANGED <<phase, next, thread>> PROVE IInv'
  BY <1>1, <1>2 DEF IInv, Spawned, Covered
<1>3. CASE SpawnThread
  <2>1. next = n /\ n \in Ids /\ n + 1 \in 0 .. Instances
    BY <1>1, <1>3, SplitAssumption DEF SpawnThread, Ids
  <2>2. thread' = [thread EXCEPT ![n] = "started"] /\ next' = n + 1 /\ phase' = "spawning"
    BY <1>3, <2>1 DEF SpawnThread
  <2>3. Spawned(n + 1)'
    <3> SUFFICES ASSUME NEW id \in Ids
                 PROVE  thread'[id] # "new" <=> id < n + 1
      BY DEF Spawned
    <3>1. id \in Nat /\ n \in Nat
      BY SplitAssumption DEF Ids
    <3>2. CASE id = n
      BY <2>2, <3>1, <3>2 DEF IInv
    <3>3. CASE id # n
      <4>1. thread'[id] = thread[id] /\ (thread[id] # "new" <=> id < n)
        BY <1>1, <2>2, <3>3 DEF IInv, Spawned
      <4>2. id < n + 1 <=> id < n
        BY <3>1, <3>3
      <4> QED BY <4>1, <4>2
    <3> QED BY <3>2, <3>3
  <2>4. Covered(n + 1)'
    BY <1>1, <2>1, CoverNext DEF Covered
  <2>5. phase' \in Phases /\ thread' \in [Ids -> {"new", "started", "joining", "returned"}]
    BY <2>2 DEF IInv, Phases
  <2> QED BY <2>1, <2>2, <2>3, <2>4, <2>5 DEF IInv
<1>4. CASE BeginJoin
  BY <1>1, <1>4 DEF BeginJoin, IInv, Spawned, Covered, Phases
<1>5. CASE JoinThread
  BY <1>1, <1>5 DEF JoinThread, IInv, Spawned, Covered, Phases
<1>6. CASE Report
  BY <1>1, <1>6 DEF Report, IInv, Spawned, Covered, Phases
<1>7. CASE Kill
  BY <1>1, <1>7 DEF Kill, IInv, Spawned, Covered, Phases
<1>8. CASE Meter
  BY <1>2, <1>8 DEF Meter, MeterWakes, MeterSwaps, MeterPrints, mainVars
<1>9. CASE Exited
  BY <1>2, <1>9 DEF Exited, vars, mainVars
<1>10. CASE \E id \in Ids : Instance(id)
  <2> PICK id \in Ids : Instance(id)
    BY <1>10
  <2>1. CASE SpawnTasks(id)
    BY <2>1, SameThreads DEF SpawnTasks, mainVars
  <2>2. CASE ReturnStats(id)
    BY <2>2, SameThreads DEF ReturnStats, mainVars
  <2>3. CASE \E t \in TasksOf(id) : JoinTask(t)
    BY <1>2, <2>3 DEF JoinTask, mainVars
  <2> QED BY <2>1, <2>2, <2>3 DEF Instance
<1>11. CASE \E t \in TaskIds : TaskStep(t)
  <2> PICK t \in TaskIds : TaskStep(t)
    BY <1>11
  <2>1. CASE \E o \in Kinds : BumpLive(t, o)
    BY <1>2, <2>1 DEF BumpLive, mainVars
  <2>2. CASE BumpLocal(t)
    BY <1>2, <2>2 DEF BumpLocal, mainVars
  <2>3. CASE EndTask(t) \/ PanicTask(t)
    BY <1>2, <2>3 DEF EndTask, PanicTask, mainVars
  <2> QED BY <2>1, <2>2, <2>3 DEF TaskStep
<1>12. CASE UNCHANGED vars
  BY <1>2, <1>12 DEF vars, mainVars
<1> QED
  BY <1>3, <1>4, <1>5, <1>6, <1>7, <1>8, <1>9, <1>10, <1>11, <1>12 DEF Next, Main

(* The spawned tasks are as many as their indices.                         *)
LEMMA InvExact == IInv => IndicesExact
<1> SUFFICES ASSUME IInv PROVE IndicesExact
  OBVIOUS
<1> DEFINE spawned == {t \in TaskIds : thread[t[1]] # "new"}
           f == [t \in spawned |-> GlobalIndex(t)]
<1>1. PICK n \in 0 .. Instances :
         Spawned(n) /\ Covered(n) /\ (phase = "joining" => n = Instances)
  BY DEF IInv
<1>2. \A t \in TaskIds : t \in spawned <=> t[1] < n
  BY <1>1 DEF Spawned, TaskIds
<1>3. Base(n) \in Nat
  <2>1. CASE n = Instances
    BY <2>1, NextBase, SplitAssumption
  <2>2. CASE n # Instances
    BY <2>2, NextBase, SplitAssumption DEF Ids
  <2> QED BY <2>1, <2>2
<1>4. \A t \in spawned : GlobalIndex(t) \in 0 .. Base(n) - 1
  BY <1>2, IndexBelow
<1>5. \A x \in 0 .. Base(n) - 1 : \E t \in spawned : GlobalIndex(t) = x
  BY <1>1, <1>2 DEF Covered
<1>6. {GlobalIndex(t) : t \in spawned} = 0 .. Base(n) - 1
  BY <1>4, <1>5
<1>7. Cardinality(spawned) = Base(n)
  <2>1. f \in Bijection(spawned, 0 .. Base(n) - 1)
    <3>1. f \in [spawned -> 0 .. Base(n) - 1]
      BY <1>4
    <3>2. \A t, u \in spawned : f[t] = f[u] => t = u
      BY IndexUnique
    <3>3. \A x \in 0 .. Base(n) - 1 : \E t \in spawned : f[t] = x
      BY <1>5
    <3> HIDE DEF f, spawned
    <3> QED BY <3>1, <3>2, <3>3 DEF Bijection, Injection, Surjection, IsInjective
  <2>2. IsFiniteSet(0 .. Base(n) - 1) /\ Cardinality(0 .. Base(n) - 1) = Base(n)
    <3> DEFINE b == Base(n) - 1
    <3>1. b \in Int /\ Base(n) = b + 1 /\ (0 > b <=> b = -1)
      BY <1>3
    <3>2. IsFiniteSet(0 .. b) /\ Cardinality(0 .. b) = IF 0 > b THEN 0 ELSE b - 0 + 1
      <4> HIDE DEF b
      <4> QED BY <3>1, FS_Interval
    <3>3. Cardinality(0 .. b) = b + 1
      <4> HIDE DEF b
      <4> QED BY <3>1, <3>2
    <3> QED BY <3>1, <3>2, <3>3
  <2>3. f \in Injection(spawned, 0 .. Base(n) - 1) /\ f \in Surjection(spawned, 0 .. Base(n) - 1)
    BY <2>1 DEF Bijection
  <2> HIDE DEF f, spawned
  <2> QED BY <2>2, <2>3, FS_Injection
<1>8. phase = "joining" => Base(n) = Connections
  BY <1>1, NextBase
<1> HIDE DEF f
<1> QED BY <1>6, <1>7, <1>8 DEF IndicesExact

(* Whatever the number of connections and instances, the tasks of the      *)
(* threads spawned so far have distinct global indices without a gap, and  *)
(* all of them together are the connections asked for.                     *)
THEOREM IndicesAreExact == Spec => []IndicesExact
<1>1. Init => IInv
  BY InvInit
<1>2. IInv /\ [Next]_vars => IInv'
  BY InvNext
<1>3. IInv => IndicesExact
  BY InvExact
<1> QED BY <1>1, <1>2, <1>3, PTL DEF Spec
-----------------------------------------------------------------------------
States == {"running", "ended", "panicked", "joined", "lost"}
Over   == {"joined", "lost"}

Joined == {t \in TaskIds : task[t] = "joined"}

(* The types; the meter has taken nothing when it sleeps.                  *)
EngineTypes ==
  /\ phase \in Phases /\ next \in 0 .. Instances
  /\ thread \in [Ids -> {"new", "started", "joining", "returned"}]
  /\ task \in [TaskIds -> States]
  /\ pending \in [TaskIds -> SUBSET Outcomes]
  /\ stats \in [TaskIds -> Stats] /\ sum \in [Ids -> Stats]
  /\ rt \in [Ids -> Counters]
  /\ taken \in Counters /\ shown \in Counters
  /\ meter = <<>> \/ meter \in (0 .. Instances) \X (1 .. 3)
  /\ meter = <<>> => taken = Zero

(* A task has one outcome in hand at most, and none when it is over.       *)
InHand ==
  \A t \in TaskIds :
    /\ \A o, u \in pending[t] : o = u
    /\ task[t] # "running" => pending[t] = {}

(* An instance returns when its tasks are over, the main thread reports    *)
(* when the instances have returned.                                       *)
OverFirst ==
  /\ \A t \in TaskIds : thread[t[1]] = "returned" => task[t] \in Over
  /\ phase = "joining" => \A id \in Ids : id < next => thread[id] = "returned"
  /\ phase = "reported" => \A id \in Ids : thread[id] = "returned"

(* What the instances have summed up is what the joined tasks recorded,    *)
(* and the report is that sum.                                             *)
SumsAgree ==
  /\ StatsOver(Ids, sum) = StatsOver(Joined, stats)
  /\ phase = "reported" => report = StatsOver(Ids, sum)

SumInv == EngineTypes /\ InHand /\ OverFirst /\ SumsAgree /\ MeterConserves
-----------------------------------------------------------------------------
(* Adding Statistics, and adding live counters: the order does not matter. *)
StatsOp    == [p \in Stats \X Stats |-> Add(p[1], p[2])]
CountersOp == [p \in Counters \X Counters |-> Plus(p[1], p[2])]

LEMMA AddLaws ==
  /\ NewStats \in Stats /\ \A a, b \in Stats : Add(a, b) \in Stats
  /\ \A a, b \in Stats : StatsOp[<<a, b>>] = Add(a, b)
  /\ Neutral(NewStats, StatsOp, Stats)
  /\ Commutative(StatsOp, Stats)
<1>1. NewStats \in Stats /\ \A a, b \in Stats : Add(a, b) \in Stats
  BY DEF NewStats, Stats, Add
<1>2. \A a, b \in Stats : StatsOp[<<a, b>>] = Add(a, b)
  BY DEF StatsOp
<1>3. StatsOp \in [Stats \X Stats -> Stats]
  BY <1>1 DEF StatsOp
<1>4. \A a, b \in Stats : Add(a, b) = Add(b, a)
  BY DEF Add, Stats
<1>5. \A a, b, c \in Stats : Add(a, Add(b, c)) = Add(Add(a, b), c)
  BY DEF Add, Stats
<1>6. \A a \in Stats : Add(NewStats, a) = a
  BY DEF Add, Stats, NewStats
<1> HIDE DEF StatsOp
<1> QED BY <1>1, <1>2, <1>3, <1>4, <1>5, <1>6 DEF Commutative, Neutral

LEMMA PlusLaws ==
  /\ Zero \in Counters /\ \A a, b \in Counters : Plus(a, b) \in Counters
  /\ \A a, b \in Counters : CountersOp[<<a, b>>] = Plus(a, b)
  /\ Commutative(CountersOp, Counters)
<1>1. Zero \in Counters /\ \A a, b \in Counters : Plus(a, b) \in Counters
  BY DEF Zero, Counters, Plus
<1>2. \A a, b \in Counters : CountersOp[<<a, b>>] = Plus(a, b)
  BY DEF CountersOp
<1>3. CountersOp \in [Counters \X Counters -> Counters]
  BY <1>1 DEF CountersOp
<1>4. \A a, b \in Counters : Plus(a, b) = Plus(b, a)
  BY DEF Plus, Counters
<1>5. \A a, b, c \in Counters : Plus(a, Plus(b, c)) = Plus(Plus(a, b), c)
  BY DEF Plus, Counters
<1> HIDE DEF CountersOp
<1>6. \A a, b, c \in Counters :
        CountersOp[<<a, CountersOp[<<b, c>>]>>] = CountersOp[<<CountersOp[<<a, b>>], c>>]
  <2> TAKE a, b, c \in Counters
  <2>1. /\ CountersOp[<<b, c>>] = Plus(b, c) /\ Plus(b, c) \in Counters
        /\ CountersOp[<<a, b>>] = Plus(a, b) /\ Plus(a, b) \in Counters
    BY <1>1, <1>2, Zenon
  <2>2. /\ CountersOp[<<a, Plus(b, c)>>] = Plus(a, Plus(b, c))
        /\ CountersOp[<<Plus(a, b), c>>] = Plus(Plus(a, b), c)
    BY <1>2, <2>1, Zenon
  <2>3. Plus(a, Plus(b, c)) = Plus(Plus(a, b), c)
    BY <1>5, Zenon
  <2> QED BY <2>1, <2>2, <2>3, Zenon
<1>7. \A a, b \in Counters : CountersOp[<<a, b>>] = CountersOp[<<b, a>>]
  <2> TAKE a, b \in Counters
  <2>1. CountersOp[<<a, b>>] = Plus(a, b) /\ CountersOp[<<b, a>>] = Plus(b, a)
    BY <1>2, Zenon
  <2> QED BY <1>4, <2>1, Zenon
<1> QED BY <1>1, <1>2, <1>3, <1>6, <1>7 DEF Commutative

(* StatsOver and LiveOver are such folds.                                  *)
LEMMA StatsOverIsFold ==
  ASSUME NEW D, IsFiniteSet(D), NEW f, Into(f, D, Stats)
  PROVE  \E g : /\ IsFold(g, StatsOp, NewStats, Stats, f, D)
                /\ \A S \in SUBSET D : StatsOver(S, f) = g[S]
<1> DEFINE Eq(g, S) ==
             g = [s \in SUBSET S |->
                    IF s = {} THEN NewStats
                    ELSE Add(f[CHOOSE x \in s : TRUE], g[s \ {CHOOSE x \in s : TRUE}])]
           iter(S) == CHOOSE g : Eq(g, S)
<1>1. \A S : StatsOver(S, f) = iter(S)[S]
  BY DEF StatsOver, FoldFunctionOnSet, MapThenFoldSet
<1>2. ASSUME NEW S \in SUBSET D PROVE Eq(iter(S), S)
  <2>1. IsFiniteSet(S) /\ Into(f, S, Stats)
    BY FS_Subset DEF Into
  <2>2. PICK g \in [SUBSET S -> Stats] : Follows(g, StatsOp, NewStats, f, S)
    <3>1. Commutative(StatsOp, Stats) /\ NewStats \in Stats
      BY AddLaws
    <3> QED BY <2>1, <3>1, FoldExists
  <2>3. ASSUME NEW s \in SUBSET S, s # {}
        PROVE  g[s] = Add(f[CHOOSE x \in s : TRUE], g[s \ {CHOOSE x \in s : TRUE}])
    <3>1. Pick(s) \in s /\ Pick(s) = CHOOSE x \in s : TRUE
      BY <2>3, PickIn DEF Pick
    <3>2. f[Pick(s)] \in Stats /\ g[s \ {Pick(s)}] \in Stats
      BY <2>1, <3>1 DEF Into
    <3>3. g[s] = StatsOp[<<f[Pick(s)], g[s \ {Pick(s)}]>>]
      BY <2>2, <2>3 DEF Follows, FoldStep
    <3> QED BY <3>1, <3>2, <3>3, AddLaws
  <2>4. g[{}] = NewStats
    BY <2>2 DEF Follows, FoldStep
  <2>5. Eq(g, S)
    BY <2>3, <2>4
  <2> HIDE DEF Eq
  <2> QED BY <2>5
<1>3. ASSUME NEW S \in SUBSET D
      PROVE  IsFold(iter(S), StatsOp, NewStats, Stats, f, S)
  <2> DEFINE g == iter(S)
  <2>1. Eq(g, S)
    BY <1>2
  <2> HIDE DEF g
  <2>2. g[{}] = NewStats
    BY <2>1
  <2>3. ASSUME NEW s \in SUBSET S, s # {}, g[s \ {Pick(s)}] \in Stats
        PROVE  g[s] = FoldStep(g, StatsOp, NewStats, f, s)
    <3>1. g[s] = Add(f[Pick(s)], g[s \ {Pick(s)}])
      BY <2>1, <2>3 DEF Pick
    <3>2. f[Pick(s)] \in Stats
      BY <2>3, PickIn DEF Into
    <3> QED BY <2>3, <3>1, <3>2, AddLaws DEF FoldStep
  <2> QED BY <2>2, <2>3 DEF IsFold, g
<1> HIDE DEF iter
<1>4. ASSUME NEW S \in SUBSET D PROVE iter(S)[S] = iter(D)[S]
  <2>1. Commutative(StatsOp, Stats) /\ NewStats \in Stats
    BY AddLaws
  <2>2. IsFiniteSet(S) /\ S \in SUBSET (S \cap D) /\ Into(f, S, Stats) /\ Same(f, f, S)
    BY FS_Subset DEF Into, Same
  <2>3. /\ IsFold(iter(S), StatsOp, NewStats, Stats, f, S)
        /\ IsFold(iter(D), StatsOp, NewStats, Stats, f, D)
    BY <1>3
  <2> QED BY <2>1, <2>2, <2>3, FoldAgrees
<1> QED BY <1>1, <1>3, <1>4

LEMMA LiveOverIsFold ==
  ASSUME NEW D, IsFiniteSet(D), NEW f, Into(f, D, Counters)
  PROVE  \E g : /\ IsFold(g, CountersOp, Zero, Counters, f, D)
                /\ \A S \in SUBSET D : LiveOver(S, f) = g[S]
<1> DEFINE Eq(g, S) ==
             g = [s \in SUBSET S |->
                    IF s = {} THEN Zero
                    ELSE Plus(f[CHOOSE x \in s : TRUE], g[s \ {CHOOSE x \in s : TRUE}])]
           iter(S) == CHOOSE g : Eq(g, S)
<1>1. \A S : LiveOver(S, f) = iter(S)[S]
  BY DEF LiveOver, FoldFunctionOnSet, MapThenFoldSet
<1>2. ASSUME NEW S \in SUBSET D PROVE Eq(iter(S), S)
  <2>1. IsFiniteSet(S) /\ Into(f, S, Counters)
    BY FS_Subset DEF Into
  <2>2. PICK g \in [SUBSET S -> Counters] : Follows(g, CountersOp, Zero, f, S)
    <3>1. Commutative(CountersOp, Counters) /\ Zero \in Counters
      BY PlusLaws
    <3> QED BY <2>1, <3>1, FoldExists
  <2>3. ASSUME NEW s \in SUBSET S, s # {}
        PROVE  g[s] = Plus(f[CHOOSE x \in s : TRUE], g[s \ {CHOOSE x \in s : TRUE}])
    <3>1. Pick(s) \in s /\ Pick(s) = CHOOSE x \in s : TRUE
      BY <2>3, PickIn DEF Pick
    <3>2. f[Pick(s)] \in Counters /\ g[s \ {Pick(s)}] \in Counters
      BY <2>1, <3>1 DEF Into
    <3>3. g[s] = CountersOp[<<f[Pick(s)], g[s \ {Pick(s)}]>>]
      BY <2>2, <2>3 DEF Follows, FoldStep
    <3> QED BY <3>1, <3>2, <3>3, PlusLaws
  <2>4. g[{}] = Zero
    BY <2>2 DEF Follows, FoldStep
  <2>5. Eq(g, S)
    BY <2>3, <2>4
  <2> HIDE DEF Eq
  <2> QED BY <2>5
<1>3. ASSUME NEW S \in SUBSET D
      PROVE  IsFold(iter(S), CountersOp, Zero, Counters, f, S)
  <2> DEFINE g == iter(S)
  <2>1. Eq(g, S)
    BY <1>2
  <2> HIDE DEF g
  <2>2. g[{}] = Zero
    BY <2>1
  <2>3. ASSUME NEW s \in SUBSET S, s # {}, g[s \ {Pick(s)}] \in Counters
        PROVE  g[s] = FoldStep(g, CountersOp, Zero, f, s)
    <3>1. g[s] = Plus(f[Pick(s)], g[s \ {Pick(s)}])
      BY <2>1, <2>3 DEF Pick
    <3>2. f[Pick(s)] \in Counters
      BY <2>3, PickIn DEF Into
    <3> QED BY <2>3, <3>1, <3>2, PlusLaws DEF FoldStep
  <2> QED BY <2>2, <2>3 DEF IsFold, g
<1> HIDE DEF iter
<1>4. ASSUME NEW S \in SUBSET D PROVE iter(S)[S] = iter(D)[S]
  <2>1. Commutative(CountersOp, Counters) /\ Zero \in Counters
    BY PlusLaws
  <2>2. IsFiniteSet(S) /\ S \in SUBSET (S \cap D) /\ Into(f, S, Counters) /\ Same(f, f, S)
    BY FS_Subset DEF Into, Same
  <2>3. /\ IsFold(iter(S), CountersOp, Zero, Counters, f, S)
        /\ IsFold(iter(D), CountersOp, Zero, Counters, f, D)
    BY <1>3
  <2> QED BY <2>1, <2>2, <2>3, FoldAgrees
<1> QED BY <1>1, <1>3, <1>4

(* What a sum over a finite set is, what it adds up to when an element is  *)
(* taken out, when one term changes, and over two sets without a common    *)
(* element.                                                                *)
LEMMA StatsSums ==
  ASSUME NEW D, IsFiniteSet(D), NEW f, Into(f, D, Stats)
  PROVE  /\ StatsOver({}, f) = NewStats
         /\ \A S \in SUBSET D : StatsOver(S, f) \in Stats
         /\ \A S \in SUBSET D : \A x \in S :
              StatsOver(S, f) = Add(f[x], StatsOver(S \ {x}, f))
         /\ \A S, T \in SUBSET D : S \cap T = {} =>
              StatsOver(S \cup T, f) = Add(StatsOver(S, f), StatsOver(T, f))
<1>1. PICK g : /\ IsFold(g, StatsOp, NewStats, Stats, f, D)
               /\ \A S \in SUBSET D : StatsOver(S, f) = g[S]
  BY StatsOverIsFold
<1>2. Commutative(StatsOp, Stats) /\ NewStats \in Stats
  BY AddLaws
<1>3. g[{}] = NewStats
  BY <1>1 DEF IsFold
<1>4. \A S \in SUBSET D : g[S] \in Stats
  <2>1. Into(g, SUBSET D, Stats)
    BY <1>1, <1>2, FoldTyped
  <2> QED BY <2>1 DEF Into
<1>a. \A x \in D : f[x] \in Stats
  BY DEF Into
<1>5. \A S \in SUBSET D : \A x \in S : g[S] = Add(f[x], g[S \ {x}])
  <2>1. \A S \in SUBSET D : \A x \in S : g[S] = StatsOp[<<f[x], g[S \ {x}]>>]
    <3>1. Takes(g, StatsOp, f, D)
      BY <1>1, <1>2, FoldTakes
    <3> QED BY <3>1 DEF Takes
  <2>2. \A S \in SUBSET D : \A x \in S : f[x] \in Stats /\ S \ {x} \in SUBSET D
    BY <1>a
  <2> QED BY <1>4, <2>1, <2>2, AddLaws
<1>6. \A S, T \in SUBSET D : S \cap T = {} => g[S \cup T] = Add(g[S], g[T])
  <2>1. \A S, T \in SUBSET D : S \cap T = {} => g[S \cup T] = StatsOp[<<g[S], g[T]>>]
    <3>1. Joins(g, StatsOp, D)
      BY <1>1, <1>2, AddLaws, FoldJoins
    <3> QED BY <3>1 DEF Joins
  <2> QED BY <1>4, <2>1, AddLaws
<1>7. ASSUME NEW S \in SUBSET D, NEW T \in SUBSET D
      PROVE  S \cup T \in SUBSET D /\ \A x : S \ {x} \in SUBSET D
  OBVIOUS
<1> QED BY <1>1, <1>3, <1>4, <1>5, <1>6, <1>7, ZenonT(30)

LEMMA StatsSame ==
  ASSUME NEW D, IsFiniteSet(D), NEW f, Into(f, D, Stats),
         NEW k, Into(k, D, Stats),
         NEW S \in SUBSET D, Same(f, k, S)
  PROVE  StatsOver(S, f) = StatsOver(S, k)
<1>1. PICK g : /\ IsFold(g, StatsOp, NewStats, Stats, f, D)
               /\ \A T \in SUBSET D : StatsOver(T, f) = g[T]
  BY StatsOverIsFold
<1>2. PICK h : /\ IsFold(h, StatsOp, NewStats, Stats, k, D)
               /\ \A T \in SUBSET D : StatsOver(T, k) = h[T]
  BY StatsOverIsFold
<1>3. Commutative(StatsOp, Stats) /\ NewStats \in Stats /\ S \in SUBSET (D \cap D)
  BY AddLaws
<1>4. g[S] = h[S]
  BY <1>1, <1>2, <1>3, FoldAgrees
<1> QED BY <1>1, <1>2, <1>4

LEMMA StatsBump ==
  ASSUME NEW D, IsFiniteSet(D), NEW f, Into(f, D, Stats), NEW k, Into(k, D, Stats),
         NEW x \in D, NEW d \in Stats, Same(f, k, D \ {x}), k[x] = Add(f[x], d)
  PROVE  StatsOver(D, k) = Add(StatsOver(D, f), d)
<1> DEFINE S == D
           R == S \ {x}
<1>1. Same(f, k, R) /\ R \in SUBSET D /\ S \in SUBSET D
  OBVIOUS
<1>2. k[x] = Add(f[x], d) /\ f[x] \in Stats
  BY DEF Into
<1>3. StatsOver(R, f) = StatsOver(R, k)
  BY <1>1, StatsSame
<1>4. StatsOver(S, f) = Add(f[x], StatsOver(R, f)) /\ StatsOver(R, f) \in Stats
  BY <1>1, StatsSums
<1>5. StatsOver(S, k) = Add(k[x], StatsOver(R, k))
  BY <1>1, StatsSums
<1>6. \A a, b, c \in Stats : Add(Add(a, b), c) = Add(Add(a, c), b)
  BY DEF Add, Stats
<1> QED BY <1>2, <1>3, <1>4, <1>5, <1>6

(* The same for the live counters.                                         *)
LEMMA LiveSums ==
  ASSUME NEW D, IsFiniteSet(D), NEW f, Into(f, D, Counters)
  PROVE  /\ LiveOver(D, f) \in Counters
         /\ D = {} => LiveOver(D, f) = Zero
         /\ \A x \in D : /\ LiveOver(D \ {x}, f) \in Counters
                         /\ LiveOver(D, f) = Plus(f[x], LiveOver(D \ {x}, f))
<1>1. PICK g : /\ IsFold(g, CountersOp, Zero, Counters, f, D)
               /\ \A S \in SUBSET D : LiveOver(S, f) = g[S]
  BY LiveOverIsFold
<1>2. Commutative(CountersOp, Counters) /\ Zero \in Counters
  BY PlusLaws
<1>3. \A S \in SUBSET D : g[S] \in Counters
  <2>1. Into(g, SUBSET D, Counters)
    BY <1>1, <1>2, FoldTyped
  <2> QED BY <2>1 DEF Into
<1>4. \A x \in D : g[D] = CountersOp[<<f[x], g[D \ {x}]>>]
  <2>1. Takes(g, CountersOp, f, D)
    BY <1>1, <1>2, FoldTakes
  <2> QED BY <2>1 DEF Takes
<1>5. D \in SUBSET D /\ (\A x : D \ {x} \in SUBSET D) /\ \A x \in D : f[x] \in Counters
  BY DEF Into
<1>6. \A x \in D : CountersOp[<<f[x], g[D \ {x}]>>] = Plus(f[x], g[D \ {x}])
  <2> TAKE x \in D
  <2>1. f[x] \in Counters /\ g[D \ {x}] \in Counters
    BY <1>3, <1>5
  <2> QED BY <2>1, PlusLaws, Zenon
<1>7. D = {} => LiveOver(D, f) = Zero
  BY <1>1, <1>5 DEF IsFold
<1> QED BY <1>1, <1>3, <1>4, <1>5, <1>6, <1>7, Zenon

LEMMA LiveChange ==
  ASSUME NEW D, IsFiniteSet(D), NEW f, Into(f, D, Counters), NEW x \in D,
         NEW k, Into(k, D, Counters), Same(f, k, D \ {x})
  PROVE  \A o \in Outcomes :
           LiveOver(D, k)[o] + f[x][o] = LiveOver(D, f)[o] + k[x][o]
<1>0. Into(f, D, Counters) /\ Into(k, D, Counters)
  OBVIOUS
<1>1. PICK g : /\ IsFold(g, CountersOp, Zero, Counters, f, D)
               /\ \A T \in SUBSET D : LiveOver(T, f) = g[T]
  BY <1>0, LiveOverIsFold
<1>2. PICK h : /\ IsFold(h, CountersOp, Zero, Counters, k, D)
               /\ \A T \in SUBSET D : LiveOver(T, k) = h[T]
  BY <1>0, LiveOverIsFold
<1> DEFINE R == D \ {x}
<1>3. LiveOver(R, f) = LiveOver(R, k)
  <2>1. Commutative(CountersOp, Counters) /\ Zero \in Counters
        /\ R \in SUBSET (D \cap D) /\ R \in SUBSET D
    BY PlusLaws
  <2>2. g[R] = h[R]
    BY <1>0, <1>1, <1>2, <2>1, FoldAgrees
  <2> QED BY <1>1, <1>2, <2>1, <2>2
<1>4. /\ LiveOver(R, f) \in Counters
      /\ LiveOver(D, f) = Plus(f[x], LiveOver(R, f))
      /\ LiveOver(D, k) = Plus(k[x], LiveOver(R, k))
  BY <1>0, LiveSums
<1> DEFINE r == LiveOver(R, f)
           a == f[x]
           b == k[x]
<1>5. r \in Counters /\ a \in Counters /\ b \in Counters
  BY <1>4 DEF Into
<1>6. LiveOver(D, f) = Plus(a, r) /\ LiveOver(D, k) = Plus(b, r)
  BY <1>3, <1>4
<1> HIDE DEF r, a, b
<1>7. \A o \in Outcomes : Plus(b, r)[o] + a[o] = Plus(a, r)[o] + b[o]
  BY <1>5 DEF Plus, Counters
<1> QED BY <1>6, <1>7 DEF a, b
-----------------------------------------------------------------------------
LEMMA FiniteParts ==
  /\ IsFiniteSet(Ids) /\ IsFiniteSet(TaskIds)
  /\ \A t \in TaskIds : t[1] \in Ids
<1>1. IsFiniteSet(Ids) /\ IsFiniteSet(0 .. Connections)
  BY SplitAssumption, FS_Interval DEF Ids
<1>2. IsFiniteSet(Ids \X (0 .. Connections))
  BY <1>1, FS_Product
<1>3. TaskIds \subseteq Ids \X (0 .. Connections)
  BY DEF TaskIds
<1> QED BY <1>1, <1>2, <1>3, FS_Subset

(* An outcome adds one to its counter.                                     *)
LEMMA OutcomeAdds ==
  ASSUME NEW s \in Stats, NEW o \in Outcomes
  PROVE  \E d \in Stats : /\ WithOutcome(s, o) = Add(s, d)
                          /\ \A u \in Outcomes : Counted(d)[u] = IF u = o THEN 1 ELSE 0
<1>a. s = [conn |-> s.conn, ok |-> s.ok, fail |-> s.fail, err |-> s.err]
      /\ s.conn \in Nat /\ s.ok \in Nat /\ s.fail \in Nat /\ s.err \in Nat
  BY DEF Stats
<1>1. CASE o = "ok"
  <2> DEFINE d == [conn |-> 0, ok |-> 1, fail |-> 0, err |-> 0]
  <2>1. WithOutcome(s, o) = IncOk(s)
    BY <1>1, Zenon DEF WithOutcome
  <2>2. IncOk(s) = Add(s, d)
    BY <1>a DEF IncOk, Add
  <2>3. d \in Stats /\ \A u \in Outcomes : Counted(d)[u] = IF u = o THEN 1 ELSE 0
    BY <1>1 DEF Stats, Counted, Outcomes
  <2> QED BY <2>1, <2>2, <2>3
<1>2. CASE o = "fail"
  <2> DEFINE d == [conn |-> 0, ok |-> 0, fail |-> 1, err |-> 0]
  <2>1. "fail" # "ok" /\ "fail" # "err" /\ "ok" # "err"
    OBVIOUS
  <2>2. WithOutcome(s, o) = SetHttpStatus(s, 500)
    BY <1>2, <2>1, Zenon DEF WithOutcome
  <2>3. SetHttpStatus(s, 500) = Add(s, d)
    BY <1>a DEF SetHttpStatus, IncOk, Add
  <2>4. d \in Stats /\ \A u \in Outcomes : Counted(d)[u] = IF u = o THEN 1 ELSE 0
    BY <1>2 DEF Stats, Counted, Outcomes
  <2> QED BY <2>2, <2>3, <2>4
<1>3. CASE o = "err"
  <2> DEFINE d == [conn |-> 0, ok |-> 0, fail |-> 0, err |-> 1]
  <2>1. "fail" # "ok" /\ "fail" # "err" /\ "ok" # "err"
    OBVIOUS
  <2>2. WithOutcome(s, o) = SetError(s)
    BY <1>3, <2>1, Zenon DEF WithOutcome
  <2>3. SetError(s) = Add(s, d)
    BY <1>a DEF SetError, Add
  <2>4. d \in Stats /\ \A u \in Outcomes : Counted(d)[u] = IF u = o THEN 1 ELSE 0
    BY <1>3 DEF Stats, Counted, Outcomes
  <2> QED BY <2>2, <2>3, <2>4
<1> QED BY <1>1, <1>2, <1>3 DEF Outcomes

(* Which of its variables a step of the engine changes.                    *)
LEMMA NextEngineTypes ==
  EngineTypes /\ [Next]_vars => EngineTypes'
<1> SUFFICES ASSUME EngineTypes, [Next]_vars PROVE EngineTypes'
  OBVIOUS
<1> USE DEF EngineTypes
<1>1. CASE SpawnThread \/ BeginJoin \/ JoinThread \/ Report \/ Kill
  <2>1. UNCHANGED <<taskVars, rt, sum, meterVars>>
    BY <1>1 DEF SpawnThread, BeginJoin, JoinThread, Report, Kill
  <2>2. phase' \in Phases
    BY <1>1 DEF SpawnThread, BeginJoin, JoinThread, Report, Kill, Phases
  <2>3. next' \in 0 .. Instances
    BY <1>1, SplitAssumption DEF SpawnThread, BeginJoin, JoinThread, Report, Kill
  <2>4. thread' \in [Ids -> {"new", "started", "joining", "returned"}]
    BY <1>1 DEF SpawnThread, BeginJoin, JoinThread, Report, Kill
  <2> QED BY <2>1, <2>2, <2>3, <2>4 DEF taskVars, meterVars
<1>2. ASSUME NEW id \in Ids, SpawnTasks(id) \/ ReturnStats(id) PROVE EngineTypes'
  <2>1. thread' \in [Ids -> {"new", "started", "joining", "returned"}]
    BY <1>2 DEF SpawnTasks, ReturnStats
  <2> QED BY <1>2, <2>1 DEF SpawnTasks, ReturnStats, mainVars, taskVars, meterVars
<1>3. ASSUME NEW t \in TaskIds, JoinTask(t) PROVE EngineTypes'
  <2>1. task' \in [TaskIds -> States]
    BY <1>3 DEF JoinTask, States
  <2>2. sum' \in [Ids -> Stats]
    BY <1>3, FiniteParts, AddLaws DEF JoinTask
  <2> QED BY <1>3, <2>1, <2>2 DEF JoinTask, mainVars, meterVars
<1>4. ASSUME NEW t \in TaskIds, NEW o \in Kinds, BumpLive(t, o) PROVE EngineTypes'
  <2>1. t[1] \in Ids /\ o \in Outcomes
    BY FiniteParts, EngineAssumption
  <2>2. rt' \in [Ids -> Counters]
    BY <1>4, <2>1 DEF BumpLive, Counters
  <2>3. pending' \in [TaskIds -> SUBSET Outcomes]
    BY <1>4, <2>1 DEF BumpLive
  <2> QED BY <1>4, <2>2, <2>3 DEF BumpLive, mainVars, meterVars
<1>5. ASSUME NEW t \in TaskIds, BumpLocal(t) PROVE EngineTypes'
  <2>1. PICK o \in pending[t] : stats' = [stats EXCEPT ![t] = WithOutcome(@, o)]
    BY <1>5 DEF BumpLocal
  <2>2. WithOutcome(stats[t], o) \in Stats
    <3>1. stats[t] \in Stats /\ o \in Outcomes
      BY <2>1
    <3> QED BY <3>1, OutcomeAdds, AddLaws
  <2>3. stats' \in [TaskIds -> Stats]
    BY <2>1, <2>2
  <2>4. pending' \in [TaskIds -> SUBSET Outcomes]
    BY <1>5 DEF BumpLocal
  <2> QED BY <1>5, <2>3, <2>4 DEF BumpLocal, mainVars, meterVars
<1>6. ASSUME NEW t \in TaskIds, EndTask(t) \/ PanicTask(t) PROVE EngineTypes'
  <2>1. task' \in [TaskIds -> States]
    BY <1>6 DEF EndTask, PanicTask, States
  <2> QED BY <1>6, <2>1 DEF EndTask, PanicTask, mainVars, meterVars
<1>7. CASE MeterWakes
  BY <1>7, SplitAssumption, PlusLaws DEF MeterWakes, mainVars, taskVars
<1>8. CASE MeterSwaps
  <2>1. meter \in (0 .. Instances) \X (1 .. 3) /\ meter[1] \in Ids
    BY <1>8, SplitAssumption DEF MeterSwaps, Ids
  <2>2. SwapOrder[meter[2]] \in Outcomes
    BY <2>1 DEF SwapOrder, Outcomes
  <2>3. taken' \in Counters /\ rt' \in [Ids -> Counters]
    BY <1>8, <2>1, <2>2 DEF MeterSwaps, Take, Counters
  <2>4. meter' \in (0 .. Instances) \X (1 .. 3) /\ meter' # <<>>
    BY <1>8, <2>1, SplitAssumption DEF MeterSwaps, MeterNext, Ids
  <2> QED BY <1>8, <2>3, <2>4 DEF MeterSwaps, mainVars, taskVars
<1>9. CASE MeterPrints
  BY <1>9, PlusLaws DEF MeterPrints, mainVars, taskVars
<1>10. CASE UNCHANGED vars
  BY <1>10 DEF vars, mainVars, taskVars, meterVars
<1> QED
  BY <1>1, <1>2, <1>3, <1>4, <1>5, <1>6, <1>7, <1>8, <1>9, <1>10
     DEF Next, Main, Meter, Exited, Instance, TaskStep, TasksOf

LEMMA NextInHand == EngineTypes /\ InHand /\ [Next]_vars => InHand'
<1> SUFFICES ASSUME EngineTypes, InHand, [Next]_vars PROVE InHand'
  OBVIOUS
<1> USE DEF EngineTypes, InHand
<1>1. ASSUME UNCHANGED <<task, pending>> PROVE InHand'
  BY <1>1
<1>2. ASSUME NEW t \in TaskIds, JoinTask(t) PROVE InHand'
  BY <1>2 DEF JoinTask
<1>3. ASSUME NEW t \in TaskIds, NEW o \in Kinds, BumpLive(t, o) PROVE InHand'
  BY <1>3 DEF BumpLive, Running
<1>4. ASSUME NEW t \in TaskIds, BumpLocal(t) PROVE InHand'
  BY <1>4 DEF BumpLocal
<1>5. ASSUME NEW t \in TaskIds, EndTask(t) \/ PanicTask(t) PROVE InHand'
  BY <1>5 DEF EndTask, PanicTask
<1> QED
  BY <1>1, <1>2, <1>3, <1>4, <1>5
     DEF Next, Main, SpawnThread, BeginJoin, JoinThread, Report, Kill, Meter,
         MeterWakes, MeterSwaps, MeterPrints, Exited, Instance, SpawnTasks,
         ReturnStats, TaskStep, TasksOf, vars, taskVars

(* Nothing returns before what it waits for is over.                       *)
LEMMA NextOverFirst == EngineTypes /\ OverFirst /\ [Next]_vars => OverFirst'
<1> SUFFICES ASSUME EngineTypes, OverFirst, [Next]_vars PROVE OverFirst'
  OBVIOUS
<1> USE DEF EngineTypes, OverFirst
<1>a. \A t \in TaskIds : t[1] \in Ids
  BY FiniteParts
<1>b. \A id \in Ids : id \in Nat /\ id < Instances
  BY SplitAssumption DEF Ids
<1>1. ASSUME UNCHANGED <<phase, next, thread, task>> PROVE OverFirst'
  BY <1>1
<1>2. CASE SpawnThread
  <2>1. \A id \in Ids : thread'[id] = "returned" => thread[id] = "returned"
    BY <1>2 DEF SpawnThread
  <2>2. phase' = "spawning" /\ UNCHANGED task
    BY <1>2 DEF SpawnThread, taskVars
  <2> QED BY <1>a, <2>1, <2>2
<1>3. CASE BeginJoin
  BY <1>3, <1>b DEF BeginJoin, taskVars
<1>4. CASE JoinThread
  BY <1>4, <1>b DEF JoinThread, taskVars
<1>5. CASE Report
  BY <1>5, <1>b DEF Report, taskVars
<1>6. CASE Kill
  BY <1>6 DEF Kill, taskVars
<1>7. ASSUME NEW id \in Ids, SpawnTasks(id) PROVE OverFirst'
  BY <1>7, <1>a DEF SpawnTasks, mainVars, taskVars
<1>8. ASSUME NEW id \in Ids, ReturnStats(id) PROVE OverFirst'
  <2>1. \A t \in TaskIds : t[1] = id => task[t] \in Over
    BY <1>8 DEF ReturnStats, AllJoined, TasksOf, Over
  <2> QED BY <1>8, <1>a, <2>1 DEF ReturnStats, mainVars, taskVars
<1>9. ASSUME NEW t \in TaskIds, JoinTask(t) \/ EndTask(t) \/ PanicTask(t)
      PROVE  OverFirst'
  <2>1. thread[t[1]] = "joining" /\ UNCHANGED <<phase, next, thread>>
        /\ \A u \in TaskIds : u # t => task'[u] = task[u]
    BY <1>9 DEF JoinTask, EndTask, PanicTask, Running, mainVars
  <2> QED BY <2>1
<1> QED
  BY <1>1, <1>2, <1>3, <1>4, <1>5, <1>6, <1>7, <1>8, <1>9
     DEF Next, Main, Meter, MeterWakes, MeterSwaps, MeterPrints, Exited, Instance,
         TaskStep, BumpLive, BumpLocal, TasksOf, vars, mainVars, taskVars

(* A task is added to its instance's sum once, when it is joined.          *)
LEMMA NextSumsAgree ==
  EngineTypes /\ OverFirst /\ SumsAgree /\ [Next]_vars => SumsAgree'
<1> SUFFICES ASSUME EngineTypes, OverFirst, SumsAgree, [Next]_vars PROVE SumsAgree'
  OBVIOUS
<1>a. \A t \in TaskIds : thread[t[1]] = "joining" => phase # "reported"
  BY FiniteParts DEF OverFirst
<1>b. Into(stats, TaskIds, Stats) /\ Into(sum, Ids, Stats) /\ Joined \in SUBSET TaskIds
  BY DEF EngineTypes, Into, Joined
<1>c. EngineTypes'
  BY NextEngineTypes
<1>1. ASSUME UNCHANGED <<phase, task, stats, sum, report>> PROVE SumsAgree'
  BY <1>1 DEF SumsAgree, Joined
<1>2. CASE SpawnThread \/ BeginJoin \/ Kill
  BY <1>2 DEF SpawnThread, BeginJoin, Kill, taskVars, SumsAgree, Joined
<1>3. CASE Report
  BY <1>3 DEF Report, taskVars, SumsAgree, Joined
<1>4. ASSUME NEW t \in TaskIds, JoinTask(t) PROVE SumsAgree'
  <2>1. phase' # "reported" /\ UNCHANGED stats
    BY <1>4, <1>a DEF JoinTask, mainVars
  <2>2. CASE task[t] = "ended" /\ task' = [task EXCEPT ![t] = "joined"]
             /\ sum' = [sum EXCEPT ![t[1]] = Add(@, stats[t])]
    <3> DEFINE J == Joined \cup {t}
    <3>1. Joined' = J /\ J \in SUBSET TaskIds /\ t \in J /\ J \ {t} = Joined
      BY <2>2 DEF Joined, EngineTypes
    <3>2. StatsOver(J, stats) = Add(stats[t], StatsOver(Joined, stats))
      <4>1. StatsOver(J, stats) = Add(stats[t], StatsOver(J \ {t}, stats))
        BY <1>b, <3>1, FiniteParts, StatsSums
      <4> QED BY <3>1, <4>1
    <3>3. StatsOver(Ids, sum') = Add(StatsOver(Ids, sum), stats[t])
      <4> DEFINE id == t[1]
                 d  == stats[t]
                 k  == sum'
      <4>1. id \in Ids /\ d \in Stats
        BY FiniteParts DEF EngineTypes
      <4>2. Into(k, Ids, Stats)
        BY <1>c DEF Into, EngineTypes
      <4>3. Same(sum, k, Ids \ {id}) /\ k[id] = Add(sum[id], d)
        BY <2>2, <4>1 DEF Same, EngineTypes
      <4> HIDE DEF id, d, k
      <4>4. StatsOver(Ids, k) = Add(StatsOver(Ids, sum), d)
        BY <1>b, <4>1, <4>2, <4>3, FiniteParts, StatsBump
      <4> QED BY <4>4 DEF d, k
    <3>4. Add(StatsOver(Ids, sum), stats[t]) = Add(stats[t], StatsOver(Ids, sum))
      <4>1. StatsOver(Ids, sum) \in Stats /\ stats[t] \in Stats
        BY <1>b, FiniteParts, StatsSums DEF EngineTypes
      <4>2. \A a, b \in Stats : Add(a, b) = Add(b, a)
        BY DEF Add, Stats
      <4> QED BY <4>1, <4>2
    <3> HIDE DEF J
    <3> QED BY <2>1, <3>1, <3>2, <3>3, <3>4 DEF SumsAgree
  <2>3. CASE task[t] = "panicked" /\ task' = [task EXCEPT ![t] = "lost"]
             /\ UNCHANGED sum
    <3>1. Joined' = Joined
      BY <2>3 DEF Joined, EngineTypes
    <3> QED BY <2>1, <2>3, <3>1 DEF SumsAgree
  <2> QED BY <1>4, <2>2, <2>3 DEF JoinTask
<1>5. ASSUME NEW t \in TaskIds, BumpLocal(t) PROVE SumsAgree'
  <2>1. /\ phase' # "reported" /\ UNCHANGED <<task, sum>> /\ task[t] = "running"
        /\ \A u \in TaskIds : u # t => stats'[u] = stats[u]
    BY <1>5, <1>a DEF BumpLocal, Running, mainVars, EngineTypes
  <2>2. EngineTypes'
    BY NextEngineTypes
  <2>3. Joined' = Joined /\ Same(stats, stats', Joined) /\ Into(stats', TaskIds, Stats)
    BY <2>1, <2>2 DEF Joined, Same, Into, EngineTypes
  <2>4. StatsOver(Joined, stats) = StatsOver(Joined, stats')
    BY <1>b, <2>3, FiniteParts, StatsSame
  <2> QED BY <2>1, <2>3, <2>4 DEF SumsAgree
<1>6. ASSUME NEW t \in TaskIds, EndTask(t) \/ PanicTask(t) PROVE SumsAgree'
  <2>1. Joined' = Joined
    BY <1>6 DEF EndTask, PanicTask, Running, Joined, EngineTypes
  <2> QED BY <1>6, <2>1 DEF EndTask, PanicTask, mainVars, SumsAgree
<1> QED
  BY <1>1, <1>2, <1>3, <1>4, <1>5, <1>6
     DEF Next, Main, JoinThread, Meter, MeterWakes, MeterSwaps, MeterPrints, Exited,
         Instance, SpawnTasks, ReturnStats, TaskStep, BumpLive, TasksOf, vars,
         mainVars, taskVars

-----------------------------------------------------------------------------
(* Tasks that have an outcome in hand.                                     *)
Pending(o) == {t \in TaskIds : o \in pending[t]}

LEMMA PendingCount ==
  ASSUME NEW S \in SUBSET TaskIds, NEW t \in TaskIds
  PROVE  /\ Cardinality(S) \in Nat
         /\ t \notin S => Cardinality(S \cup {t}) = Cardinality(S) + 1
         /\ t \in S => Cardinality(S) = Cardinality(S \ {t}) + 1
                       /\ Cardinality(S \ {t}) \in Nat
<1>1. IsFiniteSet(S) /\ IsFiniteSet(S \ {t})
  BY FiniteParts, FS_Subset
<1>2. Cardinality(S) \in Nat /\ Cardinality(S \ {t}) \in Nat
  BY <1>1, FS_CardinalityType
<1>3. t \notin S => Cardinality(S \cup {t}) = Cardinality(S) + 1
  BY <1>1, FS_AddElement
<1>4. t \in S => Cardinality(S \ {t}) = Cardinality(S) - 1
  BY <1>1, FS_RemoveElement
<1> QED BY <1>2, <1>3, <1>4

(* Between them the display, the meter, the live counters and the tasks    *)
(* hold every outcome once.                                                *)
LEMMA NextMeter ==
  EngineTypes /\ InHand /\ MeterConserves /\ [Next]_vars => MeterConserves'
<1> SUFFICES ASSUME EngineTypes, InHand, MeterConserves, [Next]_vars,
                    NEW u \in Outcomes
             PROVE  shown'[u] + taken'[u] + LiveOver(Ids, rt')[u]
                      = Counted(StatsOver(TaskIds, stats'))[u]
                        + Cardinality(Pending(u)')
  BY DEF MeterConserves, Pending
<1> DEFINE live == LiveOver(Ids, rt)[u]
           rec  == Counted(StatsOver(TaskIds, stats))[u]
           pend == Cardinality(Pending(u))
<1>a. shown[u] + taken[u] + live = rec + pend
  BY DEF MeterConserves, Pending
<1>b. \A f \in Counters : f[u] \in Nat
  BY DEF Counters
<1>c. \A f \in [Ids -> Counters] : LiveOver(Ids, f) \in Counters
  <2> TAKE f \in [Ids -> Counters]
  <2>1. Into(f, Ids, Counters)
    BY DEF Into
  <2> QED BY <2>1, FiniteParts, LiveSums
<1>d. /\ shown[u] \in Nat /\ taken[u] \in Nat /\ live \in Nat
      /\ \A id \in Ids : rt[id][u] \in Nat
  BY <1>b, <1>c DEF EngineTypes
<1>e. StatsOver(TaskIds, stats) \in Stats
  <2>1. Into(stats, TaskIds, Stats) /\ TaskIds \in SUBSET TaskIds
    BY DEF EngineTypes, Into
  <2> QED BY <2>1, FiniteParts, StatsSums
<1>f. \A s \in Stats : Counted(s)[u] \in Nat
  BY DEF Counted, Stats, Outcomes
<1>g. rec \in Nat /\ pend \in Nat
  <2>1. IsFiniteSet(Pending(u))
    BY FiniteParts, FS_Subset DEF Pending
  <2> QED BY <1>e, <1>f, <2>1, FS_CardinalityType
<1>h. EngineTypes'
  BY NextEngineTypes
<1>1. ASSUME UNCHANGED <<shown, taken, rt, stats, pending>>
      PROVE  shown'[u] + taken'[u] + LiveOver(Ids, rt')[u]
               = Counted(StatsOver(TaskIds, stats'))[u] + Cardinality(Pending(u)')
  BY <1>1, <1>a DEF Pending
<1>2. ASSUME NEW t \in TaskIds, NEW o \in Kinds, BumpLive(t, o)
      PROVE  shown'[u] + taken'[u] + LiveOver(Ids, rt')[u]
               = Counted(StatsOver(TaskIds, stats'))[u] + Cardinality(Pending(u)')
  <2>1. /\ t[1] \in Ids /\ o \in Outcomes /\ UNCHANGED <<shown, taken, stats>>
        /\ pending[t] = {} /\ pending' = [pending EXCEPT ![t] = {o}]
        /\ rt' = [rt EXCEPT ![t[1]][o] = @ + 1]
    BY <1>2, FiniteParts, EngineAssumption DEF BumpLive, meterVars
  <2>2. LiveOver(Ids, rt')[u] + rt[t[1]][u] = live + rt'[t[1]][u]
    <3> DEFINE id == t[1]
               k  == rt'
    <3>1. Same(rt, k, Ids \ {id})
      BY <2>1 DEF Same, EngineTypes
    <3>2. Into(rt, Ids, Counters) /\ Into(k, Ids, Counters)
      BY <1>h DEF Into, EngineTypes
    <3>3. id \in Ids
      BY <2>1
    <3> HIDE DEF id, k
    <3>4. \A v \in Outcomes : LiveOver(Ids, k)[v] + rt[id][v] = LiveOver(Ids, rt)[v] + k[id][v]
      BY <3>1, <3>2, <3>3, FiniteParts, LiveChange
    <3> QED BY <3>4 DEF id, k
  <2>3. rt'[t[1]][u] = rt[t[1]][u] + (IF u = o THEN 1 ELSE 0)
    BY <2>1 DEF EngineTypes, Counters
  <2>4. Cardinality(Pending(u)') = pend + (IF u = o THEN 1 ELSE 0)
    <3>1. t \notin Pending(u) /\ Pending(u) \in SUBSET TaskIds
      BY <2>1 DEF Pending
    <3>2. Pending(u)' = IF u = o THEN Pending(u) \cup {t} ELSE Pending(u)
      BY <2>1 DEF Pending, EngineTypes
    <3>3. Cardinality(Pending(u) \cup {t}) = pend + 1
      BY <3>1, PendingCount
    <3> QED BY <1>g, <3>2, <3>3
  <2>5. LiveOver(Ids, rt')[u] \in Nat /\ rt[t[1]][u] \in Nat
    BY <1>b, <1>c, <1>d, <1>h, <2>1 DEF EngineTypes
  <2> DEFINE x == LiveOver(Ids, rt')[u]
             y == rt[t[1]][u]
             y1 == rt'[t[1]][u]
             c == Cardinality(Pending(u)')
             s == shown[u]
             k == taken[u]
  <2> HIDE DEF live, rec, pend, x, y, y1, c, s, k
  <2>6. s + k + x = rec + c
    <3>1. x \in Nat /\ y \in Nat /\ x + y = live + y1 /\ y1 = y + (IF u = o THEN 1 ELSE 0)
      BY <2>2, <2>3, <2>5 DEF x, y, y1
    <3>2. c = pend + (IF u = o THEN 1 ELSE 0)
      BY <2>4 DEF c
    <3>3. s + k + live = rec + pend /\ s \in Nat /\ k \in Nat /\ live \in Nat
          /\ rec \in Nat /\ pend \in Nat
      BY <1>a, <1>d, <1>g DEF s, k
    <3> QED BY <3>1, <3>2, <3>3
  <2> QED BY <2>1, <2>6 DEF s, k, x, c, rec
<1>3. ASSUME NEW t \in TaskIds, BumpLocal(t)
      PROVE  shown'[u] + taken'[u] + LiveOver(Ids, rt')[u]
               = Counted(StatsOver(TaskIds, stats'))[u] + Cardinality(Pending(u)')
  <2>1. PICK o \in pending[t] : stats' = [stats EXCEPT ![t] = WithOutcome(@, o)]
    BY <1>3 DEF BumpLocal
  <2>2. /\ UNCHANGED <<shown, taken, rt>> /\ pending' = [pending EXCEPT ![t] = {}]
        /\ o \in Outcomes /\ pending[t] = {o} /\ stats[t] \in Stats
    BY <1>3, <2>1 DEF BumpLocal, meterVars, EngineTypes, InHand
  <2>3. PICK d \in Stats :
          /\ WithOutcome(stats[t], o) = Add(stats[t], d)
          /\ \A v \in Outcomes : Counted(d)[v] = IF v = o THEN 1 ELSE 0
    BY <2>2, OutcomeAdds
  <2>4. stats' = [stats EXCEPT ![t] = Add(@, d)]
    BY <2>1, <2>3
  <2>5. StatsOver(TaskIds, stats') = Add(StatsOver(TaskIds, stats), d)
    <3> DEFINE k == stats'
    <3>1. Into(stats, TaskIds, Stats) /\ Into(k, TaskIds, Stats)
      BY <1>h DEF Into, EngineTypes
    <3>2. Same(stats, k, TaskIds \ {t}) /\ k[t] = Add(stats[t], d)
      BY <2>4 DEF Same, EngineTypes
    <3> HIDE DEF k
    <3>3. StatsOver(TaskIds, k) = Add(StatsOver(TaskIds, stats), d)
      BY <3>1, <3>2, FiniteParts, StatsBump
    <3> QED BY <3>3 DEF k
  <2>6. \A a, b \in Stats : Counted(Add(a, b))[u] = Counted(a)[u] + Counted(b)[u]
    BY DEF Counted, Add, Stats, Outcomes
  <2>7. Counted(StatsOver(TaskIds, stats'))[u] = rec + (IF u = o THEN 1 ELSE 0)
    <3>1. Counted(StatsOver(TaskIds, stats'))[u] = rec + Counted(d)[u]
      BY <1>e, <2>5, <2>6
    <3> QED BY <2>3, <3>1
  <2>8. pend = Cardinality(Pending(u)') + (IF u = o THEN 1 ELSE 0)
    <3>1. (t \in Pending(u) <=> u = o) /\ Pending(u) \in SUBSET TaskIds
      BY <2>2 DEF Pending
    <3>2. Pending(u)' = Pending(u) \ {t}
      BY <2>2 DEF Pending, EngineTypes
    <3>3. CASE u = o
      <4>1. pend = Cardinality(Pending(u) \ {t}) + 1
        BY <3>1, <3>3, PendingCount
      <4> QED BY <3>2, <3>3, <4>1
    <3>4. CASE u # o
      <4>1. Pending(u)' = Pending(u)
        BY <3>1, <3>2, <3>4
      <4> QED BY <1>g, <3>4, <4>1
    <3> QED BY <3>3, <3>4
  <2>9. Cardinality(Pending(u)') \in Nat
    <3>1. Pending(u)' \subseteq TaskIds
      BY DEF Pending
    <3> QED BY <3>1, FiniteParts, FS_Subset, FS_CardinalityType
  <2> DEFINE r1 == Counted(StatsOver(TaskIds, stats'))[u]
             c == Cardinality(Pending(u)')
             s == shown[u]
             k == taken[u]
  <2>10. s + k + live = r1 + c
    <3>1. r1 = rec + (IF u = o THEN 1 ELSE 0) /\ pend = c + (IF u = o THEN 1 ELSE 0)
          /\ c \in Nat
      BY <2>7, <2>8, <2>9
    <3> HIDE DEF live, rec, pend, r1, c, s, k
    <3>2. s + k + live = rec + pend /\ s \in Nat /\ k \in Nat /\ live \in Nat
          /\ rec \in Nat /\ pend \in Nat
      BY <1>a, <1>d, <1>g DEF s, k
    <3> QED BY <3>1, <3>2
  <2> QED BY <2>2, <2>10
<1>4. CASE MeterWakes
  BY <1>1, <1>4 DEF MeterWakes, taskVars, EngineTypes
<1>5. CASE MeterSwaps
  <2> DEFINE id == meter[1]
             o  == SwapOrder[meter[2]]
  <2>1. id \in Ids /\ o \in Outcomes
    BY <1>5, SplitAssumption DEF MeterSwaps, Ids, SwapOrder, Outcomes, EngineTypes
  <2>2. /\ taken' = [taken EXCEPT ![o] = @ + rt[id][o]]
        /\ rt' = [rt EXCEPT ![id][o] = 0]
        /\ UNCHANGED <<shown, stats, pending>>
    BY <1>5 DEF MeterSwaps, Take, taskVars
  <2> HIDE DEF id, o
  <2>3. LiveOver(Ids, rt')[u] + rt[id][u] = live + rt'[id][u]
    <3> DEFINE k == rt'
    <3>1. Same(rt, k, Ids \ {id})
      BY <2>1, <2>2 DEF Same, EngineTypes
    <3>2. Into(rt, Ids, Counters) /\ Into(k, Ids, Counters)
      BY <1>h DEF Into, EngineTypes
    <3> HIDE DEF k
    <3>4. \A v \in Outcomes : LiveOver(Ids, k)[v] + rt[id][v] = LiveOver(Ids, rt)[v] + k[id][v]
      BY <2>1, <3>1, <3>2, FiniteParts, LiveChange
    <3> QED BY <3>4 DEF k
  <2>4. rt'[id][u] = (IF u = o THEN 0 ELSE rt[id][u])
        /\ taken'[u] = taken[u] + (IF u = o THEN rt[id][u] ELSE 0)
    BY <1>d, <2>1, <2>2 DEF EngineTypes, Counters
  <2>5. LiveOver(Ids, rt')[u] \in Nat /\ rt[id][u] \in Nat
    BY <1>b, <1>c, <1>d, <1>h, <2>1 DEF EngineTypes
  <2>6. Pending(u)' = Pending(u)
    BY <2>2 DEF Pending
  <2> DEFINE x == LiveOver(Ids, rt')[u]
             y == rt[id][u]
             y1 == rt'[id][u]
             s == shown[u]
             k == taken[u]
             k1 == taken'[u]
  <2>7. s + k1 + x = rec + pend
    <3>1. /\ x \in Nat /\ y \in Nat /\ x + y = live + y1
          /\ y1 = (IF u = o THEN 0 ELSE y) /\ k1 = k + (IF u = o THEN y ELSE 0)
      BY <2>3, <2>4, <2>5
    <3> HIDE DEF live, rec, pend, x, y, y1, s, k, k1
    <3>2. s + k + live = rec + pend /\ s \in Nat /\ k \in Nat /\ live \in Nat
          /\ rec \in Nat /\ pend \in Nat
      BY <1>a, <1>d, <1>g DEF s, k
    <3> QED BY <3>1, <3>2
  <2> QED BY <2>2, <2>6, <2>7
<1>6. CASE MeterPrints
  <2>1. shown'[u] = shown[u] + taken[u] /\ taken'[u] = 0 /\ UNCHANGED <<rt, stats, pending>>
    BY <1>6 DEF MeterPrints, Plus, Zero, taskVars
  <2>2. Pending(u)' = Pending(u)
    BY <2>1 DEF Pending
  <2> HIDE DEF live, rec, pend
  <2> QED BY <1>a, <1>d, <2>1, <2>2 DEF live, rec, pend
<1>7. CASE Main \/ Kill \/ Exited \/ UNCHANGED vars
  BY <1>1, <1>7 DEF Main, SpawnThread, BeginJoin, JoinThread, Report, Kill, Exited,
                    vars, taskVars, meterVars
<1>8. ASSUME NEW id \in Ids, Instance(id)
      PROVE  UNCHANGED <<shown, taken, rt, stats, pending>>
  BY <1>8 DEF Instance, SpawnTasks, ReturnStats, JoinTask, taskVars, meterVars
<1>9. ASSUME NEW t \in TaskIds, EndTask(t) \/ PanicTask(t)
      PROVE  UNCHANGED <<shown, taken, rt, stats, pending>>
  BY <1>9 DEF EndTask, PanicTask, meterVars
<1> QED
  BY <1>1, <1>2, <1>3, <1>4, <1>5, <1>6, <1>7, <1>8, <1>9 DEF Next, Meter, TaskStep
-----------------------------------------------------------------------------
(* Sums of nothing are nothing.                                            *)
LEMMA NothingRecorded ==
  ASSUME NEW D, IsFiniteSet(D), NEW f, \A x \in D : f[x] = NewStats
  PROVE  StatsOver(D, f) = NewStats
<1>1. Into(f, D, Stats)
  BY AddLaws DEF Into
<1> DEFINE P == {S \in SUBSET D : StatsOver(S, f) = NewStats}
<1>2. Add(NewStats, NewStats) = NewStats
  BY DEF Add, NewStats
<1>3. \A S \in SUBSET D : (\A x \in S : S \ {x} \in P) => S \in P
  <2> SUFFICES ASSUME NEW S \in SUBSET D, \A x \in S : S \ {x} \in P
               PROVE  StatsOver(S, f) = NewStats
    OBVIOUS
  <2>1. CASE S = {}
    BY <1>1, <2>1, StatsSums
  <2>2. ASSUME NEW x \in S PROVE StatsOver(S, f) = NewStats
    <3>1. StatsOver(S \ {x}, f) = NewStats /\ f[x] = NewStats
      OBVIOUS
    <3>2. StatsOver(S, f) = Add(f[x], StatsOver(S \ {x}, f))
      BY <1>1, StatsSums
    <3> QED BY <1>2, <3>1, <3>2
  <2> QED BY <2>1, <2>2
<1>4. P = SUBSET D
  <2>1. P \in SUBSET (SUBSET D)
    OBVIOUS
  <2> HIDE DEF P
  <2> QED BY <1>3, <2>1, SubsetInduction
<1> QED BY <1>4

LEMMA NothingLive ==
  ASSUME NEW D, IsFiniteSet(D), NEW f, \A x \in D : f[x] = Zero
  PROVE  LiveOver(D, f) = Zero
<1> DEFINE P == {S \in SUBSET D : LiveOver(S, f) = Zero}
<1>1. \A S \in SUBSET D : IsFiniteSet(S) /\ Into(f, S, Counters)
  BY PlusLaws, FS_Subset DEF Into
<1>2. Plus(Zero, Zero) = Zero
  BY DEF Plus, Zero
<1>3. \A S \in SUBSET D : (\A x \in S : S \ {x} \in P) => S \in P
  <2> SUFFICES ASSUME NEW S \in SUBSET D, \A x \in S : S \ {x} \in P
               PROVE  LiveOver(S, f) = Zero
    OBVIOUS
  <2>1. CASE S = {}
    BY <1>1, <2>1, LiveSums
  <2>2. ASSUME NEW x \in S PROVE LiveOver(S, f) = Zero
    <3>1. LiveOver(S \ {x}, f) = Zero /\ f[x] = Zero
      OBVIOUS
    <3>2. LiveOver(S, f) = Plus(f[x], LiveOver(S \ {x}, f))
      BY <1>1, LiveSums
    <3> QED BY <1>2, <3>1, <3>2
  <2> QED BY <2>1, <2>2
<1>4. P = SUBSET D
  <2>1. P \in SUBSET (SUBSET D)
    OBVIOUS
  <2> HIDE DEF P
  <2> QED BY <1>3, <2>1, SubsetInduction
<1> QED BY <1>4

LEMMA InitSumInv == Init => SumInv
<1> SUFFICES ASSUME Init PROVE SumInv
  OBVIOUS
<1> USE DEF Init
<1>1. EngineTypes
  BY SplitAssumption, AddLaws, PlusLaws DEF EngineTypes, Phases, States
<1>2. InHand /\ OverFirst
  <2>1. InHand
    BY DEF InHand
  <2>2. \A t \in TaskIds : thread[t[1]] = "new"
    BY FiniteParts
  <2> QED BY <2>1, <2>2 DEF OverFirst
<1>3. StatsOver(Ids, sum) = NewStats /\ StatsOver(TaskIds, stats) = NewStats
  <2>1. (\A id \in Ids : sum[id] = NewStats) /\ \A t \in TaskIds : stats[t] = NewStats
    OBVIOUS
  <2> QED BY <2>1, FiniteParts, NothingRecorded
<1>4. LiveOver(Ids, rt) = Zero
  <2>1. \A id \in Ids : rt[id] = Zero
    OBVIOUS
  <2> QED BY <2>1, FiniteParts, NothingLive
<1>5. SumsAgree
  <2>1. Joined = {} /\ phase # "reported"
    BY DEF Joined
  <2>2. StatsOver({}, stats) = NewStats
    <3>1. Into(stats, TaskIds, Stats)
      BY <1>1 DEF EngineTypes, Into
    <3> QED BY <3>1, FiniteParts, StatsSums
  <2> QED BY <1>3, <2>1, <2>2 DEF SumsAgree
<1>6. MeterConserves
  <2> SUFFICES ASSUME NEW o \in Outcomes
               PROVE  shown[o] + taken[o] + LiveOver(Ids, rt)[o]
                        = Counted(StatsOver(TaskIds, stats))[o]
                          + Cardinality({t \in TaskIds : o \in pending[t]})
    BY DEF MeterConserves
  <2>1. {t \in TaskIds : o \in pending[t]} = {} /\ shown = Zero /\ taken = Zero
    OBVIOUS
  <2>2. Cardinality({}) = 0
    BY FS_EmptySet
  <2>3. Counted(NewStats)[o] = 0 /\ Zero[o] = 0
    BY DEF Counted, NewStats, Zero, Outcomes
  <2>4. shown[o] = 0 /\ taken[o] = 0 /\ LiveOver(Ids, rt)[o] = 0
    BY <1>4, <2>1, <2>3
  <2>5. Counted(StatsOver(TaskIds, stats))[o] = 0
    BY <1>3, <2>3
  <2>6. 0 + 0 + 0 = 0 + 0
    OBVIOUS
  <2> QED BY <2>1, <2>2, <2>4, <2>5, <2>6, Zenon
<1> QED BY <1>1, <1>2, <1>5, <1>6 DEF SumInv

LEMMA NextSumInv == SumInv /\ [Next]_vars => SumInv'
BY NextEngineTypes, NextInHand, NextOverFirst, NextSumsAgree, NextMeter, Zenon
   DEF SumInv

LEMMA SumInvariance == Spec => []SumInv
<1>1. Init => SumInv
  BY InitSumInv
<1>2. SumInv /\ [Next]_vars => SumInv'
  BY NextSumInv
<1> QED BY <1>1, <1>2, PTL DEF Spec

(* However the swaps of the meter fall between the two halves of an        *)
(* outcome, what it has printed and taken and what is left in the live     *)
(* counters is, outcome by outcome, what the tasks have recorded or are    *)
(* about to record: for every number of instances, tasks and outcomes.     *)
THEOREM MeterIsConserved == Spec => []MeterConserves
<1>1. SumInv => MeterConserves
  BY DEF SumInv
<1> QED BY <1>1, SumInvariance, PTL

LEMMA SumInvReport == SumInv => ReportComplete
<1> SUFFICES ASSUME SumInv, phase = "reported"
             PROVE  /\ \A t \in TaskIds : task[t] \in {"joined", "lost"} /\ pending[t] = {}
                    /\ report = StatsOver(Joined, stats)
  BY DEF ReportComplete, Joined
<1>1. \A t \in TaskIds : task[t] \in {"joined", "lost"}
  BY FiniteParts DEF SumInv, OverFirst, Over
<1>2. \A t \in TaskIds : pending[t] = {}
  BY <1>1 DEF SumInv, InHand
<1>3. report = StatsOver(Joined, stats)
  BY DEF SumInv, SumsAgree
<1> QED BY <1>1, <1>2, <1>3

(* The report is printed after every task is over and counts each task     *)
(* that was joined exactly once, in whatever order tasks and threads end.  *)
THEOREM ReportIsComplete == Spec => []ReportComplete
BY SumInvariance, SumInvReport, PTL

LEMMA SumInvDisplay == SumInv => DisplayAgrees
<1> DEFINE lost == {t \in TaskIds : task[t] = "lost"}
<1> SUFFICES ASSUME SumInv, phase = "reported", LiveOver(Ids, rt) = Zero, taken = Zero,
                    NEW o \in Outcomes
             PROVE  shown[o] = Counted(Add(report, StatsOver(lost, stats)))[o]
  BY DEF DisplayAgrees
<1>1. /\ \A t \in TaskIds : task[t] \in {"joined", "lost"} /\ pending[t] = {}
      /\ report = StatsOver(Joined, stats)
  BY SumInvReport DEF ReportComplete, Joined
<1>2. StatsOver(TaskIds, stats) = Add(report, StatsOver(lost, stats))
  <2>1. /\ Joined \in SUBSET TaskIds /\ lost \in SUBSET TaskIds
        /\ Joined \cap lost = {} /\ Joined \cup lost = TaskIds
    BY <1>1 DEF Joined
  <2>2. Into(stats, TaskIds, Stats)
    BY DEF SumInv, EngineTypes, Into
  <2> HIDE DEF lost
  <2>3. StatsOver(Joined \cup lost, stats)
          = Add(StatsOver(Joined, stats), StatsOver(lost, stats))
    BY <2>1, <2>2, FiniteParts, StatsSums
  <2> QED BY <1>1, <2>1, <2>3
<1>3. StatsOver(TaskIds, stats) \in Stats
  <2>1. Into(stats, TaskIds, Stats) /\ TaskIds \in SUBSET TaskIds
    BY DEF SumInv, EngineTypes, Into
  <2> QED BY <2>1, FiniteParts, StatsSums
<1>4. shown[o] + taken[o] + LiveOver(Ids, rt)[o]
        = Counted(StatsOver(TaskIds, stats))[o]
          + Cardinality({t \in TaskIds : o \in pending[t]})
  BY DEF SumInv, MeterConserves
<1>5. {t \in TaskIds : o \in pending[t]} = {} /\ Cardinality({}) = 0
  BY <1>1, FS_EmptySet
<1>6. taken[o] = 0 /\ LiveOver(Ids, rt)[o] = 0
  BY DEF Zero
<1>7. shown[o] \in Nat /\ Counted(StatsOver(TaskIds, stats))[o] \in Nat
  <2>1. shown \in Counters
    BY DEF SumInv, EngineTypes
  <2>2. \A s \in Stats : Counted(s)[o] \in Nat
    BY DEF Counted, Stats, Outcomes
  <2> QED BY <1>3, <2>1, <2>2 DEF Counters
<1> DEFINE c == Counted(StatsOver(TaskIds, stats))[o]
           s == shown[o]
<1>8. s + 0 + 0 = c + 0 /\ s \in Nat /\ c \in Nat
  BY <1>4, <1>5, <1>6, <1>7
<1>9. s = c
  <2> HIDE DEF s, c
  <2> QED BY <1>8
<1> HIDE DEF lost
<1> QED BY <1>2, <1>9

(* When the meter has shown everything there is, it differs from the       *)
(* report by what the panicked tasks recorded and by nothing else.         *)
THEOREM DisplayIsTheReport == Spec => []DisplayAgrees
BY SumInvariance, SumInvDisplay, PTL
=============================================================================
