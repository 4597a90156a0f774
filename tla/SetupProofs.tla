---------------------------- MODULE SetupProofs ----------------------------
(***************************************************************************)
(* What is settled before the first task runs: the list of source ports,   *)
(* the ports the connections of a task get from it, and the options.  For  *)
(* every list, number of tasks and of queues, every number of candidates,  *)
(* and whatever options a user gives.                                      *)
(***************************************************************************)
EXTENDS PortPool, OfferList, BalancedPorts, CheckOptions, Lemmas

(***************************************************************************)
(* The balanced list, for any set of ports and any hash.                   *)
(***************************************************************************)
(* The list of build_balanced_ports, for any hash.  The inner loop is in   *)
(* some round r: the queues before place have given r + 1 ports, the others*)
(* r, unless they have no more.                                            *)
Size(q)    == Cardinality(Members(queueOf, q))
QueueAt(n) == Order(queueOf)[n]
Places     == 1 .. Cardinality(Used(queueOf))

ListTypes ==
  /\ queueOf \in [Ports -> Queues] /\ ports \in Seq(Ports)
  /\ cursor \in [Used(queueOf) -> Nat]
  /\ place \in 1 .. Cardinality(Used(queueOf)) + 1
  /\ progress \in BOOLEAN /\ done \in BOOLEAN

Given(r, n) == IF n < place THEN r + 1 ELSE r

GivenEvenly(r) ==
  \A n \in Places :
    /\ cursor[QueueAt(n)] <= Given(r, n) /\ cursor[QueueAt(n)] <= Size(QueueAt(n))
    /\ cursor[QueueAt(n)] \in {Given(r, n), Size(QueueAt(n))}

Exhausted ==
  \A n \in Places :
    done \/ (~progress /\ n < place) => cursor[QueueAt(n)] = Size(QueueAt(n))

(* The list has the ports of the buckets up to their cursors, in order.    *)
ListOrder ==
  /\ \A i \in 1 .. Len(ports) : Rank(queueOf, ports[i]) < cursor[queueOf[ports[i]]]
  /\ \A p \in Ports :
       Rank(queueOf, p) < cursor[queueOf[p]] => \E i \in 1 .. Len(ports) : ports[i] = p
  /\ \A i, j \in 1 .. Len(ports) : i < j => Precedes(queueOf, ports[i], ports[j])

ListShares == \A q \in Used(queueOf) : Share(q) = cursor[q]

ListInv ==
  ListTypes /\ (\E r \in Nat : GivenEvenly(r)) /\ Exhausted /\ ListOrder /\ ListShares

LEMMA QueuesInOrder ==
  ASSUME queueOf \in [Ports -> Queues]
  PROVE  /\ Cardinality(Used(queueOf)) \in Nat
         /\ Len(Order(queueOf)) = Cardinality(Used(queueOf))
         /\ \A n \in Places : QueueAt(n) \in Used(queueOf)
         /\ \A q \in Used(queueOf) : q \in Nat /\ \E n \in Places : QueueAt(n) = q
         /\ \A m, n \in Places : m < n => QueueAt(m) < QueueAt(n)
<1> DEFINE U == Used(queueOf)
<1>1. IsFiniteSet(U)
  <2>1. queueOf \in Surjection(Ports, U)
    BY DEF Surjection, Used
  <2> QED BY <2>1, BalancedAssumption, FS_Surjection DEF BalancedAssumption
<1>2. U \in SUBSET Nat
  BY BalancedAssumption DEF BalancedAssumption, Used
<1> HIDE DEF U
<1>3. \A q \in U : Below(U, q) + 1 \in 1 .. Cardinality(U)
  <2> TAKE q \in U
  <2>1. Below(U, q) \in 0 .. Cardinality(U) - 1 /\ Cardinality(U) \in Nat
    BY <1>1, <1>2, BelowBounds, FS_CardinalityType
  <2> QED BY <2>1
<1> DEFINE A == Ascending(U)
<1>4. /\ Cardinality(U) \in Nat /\ A \in [1 .. Cardinality(U) -> U]
      /\ Len(A) = Cardinality(U)
      /\ \A x \in U : A[Below(U, x) + 1] = x
      /\ \A m, n \in 1 .. Cardinality(U) : m < n => A[m] < A[n]
  BY <1>1, <1>2, AscendingIs
<1> HIDE DEF A
<1>5. \A n \in 1 .. Cardinality(U) : A[n] \in U
  BY <1>4
<1>6. \A q \in U : q \in Nat /\ \E n \in 1 .. Cardinality(U) : A[n] = q
  BY <1>2, <1>3, <1>4
<1> QED BY <1>4, <1>5, <1>6 DEF Order, QueueAt, Places, U, A

LEMMA BucketsInOrder ==
  ASSUME queueOf \in [Ports -> Queues]
  PROVE  /\ \A q : Size(q) \in Nat /\ Len(Bucket(queueOf, q)) = Size(q)
         /\ \A q : \A n \in 1 .. Size(q) :
              LET p == Bucket(queueOf, q)[n]
              IN  p \in Ports /\ queueOf[p] = q /\ Rank(queueOf, p) = n - 1
         /\ \A p \in Ports : Rank(queueOf, p) \in 0 .. Size(queueOf[p]) - 1
         /\ \A p \in Ports :
              Bucket(queueOf, queueOf[p])[Rank(queueOf, p) + 1] = p
<1>1. ASSUME NEW q
      PROVE  Members(queueOf, q) \in SUBSET Nat /\ IsFiniteSet(Members(queueOf, q))
  <2>1. Members(queueOf, q) \in SUBSET Ports
    BY DEF Members
  <2> QED BY <2>1, BalancedAssumption, FS_Subset DEF BalancedAssumption
<1>2. \A p \in Ports : p \in Members(queueOf, queueOf[p])
  BY DEF Members
<1>3. \A q : \A p \in Members(queueOf, q) : p \in Ports /\ queueOf[p] = q
  BY DEF Members
<1>4. \A q : Size(q) \in Nat /\ Len(Bucket(queueOf, q)) = Size(q)
  BY <1>1, AscendingIs DEF Size, Bucket
<1>5. ASSUME NEW q, NEW n \in 1 .. Size(q)
      PROVE  LET p == Bucket(queueOf, q)[n]
             IN  p \in Ports /\ queueOf[p] = q /\ Rank(queueOf, p) = n - 1
  <2> DEFINE p == Bucket(queueOf, q)[n]
  <2>1. p \in Members(queueOf, q) /\ Below(Members(queueOf, q), p) = n - 1
    <3> DEFINE M == Members(queueOf, q)
    <3>1. M \in SUBSET Nat /\ IsFiniteSet(M) /\ n \in 1 .. Cardinality(M)
      BY <1>1, <1>5 DEF Size
    <3> HIDE DEF M
    <3>2. Ascending(M)[n] \in M /\ Below(M, Ascending(M)[n]) = n - 1
      BY <3>1, AscendingIs
    <3> QED BY <3>2 DEF M, Bucket
  <2> HIDE DEF p
  <2>2. p \in Ports /\ queueOf[p] = q /\ Rank(queueOf, p) = n - 1
    BY <1>3, <2>1 DEF Rank
  <2> QED BY <2>2 DEF p
<1>6. ASSUME NEW p \in Ports PROVE Rank(queueOf, p) \in 0 .. Size(queueOf[p]) - 1
  BY <1>1, <1>2, BelowBounds DEF Rank, Size
<1>7. ASSUME NEW p \in Ports
      PROVE  Bucket(queueOf, queueOf[p])[Rank(queueOf, p) + 1] = p
  BY <1>1, <1>2, AscendingIs DEF Rank, Bucket
<1> QED BY <1>4, <1>5, <1>6, <1>7

(* The port a Take appends.                                                *)
Taken == Bucket(queueOf, QueueAt(place))[cursor[QueueAt(place)] + 1]

LEMMA TakeIs ==
  ASSUME ListTypes, TakePort
  PROVE  /\ place \in Places /\ QueueAt(place) \in Used(queueOf)
         /\ cursor[QueueAt(place)] \in 0 .. Size(QueueAt(place)) - 1
         /\ Taken \in Ports /\ queueOf[Taken] = QueueAt(place)
         /\ Rank(queueOf, Taken) = cursor[QueueAt(place)]
         /\ ports' = Append(ports, Taken)
         /\ cursor' = [cursor EXCEPT ![QueueAt(place)] = @ + 1]
         /\ place' = place + 1 /\ progress' = TRUE /\ UNCHANGED <<queueOf, done>>
<1> DEFINE q == QueueAt(place)
<1>1. queueOf \in [Ports -> Queues] /\ place \in Nat /\ place >= 1
  BY QueuesInOrder DEF ListTypes
<1>2. place \in Places
  BY <1>1, QueuesInOrder DEF TakePort, AtQueue, Places
<1>3. q \in Used(queueOf)
  BY <1>1, <1>2, QueuesInOrder
<1>4. cursor[q] \in Nat /\ cursor[q] < Size(q) /\ Size(q) \in Nat
  BY <1>1, <1>3, BucketsInOrder DEF TakePort, Take, ListTypes, QueueAt
<1>5. cursor[q] + 1 \in 1 .. Size(q) /\ cursor[q] + 1 - 1 = cursor[q]
      /\ cursor[q] \in 0 .. Size(q) - 1
  BY <1>4
<1>6. Taken \in Ports /\ queueOf[Taken] = q /\ Rank(queueOf, Taken) = cursor[q]
  BY <1>1, <1>5, BucketsInOrder DEF Taken
<1> QED BY <1>2, <1>3, <1>5, <1>6 DEF TakePort, Take, NextPlace, QueueAt, Taken

LEMMA TakeGives ==
  ASSUME ListTypes, TakePort
  PROVE  /\ Len(ports) \in Nat /\ Len(ports') = Len(ports) + 1
         /\ DOMAIN ports = 1 .. Len(ports) /\ DOMAIN ports' = 1 .. Len(ports) + 1
         /\ ports' \in Seq(Ports) /\ ports'[Len(ports) + 1] = Taken
         /\ \A i \in 1 .. Len(ports) : ports'[i] = ports[i] /\ ports[i] \in Ports
         /\ cursor' \in [Used(queueOf) -> Nat]
         /\ \A u \in Used(queueOf) :
              cursor'[u] = IF u = QueueAt(place) THEN cursor[u] + 1 ELSE cursor[u]
         /\ place' \in 1 .. Cardinality(Used(queueOf)) + 1
<1>1. ports \in Seq(Ports) /\ Taken \in Ports /\ ports' = Append(ports, Taken)
  BY TakeIs DEF ListTypes
<1>2. cursor \in [Used(queueOf) -> Nat] /\ QueueAt(place) \in Used(queueOf)
      /\ cursor' = [cursor EXCEPT ![QueueAt(place)] = @ + 1]
  BY TakeIs DEF ListTypes
<1>3. place' = place + 1 /\ place \in Places /\ Cardinality(Used(queueOf)) \in Nat
  BY TakeIs, QueuesInOrder DEF ListTypes
<1>4. /\ Len(ports) \in Nat /\ Len(ports') = Len(ports) + 1
      /\ DOMAIN ports = 1 .. Len(ports) /\ DOMAIN ports' = 1 .. Len(ports) + 1
      /\ ports' \in Seq(Ports) /\ ports'[Len(ports) + 1] = Taken
      /\ \A i \in 1 .. Len(ports) : ports'[i] = ports[i] /\ ports[i] \in Ports
  BY <1>1
<1>5. /\ cursor' \in [Used(queueOf) -> Nat]
      /\ \A u \in Used(queueOf) :
           cursor'[u] = IF u = QueueAt(place) THEN cursor[u] + 1 ELSE cursor[u]
  BY <1>2
<1>6. place' \in 1 .. Cardinality(Used(queueOf)) + 1
  BY <1>3 DEF Places
<1> QED BY <1>4, <1>5, <1>6

LEMMA NextListTypes == ListTypes /\ [ListNext]_listVars => ListTypes'
<1> SUFFICES ASSUME ListTypes, [ListNext]_listVars PROVE ListTypes'
  OBVIOUS
<1>1. queueOf \in [Ports -> Queues] /\ Cardinality(Used(queueOf)) \in Nat
  BY QueuesInOrder DEF ListTypes
<1>2. CASE TakePort
  <2>1. /\ queueOf' \in [Ports -> Queues] /\ Used(queueOf)' = Used(queueOf)
        /\ progress' \in BOOLEAN /\ done' \in BOOLEAN
    <3>1. UNCHANGED queueOf /\ progress' = TRUE /\ UNCHANGED done
      BY <1>2, TakeIs
    <3>2. done \in BOOLEAN /\ queueOf \in [Ports -> Queues]
      BY DEF ListTypes
    <3> QED BY <3>1, <3>2 DEF Used
  <2> QED BY <1>2, <2>1, TakeGives DEF ListTypes
<1>3. CASE SkipEmpty
  <2>1. place <= Cardinality(Used(queueOf))
    BY <1>1, <1>3, QueuesInOrder DEF SkipEmpty, AtQueue
  <2> QED BY <1>1, <1>3, <2>1 DEF ListTypes, SkipEmpty, NextPlace
<1>4. CASE EndRound
  <2>1. /\ UNCHANGED <<queueOf, ports, cursor>>
        /\ place' \in {1, place} /\ progress' \in {FALSE, progress}
        /\ done' \in {TRUE, FALSE}
    BY <1>4 DEF EndRound
  <2>2. place' \in 1 .. Cardinality(Used(queueOf)) + 1
    BY <1>1, <2>1 DEF ListTypes
  <2> QED BY <2>1, <2>2 DEF ListTypes, Used
<1>5. CASE UNCHANGED listVars
  BY <1>5 DEF ListTypes, listVars
<1> QED BY <1>2, <1>3, <1>4, <1>5 DEF ListNext, Finished

(* No two places have the same queue.                                      *)
LEMMA OnePlace ==
  ASSUME ListTypes, NEW m \in Places, NEW n \in Places, QueueAt(m) = QueueAt(n)
  PROVE  m = n
<1>1. /\ \A i, j \in Places : i < j => QueueAt(i) < QueueAt(j)
      /\ \A i \in Places : QueueAt(i) \in Nat
      /\ Cardinality(Used(queueOf)) \in Nat
  BY QueuesInOrder DEF ListTypes
<1>2. m \in Int /\ n \in Int
  BY <1>1 DEF Places
<1>3. m < n \/ n < m \/ m = n
  BY <1>2
<1> QED BY <1>1, <1>3

LEMMA NextRound ==
  ASSUME ListTypes, NEW r \in Nat, GivenEvenly(r), [ListNext]_listVars
  PROVE  \E s \in Nat : GivenEvenly(s)'
<1>1. /\ queueOf \in [Ports -> Queues] /\ Cardinality(Used(queueOf)) \in Nat
      /\ place \in Nat /\ Places \subseteq Nat
      /\ \A n \in Places : QueueAt(n) \in Used(queueOf) /\ Size(QueueAt(n)) \in Nat
                            /\ cursor[QueueAt(n)] \in Nat
  BY QueuesInOrder, BucketsInOrder DEF ListTypes, Places
<1>2. CASE TakePort
  <2>1. GivenEvenly(r)'
    <3> SUFFICES ASSUME NEW n \in Places
                 PROVE  LET c == cursor'[QueueAt(n)]
                            g == IF n < place' THEN r + 1 ELSE r
                        IN  c <= g /\ c <= Size(QueueAt(n)) /\ c \in {g, Size(QueueAt(n))}
      BY <1>2, TakeIs DEF GivenEvenly, Given, QueueAt, Size, Places
    <3>1. CASE n = place
      <4> DEFINE c == cursor[QueueAt(n)]
      <4>1. c \in Nat /\ c <= r /\ c < Size(QueueAt(n)) /\ Size(QueueAt(n)) \in Nat
            /\ c \in {r, Size(QueueAt(n))}
        BY <1>1, <1>2, <3>1, TakeIs DEF GivenEvenly, Given
      <4>2. c = r
        BY <4>1
      <4>3. cursor'[QueueAt(n)] = c + 1 /\ n < place'
        BY <1>1, <1>2, <3>1, TakeIs, TakeGives
      <4> HIDE DEF c
      <4> QED BY <4>1, <4>2, <4>3
    <3>2. CASE n # place
      <4>1. QueueAt(n) # QueueAt(place)
        BY <1>2, <3>2, OnePlace, TakeIs
      <4>2. cursor'[QueueAt(n)] = cursor[QueueAt(n)]
        BY <1>1, <1>2, <4>1, TakeIs DEF ListTypes
      <4>3. n < place' <=> n < place
        BY <1>1, <1>2, <3>2, TakeIs
      <4> QED BY <4>2, <4>3 DEF GivenEvenly, Given
    <3> QED BY <3>1, <3>2
  <2> QED BY <2>1
<1>3. CASE SkipEmpty
  <2>1. /\ place \in Places /\ cursor[QueueAt(place)] = Size(QueueAt(place))
        /\ place' = place + 1 /\ UNCHANGED <<queueOf, cursor>>
    <3>1. place \in Places
      BY <1>1, <1>3, QueuesInOrder DEF SkipEmpty, AtQueue, ListTypes, Places
    <3> QED BY <1>1, <1>3, <3>1, BucketsInOrder DEF SkipEmpty, NextPlace, QueueAt
  <2>2. GivenEvenly(r)'
    <3> SUFFICES ASSUME NEW n \in Places
                 PROVE  LET c == cursor[QueueAt(n)]
                            g == IF n < place + 1 THEN r + 1 ELSE r
                        IN  c <= g /\ c <= Size(QueueAt(n)) /\ c \in {g, Size(QueueAt(n))}
      BY <2>1 DEF GivenEvenly, Given, QueueAt, Size, Places
    <3>1. CASE n = place
      BY <1>1, <2>1, <3>1 DEF GivenEvenly, Given
    <3>2. CASE n # place
      <4>1. n < place + 1 <=> n < place
        BY <1>1, <3>2
      <4> QED BY <4>1 DEF GivenEvenly, Given
    <3> QED BY <3>1, <3>2
  <2> QED BY <2>2
<1>4. CASE EndRound
  <2>1. /\ UNCHANGED <<queueOf, cursor>> /\ place > Cardinality(Used(queueOf))
        /\ place' \in {1, place}
    BY <1>1, <1>4, QueuesInOrder DEF EndRound
  <2>2. \A n \in Places : n < place /\ ~(n < 1)
    BY <1>1, <2>1 DEF Places
  <2>3. CASE place' = 1
    <3>1. GivenEvenly(r + 1)'
      BY <2>1, <2>2, <2>3 DEF GivenEvenly, Given, QueueAt, Size, Places
    <3>2. r + 1 \in Nat
      OBVIOUS
    <3> QED BY <3>1, <3>2
  <2>4. CASE place' = place
    BY <2>1, <2>4 DEF GivenEvenly, Given, QueueAt, Size, Places
  <2> QED BY <2>1, <2>3, <2>4
<1>5. CASE UNCHANGED listVars
  BY <1>5 DEF GivenEvenly, Given, QueueAt, Size, Places, listVars
<1> QED BY <1>2, <1>3, <1>4, <1>5 DEF ListNext, Finished

LEMMA NextExhausted == ListTypes /\ Exhausted /\ [ListNext]_listVars => Exhausted'
<1> SUFFICES ASSUME ListTypes, Exhausted, [ListNext]_listVars PROVE Exhausted'
  OBVIOUS
<1>1. /\ Cardinality(Used(queueOf)) \in Nat /\ place \in Nat /\ Places \subseteq Nat
      /\ Places = 1 .. Cardinality(Used(queueOf))
  BY QueuesInOrder DEF ListTypes, Places
<1>2. CASE TakePort
  BY <1>2, TakeIs DEF Exhausted, TakePort, AtQueue, Places
<1>3. CASE SkipEmpty
  <2>1. /\ cursor[QueueAt(place)] = Size(QueueAt(place)) /\ ~done
        /\ place' = place + 1 /\ UNCHANGED <<queueOf, cursor, progress, done>>
    BY <1>3, BucketsInOrder DEF SkipEmpty, NextPlace, QueueAt, AtQueue, ListTypes
  <2>2. \A n \in Places : n < place + 1 => n < place \/ n = place
    BY <1>1
  <2> QED BY <2>1, <2>2 DEF Exhausted, QueueAt, Size, Places
<1>4. CASE EndRound
  <2>1. \A n \in Places : n < place /\ ~(n < 1)
    BY <1>1, <1>4, QueuesInOrder DEF EndRound, ListTypes
  <2> QED BY <1>4, <2>1 DEF EndRound, RoundMore, Exhausted, QueueAt, Size, Places
<1>5. CASE UNCHANGED listVars
  BY <1>5 DEF Exhausted, QueueAt, Size, Places, listVars
<1> QED BY <1>2, <1>3, <1>4, <1>5 DEF ListNext, Finished

(* A port taken comes behind those that are in the list.                   *)
LEMMA TakenIsLast ==
  ASSUME ListTypes, NEW r \in Nat, GivenEvenly(r), ListOrder, TakePort,
         NEW i \in 1 .. Len(ports)
  PROVE  Precedes(queueOf, ports[i], Taken)
<1> DEFINE p == ports[i]
           q == QueueAt(place)
<1>1. /\ p \in Ports /\ queueOf \in [Ports -> Queues] /\ queueOf[p] \in Used(queueOf)
      /\ Rank(queueOf, p) < cursor[queueOf[p]] /\ Rank(queueOf, p) \in Nat
      /\ place \in Nat /\ Places \subseteq Nat
  <2>1. p \in Ports /\ queueOf \in [Ports -> Queues] /\ Places \subseteq Nat
    BY DEF ListTypes, Places
  <2>2. place \in Nat /\ Rank(queueOf, p) < cursor[queueOf[p]]
    BY TakeIs, <2>1 DEF ListOrder
  <2>3. queueOf[p] \in Used(queueOf) /\ Size(queueOf[p]) \in Nat
    BY <2>1, BucketsInOrder DEF Used
  <2>4. Rank(queueOf, p) \in Nat
    BY <2>1, <2>3, BucketsInOrder
  <2> QED BY <2>1, <2>2, <2>3, <2>4
<1>2. PICK n \in Places : QueueAt(n) = queueOf[p]
  BY <1>1, QueuesInOrder
<1>3. /\ cursor[queueOf[p]] \in Nat /\ cursor[q] \in Nat
      /\ cursor[queueOf[p]] <= Given(r, n)
  BY <1>1, <1>2, TakeIs DEF ListTypes, GivenEvenly
<1>4. Rank(queueOf, Taken) = r /\ queueOf[Taken] = q
  <2>1. place \in Places /\ cursor[q] < Size(q) /\ Rank(queueOf, Taken) = cursor[q]
        /\ queueOf[Taken] = q
    <3>1. Size(q) \in Nat /\ cursor[q] \in 0 .. Size(q) - 1
      BY <1>1, TakeIs, BucketsInOrder
    <3>2. place \in Places /\ Rank(queueOf, Taken) = cursor[q] /\ queueOf[Taken] = q
      BY TakeIs
    <3> QED BY <3>1, <3>2
  <2>2. Given(r, place) = r
    BY <1>1 DEF Given
  <2>3. cursor[q] = r
    BY <1>1, <1>3, <2>1, <2>2, BucketsInOrder DEF GivenEvenly
  <2> QED BY <2>1, <2>3
<1> HIDE DEF p, q
<1>5. CASE n < place
  <2>1. Rank(queueOf, p) <= r
    BY <1>1, <1>3, <1>5 DEF Given
  <2>2. queueOf[p] < q
    BY <1>1, <1>2, <1>5, QueuesInOrder, TakeIs DEF q
  <2> QED BY <1>1, <1>4, <2>1, <2>2 DEF Precedes, p
<1>6. CASE ~(n < place)
  <2>1. Rank(queueOf, p) < r
    BY <1>1, <1>3, <1>6 DEF Given
  <2> QED BY <1>4, <2>1 DEF Precedes, p
<1> QED BY <1>5, <1>6

LEMMA NextListOrder ==
  ASSUME ListTypes, NEW r \in Nat, GivenEvenly(r), ListOrder, [ListNext]_listVars
  PROVE  ListOrder'
<1>1. CASE TakePort
  <2> DEFINE L == Len(ports)
             q == QueueAt(place)
             c == cursor[q]
             p == Taken
  <2>1. /\ L \in Nat /\ Len(ports') = L + 1
        /\ \A i \in 1 .. L : ports'[i] = ports[i] /\ ports[i] \in Ports
        /\ ports'[L + 1] = p
    BY <1>1, TakeGives
  <2>2. /\ queueOf \in [Ports -> Queues] /\ queueOf' = queueOf
        /\ p \in Ports /\ queueOf[p] = q /\ Rank(queueOf, p) = c /\ c \in Nat
        /\ \A u \in Used(queueOf) : cursor[u] \in Nat
             /\ cursor'[u] = IF u = q THEN c + 1 ELSE cursor[u]
        /\ \A s \in Ports : queueOf[s] \in Used(queueOf) /\ Rank(queueOf, s) \in Nat
    <3>1. /\ queueOf \in [Ports -> Queues] /\ queueOf' = queueOf
          /\ p \in Ports /\ queueOf[p] = q /\ Rank(queueOf, p) = c
          /\ q \in Used(queueOf)
      BY <1>1, TakeIs DEF ListTypes
    <3>2. \A u \in Used(queueOf) : cursor[u] \in Nat
            /\ cursor'[u] = IF u = q THEN c + 1 ELSE cursor[u]
      BY <1>1, TakeGives DEF ListTypes
    <3>3. \A s \in Ports : queueOf[s] \in Used(queueOf) /\ Rank(queueOf, s) \in Nat
      <4> TAKE s \in Ports
      <4>1. queueOf[s] \in Used(queueOf) /\ Size(queueOf[s]) \in Nat
        BY <3>1, BucketsInOrder DEF Used
      <4> QED BY <3>1, <4>1, BucketsInOrder
    <3>4. c \in Nat
      BY <3>1, <3>2
    <3> QED BY <3>1, <3>2, <3>3, <3>4
  <2>3. \A s \in Ports : queueOf[s] = q /\ Rank(queueOf, s) = c => s = p
    BY <2>2, BucketsInOrder DEF Taken
  <2>4. \A i \in 1 .. L : Precedes(queueOf, ports[i], p)
    BY <1>1, TakenIsLast
  <2>5. \A i, s : Precedes(queueOf', i, s) <=> Precedes(queueOf, i, s)
    BY <2>2
  <2>6. \A s : Rank(queueOf', s) = Rank(queueOf, s)
    BY <2>2
  <2> HIDE DEF L, q, c, p
  <2>7. \A i \in 1 .. L + 1 : i \in 1 .. L \/ i = L + 1
    BY <2>1
  <2>8. \A i \in 1 .. L + 1 : Rank(queueOf, ports'[i]) < cursor'[queueOf[ports'[i]]]
    <3> TAKE i \in 1 .. L + 1
    <3>1. CASE i = L + 1
      BY <2>1, <2>2, <3>1
    <3>2. CASE i \in 1 .. L
      <4>1. ports[i] \in Ports /\ Rank(queueOf, ports[i]) < cursor[queueOf[ports[i]]]
        BY <2>1, <3>2 DEF ListOrder, L
      <4>2. ports'[i] = ports[i]
        BY <2>1, <3>2
      <4>3. /\ queueOf[ports[i]] \in Used(queueOf) /\ Rank(queueOf, ports[i]) \in Nat
            /\ cursor[queueOf[ports[i]]] \in Nat
            /\ cursor'[queueOf[ports[i]]]
                 \in {cursor[queueOf[ports[i]]], cursor[queueOf[ports[i]]] + 1}
        <5> DEFINE u == queueOf[ports[i]]
        <5>1. u \in Used(queueOf) /\ Rank(queueOf, ports[i]) \in Nat
          BY <2>2, <4>1
        <5> HIDE DEF u
        <5>2. cursor[u] \in Nat /\ cursor'[u] = IF u = q THEN c + 1 ELSE cursor[u]
          BY <2>2, <5>1
        <5>3. u = q => c = cursor[u]
          BY DEF c
        <5> QED BY <5>1, <5>2, <5>3 DEF u
      <4>4. Rank(queueOf, ports[i]) < cursor'[queueOf[ports[i]]]
        BY <4>1, <4>3
      <4> QED BY <4>2, <4>4
    <3> QED BY <2>7, <3>1, <3>2
  <2>9. ASSUME NEW s \in Ports, Rank(queueOf, s) < cursor'[queueOf[s]]
        PROVE  \E i \in 1 .. L + 1 : ports'[i] = s
    <3>1. CASE Rank(queueOf, s) < cursor[queueOf[s]]
      <4>1. PICK i \in 1 .. L : ports[i] = s
        BY <3>1 DEF ListOrder, L
      <4>2. i \in 1 .. L + 1 /\ ports'[i] = s
        BY <2>1, <4>1
      <4> QED BY <4>2
    <3>2. CASE ~(Rank(queueOf, s) < cursor[queueOf[s]])
      <4>1. queueOf[s] = q /\ Rank(queueOf, s) = c
        BY <2>2, <2>9, <3>2 DEF c
      <4>2. L + 1 \in 1 .. L + 1 /\ ports'[L + 1] = s
        BY <2>1, <2>3, <4>1
      <4> QED BY <4>2
    <3> QED BY <3>1, <3>2
  <2>10. ASSUME NEW i \in 1 .. L + 1, NEW j \in 1 .. L + 1, i < j
         PROVE  Precedes(queueOf, ports'[i], ports'[j])
    <3>1. i \in 1 .. L
      BY <2>1, <2>10
    <3>2. CASE j = L + 1
      BY <2>1, <2>4, <3>1, <3>2
    <3>3. CASE j \in 1 .. L
      BY <2>1, <2>10, <3>1, <3>3 DEF ListOrder, L
    <3> QED BY <2>7, <3>2, <3>3
  <2> QED BY <2>1, <2>2, <2>5, <2>6, <2>8, <2>9, <2>10 DEF ListOrder
<1>2. CASE SkipEmpty
  BY <1>2 DEF SkipEmpty, ListOrder
<1>3. CASE EndRound
  BY <1>3 DEF EndRound, ListOrder
<1>4. CASE UNCHANGED listVars
  BY <1>4 DEF ListOrder, listVars
<1> QED BY <1>1, <1>2, <1>3, <1>4 DEF ListNext, Finished

LEMMA NextListShares == ListTypes /\ ListShares /\ [ListNext]_listVars => ListShares'
<1> SUFFICES ASSUME ListTypes, ListShares, [ListNext]_listVars PROVE ListShares'
  OBVIOUS
<1>1. CASE TakePort
  <2> DEFINE L == Len(ports)
             q == QueueAt(place)
             At(u) == {i \in DOMAIN ports : queueOf[ports[i]] = u}
             After(u) == {i \in DOMAIN ports' : queueOf[ports'[i]] = u}
  <2>1. /\ L \in Nat /\ DOMAIN ports = 1 .. L /\ DOMAIN ports' = 1 .. L + 1
        /\ \A i \in 1 .. L : ports'[i] = ports[i]
        /\ queueOf[ports'[L + 1]] = q
    BY <1>1, TakeIs, TakeGives
  <2>2. \A u : After(u) = IF u = q THEN At(u) \cup {L + 1} ELSE At(u)
    <3> HIDE DEF L, q
    <3>1. 1 .. L + 1 = 1 .. L \cup {L + 1}
      BY <2>1
    <3> QED BY <2>1, <3>1
  <2>3. \A u : L + 1 \notin At(u) /\ IsFiniteSet(At(u))
    <3> TAKE u
    <3>1. IsFiniteSet(1 .. L) /\ At(u) \in SUBSET (1 .. L) /\ L + 1 \notin 1 .. L
      BY <2>1, FS_Interval
    <3> HIDE DEF At, L
    <3> QED BY <3>1, FS_Subset
  <2>4. \A u : Cardinality(After(u)) = IF u = q THEN Cardinality(At(u)) + 1
                                               ELSE Cardinality(At(u))
    <3> HIDE DEF At, After, L, q
    <3> QED BY <2>2, <2>3, FS_AddElement
  <2>5. \A u : Share(u) = Cardinality(At(u)) /\ Share(u)' = Cardinality(After(u))
    BY <1>1, TakeIs DEF Share
  <2> HIDE DEF At, After
  <2>6. \A u \in Used(queueOf) : cursor'[u] = IF u = q THEN cursor[u] + 1 ELSE cursor[u]
    BY <1>1, TakeIs DEF ListTypes
  <2>7. queueOf' = queueOf
    BY <1>1, TakeIs
  <2> QED BY <2>4, <2>5, <2>6, <2>7 DEF ListShares
<1>2. CASE SkipEmpty
  BY <1>2 DEF SkipEmpty, ListShares, Share
<1>3. CASE EndRound
  BY <1>3 DEF EndRound, ListShares, Share
<1>4. CASE UNCHANGED listVars
  BY <1>4 DEF ListShares, Share, listVars
<1> QED BY <1>1, <1>2, <1>3, <1>4 DEF ListNext, Finished

LEMMA InitListInv == ListInit => ListInv
<1> SUFFICES ASSUME ListInit PROVE ListInv
  OBVIOUS
<1>1. queueOf \in [Ports -> Queues] /\ Cardinality(Used(queueOf)) \in Nat
  BY QueuesInOrder DEF ListInit
<1>2. ListTypes
  <2>1. <<>> \in Seq(Ports) /\ 1 \in 1 .. Cardinality(Used(queueOf)) + 1
    BY <1>1
  <2>2. cursor \in [Used(queueOf) -> Nat]
    BY DEF ListInit
  <2>3. ports \in Seq(Ports) /\ place \in 1 .. Cardinality(Used(queueOf)) + 1
        /\ progress \in BOOLEAN /\ done \in BOOLEAN
    BY <2>1, Zenon DEF ListInit
  <2> QED BY <1>1, <2>2, <2>3 DEF ListTypes
<1>3. \A n \in Places : ~(n < place) /\ cursor[QueueAt(n)] = 0 /\ Size(QueueAt(n)) \in Nat
  BY <1>1, QueuesInOrder, BucketsInOrder DEF ListInit, Places
<1>4. GivenEvenly(0)
  BY <1>3 DEF GivenEvenly, Given
<1>5. Exhausted
  BY <1>3 DEF Exhausted, ListInit
<1>6. ListOrder
  <2>1. \A p \in Ports : cursor[queueOf[p]] = 0 /\ Rank(queueOf, p) \in Nat
    BY <1>1, BucketsInOrder DEF ListInit, Used
  <2> QED BY <2>1 DEF ListOrder, ListInit
<1>7. ListShares
  <2>1. \A q : Share(q) = 0
    BY FS_EmptySet DEF Share, ListInit
  <2> QED BY <2>1 DEF ListShares, ListInit
<1> QED BY <1>2, <1>4, <1>5, <1>6, <1>7 DEF ListInv

(* Both hold of the list as it grows: the cursors are even, and the list  *)
(* has what they say, in order.                                            *)
THEOREM ListInvariant == ListSpec => []ListInv
<1>1. ListInv /\ [ListNext]_listVars => ListInv'
  <2> SUFFICES ASSUME ListInv, [ListNext]_listVars PROVE ListInv'
    OBVIOUS
  <2>1. PICK r \in Nat : GivenEvenly(r)
    BY DEF ListInv
  <2>2. (\E t \in Nat : GivenEvenly(t))'
    BY <2>1, NextRound DEF ListInv
  <2> QED BY <2>1, <2>2, NextListTypes, NextExhausted, NextListOrder, NextListShares
          DEF ListInv
<1> QED BY <1>1, InitListInv, PTL DEF ListSpec

(* However the hash spreads the ports: after any number of ports no queue  *)
(* has two more in the list than one that has ports left.                  *)
THEOREM ListIsSpread == ListSpec => []SpreadEvenly
<1>1. ListInv => SpreadEvenly
  <2> SUFFICES ASSUME ListInv, NEW q \in Used(queueOf), NEW u \in Used(queueOf),
                      Share(q) > Share(u) + 1
               PROVE  Share(u) = Len(Bucket(queueOf, u))
    BY DEF SpreadEvenly
  <2>1. PICK r \in Nat : GivenEvenly(r)
    BY DEF ListInv
  <2>2. PICK m \in Places, n \in Places : QueueAt(m) = q /\ QueueAt(n) = u
    BY QueuesInOrder DEF ListInv, ListTypes
  <2>3. /\ cursor[q] \in Nat /\ cursor[u] \in Nat /\ cursor[q] > cursor[u] + 1
        /\ Share(u) = cursor[u] /\ Len(Bucket(queueOf, u)) = Size(u)
    BY BucketsInOrder DEF ListInv, ListTypes, ListShares
  <2>4. cursor[q] <= r + 1
    BY <2>1, <2>2, <2>3 DEF GivenEvenly, Given
  <2>5. cursor[u] < r
    BY <2>3, <2>4
  <2>6. cursor[u] = Size(u)
    BY <2>1, <2>2, <2>3, <2>5 DEF GivenEvenly, Given
  <2> QED BY <2>3, <2>6
<1> QED BY <1>1, ListInvariant, PTL

(* However the hash spreads the ports: the loop leaves none out, and ends  *)
(* with the order by place in the bucket and queue.                        *)
THEOREM ListEndsBalanced == ListSpec => []ListIsBalanced
<1>1. ListInv => ListIsBalanced
  <2> SUFFICES ASSUME ListInv, done PROVE ListIsBalanced
    BY DEF ListIsBalanced
  <2>1. ports \in Seq(Ports) /\ DOMAIN ports = 1 .. Len(ports)
    BY DEF ListInv, ListTypes
  <2>2. ASSUME NEW p \in Ports PROVE \E i \in 1 .. Len(ports) : ports[i] = p
    <3>1. queueOf[p] \in Used(queueOf) /\ queueOf \in [Ports -> Queues]
      BY DEF ListInv, ListTypes, Used
    <3>2. PICK n \in Places : QueueAt(n) = queueOf[p]
      BY <3>1, QueuesInOrder
    <3>3. cursor[queueOf[p]] = Size(queueOf[p])
      BY <3>2 DEF ListInv, Exhausted
    <3>4. Rank(queueOf, p) < cursor[queueOf[p]]
      BY <3>1, <3>3, BucketsInOrder
    <3> QED BY <3>4 DEF ListInv, ListOrder
  <2>3. \A i \in 1 .. Len(ports) : ports[i] \in Ports
    BY <2>1
  <2> QED BY <2>1, <2>2, <2>3 DEF ListIsBalanced, ListInv, ListOrder
<1> QED BY <1>1, ListInvariant, PTL

-----------------------------------------------------------------------------
(***************************************************************************)
(* The ports of connections.  Until some task has come round the list,     *)
(* every connection is bound to the port assigned to it: no two tasks, and *)
(* no two connections of one task, are ever assigned the same port.        *)
(***************************************************************************)
USE PortsAssumption DEF PortsAssumption, Tasks, Indices

(* One reconnect moves a task past all tasks.                              *)
LEMMA StepLeaps == Step \in Nat \ {0} /\ Step >= Total
<1>1. CASE WithRss
  <2> DEFINE x == Total + Stride - 1
             q == x \div Stride
             r == x % Stride
  <2>1. Stride \in Nat \ {0} /\ x \in Nat
    BY <1>1 DEF WithRss
  <2>2. q \in Int /\ r \in 0 .. Stride - 1 /\ x = Stride * q + r
    BY <2>1
  <2>3. Step = q * Stride
    BY <1>1 DEF Step, TasksPerQueue
  <2> HIDE DEF q, r
  <2>4. q * Stride = Stride * q /\ Stride * q \in Int
    BY <2>1, <2>2
  <2>5. Stride * q >= Total
    BY <2>1, <2>2, <2>4
  <2> QED BY <2>3, <2>4, <2>5
<1>2. CASE ~WithRss
  BY <1>2 DEF Step
<1> QED BY <1>1, <1>2

(* A task has not come round the list with its connection e.               *)
Fits(e) == (e + 1) * Step <= Entries

(* A number below the modulus is its own remainder.                        *)
LEMMA ModSmall ==
  ASSUME NEW n \in Nat \ {0}, NEW x \in 0 .. n - 1
  PROVE  x % n = x
OBVIOUS

LEMMA PrimaryIs ==
  ASSUME NEW t \in Tasks, NEW e \in Nat, Fits(e)
  PROVE  Primary(t, e) = t + e * Step /\ Primary(t, e) \in Indices
<1>1. e * Step \in Nat /\ (e + 1) * Step = e * Step + Step
  BY StepLeaps
<1>2. t + e * Step \in 0 .. Entries - 1 /\ Entries \in Nat \ {0}
  BY <1>1, StepLeaps DEF Fits
<1>3. (t + e * Step) % Entries = t + e * Step
  BY <1>2, ModSmall
<1>4. 0 * Stride = 0 /\ t + e * Step + 0 = t + e * Step
  BY <1>1
<1>5. Primary(t, e) = t + e * Step
  BY <1>2, <1>3, <1>4 DEF Primary, Candidate
<1> QED BY <1>2, <1>5

(* Different tasks, and different connections, are assigned different      *)
(* ports.                                                                  *)
LEMMA PrimaryUnique ==
  ASSUME NEW t \in Tasks, NEW e \in Nat, NEW u \in Tasks, NEW f \in Nat,
         Fits(e), Fits(f), Primary(t, e) = Primary(u, f)
  PROVE  t = u /\ e = f
<1>1. t + e * Step = u + f * Step
  BY PrimaryIs
<1>2. Step * e + t = Step * f + u
  BY <1>1, StepLeaps
<1>3. t \in 0 .. Step - 1 /\ u \in 0 .. Step - 1
  BY StepLeaps
<1>4. t = u
  BY <1>2, <1>3, StepLeaps, DivModUnique
<1>5. Step * (e - f) = 0
  BY <1>2, <1>4, StepLeaps
<1>6. e - f \in Int /\ Step > 0
  BY StepLeaps
<1>7. e = f
  BY <1>5, <1>6, StepLeaps
<1> QED BY <1>4, <1>7
-----------------------------------------------------------------------------
(* What is not wrapped was not wrapped before, and all connections fit.    *)
LEMMA AllFit ==
  ASSUME TypeOK, ~Wrapped, NEW t \in Tasks, NEW e \in Nat, e < gen[t]
  PROVE  Fits(e)
<1>1. gen[t] \in Nat /\ gen[t] * Step <= Entries
  BY StepLeaps DEF Wrapped, TypeOK
<1>2. PICK d \in Nat : gen[t] = e + 1 + d
  <2>1. gen[t] - e - 1 \in Nat /\ gen[t] = e + 1 + (gen[t] - e - 1)
    BY <1>1
  <2> QED BY <2>1
<1>3. gen[t] * Step = (e + 1) * Step + d * Step /\ d * Step \in Nat
      /\ (e + 1) * Step \in Nat
  BY <1>2, StepLeaps
<1> QED BY <1>1, <1>3, StepLeaps DEF Fits

(* The first candidate is listed.                                          *)
LEMMA FirstListed ==
  ASSUME NEW g \in Tasks, NEW e \in Nat
  PROVE  0 \in Listed(g, e) /\ Tries \in Nat \ {0}
<1>1. Tries \in Nat \ {0}
  BY DEF Tries
<1> QED BY <1>1 DEF Listed

(* Every candidate is a port of the list.                                  *)
LEMMA CandidateInList ==
  ASSUME NEW g \in Tasks, NEW e \in Nat, NEW c \in Nat
  PROVE  Candidate(g, e, c) \in Indices
<1>1. Entries \in Nat \ {0} /\ g \in Nat /\ e * Step \in Nat /\ c * Stride \in Nat
  BY StepLeaps
<1>2. \A x \in Nat : x % Entries \in 0 .. Entries - 1
  BY <1>1
<1>3. (g + e * Step + c * Stride) % Entries \in Indices
  <2>1. g + e * Step + c * Stride \in Nat
    BY <1>1
  <2> QED BY <1>2, <2>1
<1>4. (((g + e * Step) % Entries) + c) % Entries \in Indices
  <2>1. g + e * Step \in Nat
    BY <1>1
  <2>2. (g + e * Step) % Entries \in Nat
    BY <1>2, <2>1
  <2>3. ((g + e * Step) % Entries) + c \in Nat
    BY <2>2
  <2> QED BY <1>2, <2>3
<1> QED BY <1>3, <1>4 DEF Candidate

LEMMA NextTypeOK == TypeOK /\ Shape /\ [Next]_vars => TypeOK'
<1> SUFFICES ASSUME TypeOK, Shape, [Next]_vars PROVE TypeOK'
  OBVIOUS
<1> USE DEF TypeOK
<1>0. Tries \in Nat /\ 0 \in 0 .. Tries
  BY DEF Tries
<1>1. ASSUME NEW t \in Tasks, Dial(t) PROVE TypeOK'
  BY <1>0, <1>1 DEF Dial
<1>2. ASSUME NEW t \in Tasks, Bind(t) PROVE TypeOK'
  <2>1. gen[t] - 1 \in Nat /\ at[t] \in Nat
    BY <1>0, <1>2 DEF Bind, Shape
  <2>2. Here(t) \in Indices
    BY <2>1, CandidateInList DEF Here
  <2> QED BY <1>2, <2>2 DEF Bind
<1>3. ASSUME NEW t \in Tasks, SkipBusy(t) PROVE TypeOK'
  BY <1>0, <1>3 DEF SkipBusy
<1>4. ASSUME NEW t \in Tasks, GiveUp(t) \/ Connect(t) PROVE TypeOK'
  BY <1>4 DEF GiveUp, Connect
<1>5. ASSUME NEW t \in Tasks, Refuse(t) PROVE TypeOK'
  BY <1>5 DEF Refuse
<1>6. ASSUME NEW t \in Tasks, Close(t) PROVE TypeOK'
  <2>1. port[t] \in Indices
    BY <1>6 DEF Close, Shape
  <2> QED BY <1>6, <2>1 DEF Close
<1>7. ASSUME NEW p \in Indices, TimeWaitEnds(p) PROVE TypeOK'
  BY <1>7 DEF TimeWaitEnds
<1>8. CASE UNCHANGED vars
  BY <1>8 DEF vars
<1> QED
  BY <1>1, <1>2, <1>3, <1>4, <1>5, <1>6, <1>7, <1>8 DEF Next, TaskStep

(* A task that is not idle has a connection number.                        *)
LEMMA Dialled ==
  ASSUME TypeOK, Shape, NEW t \in Tasks, state[t] # "idle"
  PROVE  gen[t] - 1 \in Nat /\ gen[t] - 1 < gen[t]
<1>1. gen[t] \in Nat /\ gen[t] > 0
  BY DEF TypeOK, Shape
<1> QED BY <1>1

LEMMA NextShape == TypeOK /\ Shape /\ [Next]_vars => Shape'
<1> SUFFICES ASSUME TypeOK, Shape, [Next]_vars PROVE Shape'
  OBVIOUS
<1> USE DEF TypeOK, Shape
<1>1. ASSUME NEW t \in Tasks, Dial(t) PROVE Shape'
  BY <1>1 DEF Dial
<1>2. ASSUME NEW t \in Tasks, Bind(t) PROVE Shape'
  <2>1. gen[t] - 1 \in Nat
    BY <1>2, Dialled DEF Bind
  <2>3. at[t] \in Nat
    BY DEF Tries
  <2>2. Here(t) # None
    BY <2>1, <2>3, CandidateInList DEF Here, None
  <2> QED BY <1>2, <2>2 DEF Bind
<1>3. ASSUME NEW t \in Tasks, SkipBusy(t) \/ GiveUp(t) \/ Connect(t) PROVE Shape'
  BY <1>3 DEF SkipBusy, GiveUp, Connect
<1>4. ASSUME NEW t \in Tasks, Refuse(t) \/ Close(t) PROVE Shape'
  BY <1>4 DEF Refuse, Close, None
<1>5. ASSUME NEW p \in Indices, TimeWaitEnds(p) PROVE Shape'
  BY <1>5 DEF TimeWaitEnds
<1>6. CASE UNCHANGED vars
  BY <1>6 DEF vars
<1> QED BY <1>1, <1>2, <1>3, <1>4, <1>5, <1>6 DEF Next, TaskStep

(* Going round the list is for good.                                       *)
LEMMA WrappedStays == TypeOK /\ Wrapped /\ [Next]_vars => Wrapped'
<1> SUFFICES ASSUME TypeOK, Wrapped, [Next]_vars PROVE Wrapped'
  OBVIOUS
<1>1. PICK u \in Tasks : gen[u] * Step > Entries
  BY DEF Wrapped
<1>2. gen'[u] = gen[u] \/ gen'[u] = gen[u] + 1
  BY DEF Next, TaskStep, Dial, Bind, SkipBusy, GiveUp, Connect, Refuse, Close,
         TimeWaitEnds, vars, TypeOK
<1>3. gen[u] \in Nat /\ gen[u] * Step \in Nat
      /\ (gen[u] + 1) * Step = gen[u] * Step + Step
  BY StepLeaps DEF TypeOK
<1>4. gen'[u] * Step > Entries
  BY <1>1, <1>2, <1>3, StepLeaps
<1> QED BY <1>4 DEF Wrapped

(* The port a task is assigned is free: whoever holds another one was      *)
(* assigned it, and so was what is in TIME_WAIT.                           *)
LEMMA PrimaryFree ==
  ASSUME TypeOK, Shape, Assigned, ~Wrapped,
         NEW t \in Tasks, state[t] = "trying"
  PROVE  ~Busy(Primary(t, gen[t] - 1))
<1>1. gen[t] - 1 \in Nat /\ gen[t] - 1 < gen[t] /\ port[t] = None
  BY Dialled DEF Shape
<1>2. Fits(gen[t] - 1)
  BY <1>1, AllFit
<1>3. ASSUME NEW u \in Tasks, port[u] = Primary(t, gen[t] - 1) PROVE FALSE
  <2>1. port[u] # None
    BY <1>1, <1>2, <1>3, PrimaryIs DEF None
  <2>2. gen[u] - 1 \in Nat /\ gen[u] - 1 < gen[u]
    <3>1. state[u] # "idle"
      BY <2>1 DEF Shape
    <3> QED BY <3>1, Dialled
  <2>5. port[u] = Primary(u, gen[u] - 1)
    BY <2>1 DEF Assigned
  <2>3. Fits(gen[u] - 1)
    BY <2>2, AllFit
  <2>4. u = t
    BY <1>1, <1>2, <1>3, <2>2, <2>3, <2>5, PrimaryUnique
  <2> QED BY <1>1, <2>1, <2>4
<1>4. ASSUME Primary(t, gen[t] - 1) \in timeWait PROVE FALSE
  <2>1. PICK u \in Tasks, e \in Nat :
          /\ Primary(t, gen[t] - 1) = Primary(u, e) /\ e < gen[u]
          /\ state[u] # "idle" => e < gen[u] - 1
    BY <1>4 DEF Assigned, Past
  <2>2. Fits(e)
    BY <2>1, AllFit
  <2>3. u = t /\ e = gen[t] - 1
    BY <1>1, <1>2, <2>1, <2>2, PrimaryUnique
  <2> QED BY <1>1, <2>1, <2>3
<1> QED BY <1>3, <1>4 DEF Busy

(* Generations only grow, and a task that is busy again has a new one: a   *)
(* port assigned to a past connection stays so.                            *)
LEMMA PastStays ==
  ASSUME TypeOK, Shape, [Next]_vars, NEW p, Past(p)
  PROVE  Past(p)'
<1>1. PICK u \in Tasks, e \in Nat :
        /\ p = Primary(u, e) /\ e < gen[u]
        /\ state[u] # "idle" => e < gen[u] - 1
  BY DEF Past
<1> DEFINE Onward ==
      \/ gen'[u] = gen[u] /\ (state[u] = "idle" => state'[u] = "idle")
      \/ gen'[u] = gen[u] + 1
<1>2. Onward
  <2>1. ASSUME NEW t \in Tasks, Dial(t) \/ Bind(t) PROVE Onward
    BY <2>1, SMTT(30) DEF Dial, Bind, TypeOK
  <2>2. ASSUME NEW t \in Tasks, SkipBusy(t) \/ GiveUp(t) PROVE Onward
    BY <2>2 DEF SkipBusy, GiveUp, TypeOK
  <2>3. ASSUME NEW t \in Tasks, Connect(t) \/ Refuse(t) \/ Close(t)
        PROVE  Onward
    BY <2>3 DEF Connect, Refuse, Close, TypeOK
  <2>4. CASE \E q \in Indices : TimeWaitEnds(q)
    BY <2>4 DEF TimeWaitEnds
  <2>5. CASE UNCHANGED vars
    BY <2>5 DEF vars
  <2> QED BY <2>1, <2>2, <2>3, <2>4, <2>5 DEF Next, TaskStep
<1>3. e < gen'[u] /\ (state'[u] # "idle" => e < gen'[u] - 1)
  BY <1>1, <1>2 DEF TypeOK
<1> QED BY <1>1, <1>3 DEF Past, Primary, Candidate

LEMMA NextAssigned ==
  TypeOK /\ Shape /\ Assigned /\ ~Wrapped /\ [Next]_vars => Assigned'
<1> SUFFICES ASSUME TypeOK, Shape, Assigned, ~Wrapped, [Next]_vars
             PROVE  Assigned'
  OBVIOUS
<1> DEFINE Own(t) == /\ port[t] # None => port[t] = Primary(t, gen[t] - 1)
                     /\ state[t] = "trying" => at[t] = 0
<1>a. \A t \in Tasks : Own(t)
  BY DEF Assigned
<1>b. \A t \in Tasks, e \in Nat : Candidate(t, e, 0) = Primary(t, e)
  BY DEF Primary
<1>1. ASSUME NEW u \in Tasks, Dial(u) PROVE Assigned'
  <2>1. \A t \in Tasks : Own(t)'
    <3> SUFFICES ASSUME NEW t \in Tasks PROVE Own(t)'
      OBVIOUS
    <3>1. CASE t = u
      <4>1. port[t] = None
        BY <1>1, <3>1 DEF Dial, Shape
      <4> QED BY <1>1, <3>1, <4>1 DEF Dial, TypeOK
    <3>2. CASE t # u
      BY <1>1, <1>a, <3>2 DEF Dial, TypeOK, Primary, Candidate
    <3> QED BY <3>1, <3>2
  <2>2. \A p \in timeWait' : Past(p)'
    BY <1>1, PastStays DEF Dial, Assigned
  <2> QED BY <2>1, <2>2 DEF Assigned
<1>2. ASSUME NEW u \in Tasks, Bind(u) PROVE Assigned'
  <2>1. Here(u) = Primary(u, gen[u] - 1)
    BY <1>2, <1>a DEF Bind, Here, Primary
  <2>2. \A t \in Tasks : Own(t)'
    BY <1>2, <1>a, <2>1 DEF Bind, TypeOK, Primary, Candidate
  <2>3. \A p \in timeWait' : Past(p)'
    BY <1>2, PastStays DEF Bind, Assigned
  <2> QED BY <2>2, <2>3 DEF Assigned
<1>3. ASSUME NEW u \in Tasks, SkipBusy(u) PROVE Assigned'
  <2>1. state[u] = "trying" /\ at[u] = 0 /\ (0 \in Offer(u) => Busy(Here(u)))
    BY <1>3, <1>a DEF SkipBusy
  <2>2. gen[u] - 1 \in Nat /\ 0 \in Offer(u)
    BY <2>1, Dialled, FirstListed DEF Offer
  <2>3. Here(u) = Primary(u, gen[u] - 1)
    BY <2>1 DEF Here, Primary
  <2> QED BY <2>1, <2>2, <2>3, PrimaryFree
<1>4. ASSUME NEW u \in Tasks, GiveUp(u) PROVE Assigned'
  BY <1>4, <1>a, FirstListed DEF GiveUp, Tries
<1>5. ASSUME NEW u \in Tasks, Connect(u) PROVE Assigned'
  <2>1. \A t \in Tasks : Own(t)'
    BY <1>5, <1>a DEF Connect, TypeOK, Primary, Candidate
  <2>2. \A p \in timeWait' : Past(p)'
    BY <1>5, PastStays DEF Connect, Assigned
  <2> QED BY <2>1, <2>2 DEF Assigned
<1>6. ASSUME NEW u \in Tasks, Refuse(u) PROVE Assigned'
  <2>1. \A t \in Tasks : Own(t)'
    BY <1>6, <1>a DEF Refuse, TypeOK, Primary, Candidate
  <2>2. \A p \in timeWait' : Past(p)'
    BY <1>6, PastStays DEF Refuse, Assigned
  <2> QED BY <2>1, <2>2 DEF Assigned
<1>7. ASSUME NEW u \in Tasks, Close(u) PROVE Assigned'
  <2>1. \A t \in Tasks : Own(t)'
    BY <1>7, <1>a DEF Close, TypeOK, Primary, Candidate
  <2>2. \A p \in timeWait : Past(p)'
    BY PastStays DEF Assigned
  <2>3. ASSUME NEW p, p = port[u] PROVE Past(p)'
    <3>1. port[u] # None /\ state[u] # "idle"
      BY <1>7 DEF Close, Shape
    <3>2. gen[u] - 1 \in Nat /\ gen[u] - 1 < gen[u]
      BY <3>1, Dialled
    <3>3. port[u] = Primary(u, gen[u] - 1)
      BY <3>1, <1>a
    <3>4. gen' = gen /\ state'[u] = "idle"
      BY <1>7 DEF Close, TypeOK
    <3> QED BY <2>3, <3>2, <3>3, <3>4 DEF Past, Primary, Candidate
  <2>4. timeWait' \subseteq timeWait \cup {port[u]}
    BY <1>7 DEF Close
  <2>5. \A p \in timeWait' : Past(p)'
    BY <2>2, <2>3, <2>4
  <2> QED BY <2>1, <2>5 DEF Assigned
<1>8. ASSUME NEW p \in Indices, TimeWaitEnds(p) PROVE Assigned'
  <2>1. \A t \in Tasks : Own(t)'
    BY <1>8, <1>a DEF TimeWaitEnds, Primary, Candidate
  <2>2. \A r \in timeWait' : Past(r)'
    BY <1>8, PastStays DEF TimeWaitEnds, Assigned
  <2> QED BY <2>1, <2>2 DEF Assigned
<1>9. CASE UNCHANGED vars
  BY <1>9 DEF vars, Assigned, Past, Primary, Candidate
<1> QED
  BY <1>1, <1>2, <1>3, <1>4, <1>5, <1>6, <1>7, <1>8, <1>9 DEF Next, TaskStep

LEMMA InitIInv == Init => IInv
<1> SUFFICES ASSUME Init PROVE IInv
  OBVIOUS
<1>1. TypeOK
  BY FirstListed, StepLeaps DEF Init, TypeOK, Tries
<1>2. Shape /\ Assigned
  BY DEF Init, Shape, Assigned, None
<1> QED BY <1>1, <1>2 DEF IInv

LEMMA NextIInv == IInv /\ [Next]_vars => IInv'
BY NextTypeOK, NextShape, NextAssigned, WrappedStays DEF IInv

LEMMA Invariance == Spec => []IInv
BY InitIInv, NextIInv, PTL DEF Spec

(* Every variable of the pool keeps its type; a port is one of the list.   *)
THEOREM TypeCorrect == Spec => []TypeOK
<1>1. IInv => TypeOK
  BY DEF IInv
<1> QED BY <1>1, Invariance, PTL

(* Until a task comes round the list, every connection is bound to the     *)
(* port assigned to it at the first try, whatever the others do.           *)
THEOREM OwnPortIsUsed == Spec => []OwnPort
<1>1. IInv => OwnPort
  BY PrimaryFree DEF IInv, Assigned, OwnPort
<1> QED BY <1>1, Invariance, PTL
-----------------------------------------------------------------------------
(* A remainder does not change when multiples of the modulus are left out  *)
(* first, ...                                                              *)
LEMMA ModAdd ==
  ASSUME NEW n \in Nat \ {0}, NEW x \in Nat, NEW y \in Nat
  PROVE  ((x % n) + y) % n = (x + y) % n
<1> DEFINE q == x \div n
           r == x % n
<1>1. q \in Nat /\ r \in 0 .. n - 1 /\ x = n * q + r
  OBVIOUS
<1> HIDE DEF q, r
<1> DEFINE z  == r + y
           q2 == z \div n
           r2 == z % n
<1>2. z \in Nat
  BY <1>1
<1>3. q2 \in Nat /\ r2 \in 0 .. n - 1 /\ z = n * q2 + r2
  <2> HIDE DEF z
  <2> QED BY <1>2
<1> DEFINE w  == x + y
           q3 == w \div n
           r3 == w % n
<1>4. w \in Nat
  OBVIOUS
<1>5. q3 \in Nat /\ r3 \in 0 .. n - 1 /\ w = n * q3 + r3
  <2> HIDE DEF w
  <2> QED BY <1>4
<1>6. w = n * q + z
  BY <1>1
<1> HIDE DEF q2, r2, q3, r3, z, w
<1> DEFINE a == q + q2
<1>7. n * a + r2 = n * q3 + r3 /\ a \in Int /\ q3 \in Int
  <2>1. n * (q + q2) = n * q + n * q2 /\ n * q \in Nat /\ n * q2 \in Nat
    BY <1>1, <1>3
  <2> QED BY <1>1, <1>3, <1>5, <1>6, <2>1
<1> HIDE DEF a
<1>8. r2 = r3
  BY <1>3, <1>5, <1>7, DivModUnique
<1> QED BY <1>8 DEF r2, r3, z, w, r

(* ... or multiples of a multiple of it.                                   *)
Divides(s, n) == \E m \in Nat : n = s * m

Apart(s, x, y) == \E a \in Nat : x = s * a + y

SameRest(s, n, x, y) == (x % n) % s = y % s

LEMMA ModMultiple ==
  ASSUME NEW s \in Nat \ {0}, NEW n \in Nat \ {0}, Divides(s, n),
         NEW x \in Nat, NEW y \in Nat, Apart(s, x, y)
  PROVE  SameRest(s, n, x, y)
<1> DEFINE q  == x \div n
           r  == x % n
           q2 == r \div s
           r2 == r % s
           q3 == y \div s
           r3 == y % s
<1>1. q \in Nat /\ r \in Nat /\ x = n * q + r
  BY DivMod
<1>2. q2 \in Nat /\ r2 \in 0 .. s - 1 /\ r = s * q2 + r2
  <2> HIDE DEF r
  <2> QED BY <1>1, DivMod
<1>3. q3 \in Nat /\ r3 \in 0 .. s - 1 /\ y = s * q3 + r3
  BY DivMod
<1> HIDE DEF q, r, q2, r2, q3, r3
<1>4. PICK m \in Nat : n = s * m
  BY DEF Divides
<1>5. PICK a \in Nat : x = s * a + y
  BY DEF Apart
<1>6. n * q = s * (m * q) /\ m * q \in Nat
  BY <1>1, <1>4
<1> DEFINE u == m * q + q2
           v == a + q3
<1>7. u \in Int /\ v \in Int /\ s * u + r2 = s * v + r3
  <2>1. s * (m * q) + s * q2 + r2 = s * a + s * q3 + r3
    BY <1>1, <1>2, <1>3, <1>5, <1>6
  <2>2. s * (m * q + q2) = s * (m * q) + s * q2 /\ s * (a + q3) = s * a + s * q3
    BY <1>2, <1>3, <1>6
  <2> QED BY <1>2, <1>3, <1>6, <2>1, <2>2
<1> HIDE DEF u, v
<1>8. r2 = r3
  BY <1>2, <1>3, <1>7, DivModUnique
<1> QED BY <1>8 DEF r2, r3, r, SameRest

(* A list that goes round the queues from its first port to its last, as   *)
(* one does whose queues have equally many.                                *)
Alternates ==
  /\ WithRss /\ Divides(Stride, Entries)
  /\ \A i \in Indices : Queue[i] = Queue[i % Stride]

(* All candidates of a task, of all its connections, have the place of the *)
(* task in the order of the queues.                                        *)
LEMMA OneQueue ==
  ASSUME Alternates, NEW t \in Tasks, NEW e \in Nat, NEW j \in Nat
  PROVE  Candidate(t, e, j) % Stride = t % Stride
<1>1. Stride \in Nat \ {0} /\ Entries \in Nat \ {0} /\ t \in Nat
  BY DEF Alternates, WithRss
<1>2. TasksPerQueue \in Nat
  BY <1>1 DEF TasksPerQueue
<1> DEFINE d == TasksPerQueue
           z == e * Step + j * Stride
<1>3. Step = d * Stride
  BY DEF Step, Alternates
<1>4. z \in Nat /\ \E a \in Nat : z = Stride * a
  <2>1. d \in Nat
    BY <1>2
  <2> HIDE DEF d
  <2> DEFINE b == e * d
  <2>2. e * Step = Stride * b /\ j * Stride = Stride * j /\ b \in Nat
    BY <1>1, <1>3, <2>1
  <2> HIDE DEF b
  <2>3. Stride * (b + j) = Stride * b + Stride * j /\ Stride * b \in Nat
        /\ Stride * j \in Nat /\ b + j \in Nat
    BY <1>1, <2>2
  <2>4. z = Stride * (b + j) /\ z \in Nat
    BY <2>2, <2>3
  <2> QED BY <2>3, <2>4
<1> DEFINE x == z + t
<1>5. Candidate(t, e, j) = x % Entries
  <2>1. e * Step \in Nat /\ j * Stride \in Nat
    BY <1>1, StepLeaps
  <2>2. t + e * Step + j * Stride = x
    BY <1>1, <2>1
  <2> HIDE DEF x
  <2> QED BY <2>2 DEF Candidate, Alternates
<1> HIDE DEF z
<1>6. x \in Nat /\ Apart(Stride, x, t)
  BY <1>1, <1>4 DEF Apart
<1> HIDE DEF x
<1>7. SameRest(Stride, Entries, x, t)
  BY <1>1, <1>6, ModMultiple DEF Alternates
<1> QED BY <1>5, <1>7 DEF SameRest

Placed == \A t \in Tasks : port[t] # None => port[t] % Stride = t % Stride

LEMMA NextPlaced ==
  ASSUME Alternates PROVE IInv /\ Placed /\ [Next]_vars => Placed'
<1> SUFFICES ASSUME IInv, Placed, [Next]_vars PROVE Placed'
  OBVIOUS
<1> USE DEF Placed
<1>t. TypeOK /\ Shape
  BY DEF IInv
<1>1. ASSUME NEW t \in Tasks, Bind(t) PROVE Placed'
  <2>1. gen[t] - 1 \in Nat /\ at[t] \in Nat
    <3>1. state[t] # "idle"
      BY <1>1 DEF Bind
    <3>2. gen[t] - 1 \in Nat
      BY <1>t, <3>1, Dialled
    <3>3. at[t] \in 0 .. Tries /\ Tries \in Nat
      BY <1>t DEF TypeOK, Tries
    <3> QED BY <3>2, <3>3
  <2>2. Here(t) % Stride = t % Stride
    BY <2>1, OneQueue DEF Here
  <2> QED BY <1>t, <1>1, <2>2 DEF Bind, TypeOK
<1>2. ASSUME NEW t \in Tasks, Refuse(t) \/ Close(t) PROVE Placed'
  BY <1>t, <1>2 DEF Refuse, Close, TypeOK
<1>3. ASSUME port' = port PROVE Placed'
  BY <1>3
<1> QED BY <1>1, <1>2, <1>3 DEF Next, TaskStep, Dial, SkipBusy, GiveUp, Connect,
                              TimeWaitEnds, vars

(* On such a list a task keeps the server queue of its first port, through *)
(* every reconnect and whichever candidates are busy.                      *)
THEOREM QueueIsKept ==
  ASSUME Alternates PROVE Spec => []Sticky
<1>1. Init => Placed
  BY DEF Init, Placed
<1>2. IInv /\ Placed => Sticky
  <2> SUFFICES ASSUME IInv, Placed, NEW t \in Tasks, port[t] # None
               PROVE  Queue[port[t]] = Queue[Primary(t, 0)]
    BY DEF Sticky
  <2>1. port[t] \in Indices /\ Primary(t, 0) \in Indices
    BY CandidateInList DEF IInv, TypeOK, Primary
  <2>2. port[t] % Stride = t % Stride /\ Primary(t, 0) % Stride = t % Stride
    BY OneQueue DEF Placed, Primary
  <2>3. \A i \in Indices : Queue[i] = Queue[i % Stride]
    BY DEF Alternates
  <2> HIDE DEF Indices
  <2> QED BY <2>1, <2>2, <2>3
<1>3. IInv /\ Placed /\ [Next]_vars => Placed'
  BY NextPlaced
<1> QED BY <1>1, <1>2, <1>3, Invariance, PTL DEF Spec
-----------------------------------------------------------------------------
(* The loop that lists the candidates of one connection.                   *)
Considered == {Candidate(task, connection, j) : j \in 0 .. k - 1}
Listing    == {out[i] : i \in 1 .. Len(out)}

(* The list holds what was considered, each port once.                     *)
OfferInv ==
  /\ task \in Tasks /\ connection \in Nat /\ k \in 0 .. Tries
  /\ out \in Seq(Indices) /\ Listing = Considered
  /\ \A i, j \in 1 .. Len(out) : out[i] = out[j] => i = j
  /\ k > 0 => Len(out) > 0 /\ out[1] = Primary(task, connection)

(* Without RSS the candidates are neighbours, and fewer than the list has. *)
LEMMA Neighbours ==
  ASSUME ~WithRss, NEW g \in Tasks, NEW e \in Nat, NEW j \in Nat, NEW n \in Nat,
         j < n, n < Tries
  PROVE  Candidate(g, e, j) # Candidate(g, e, n)
<1> DEFINE x == (g + e * Step) % Entries
<1>1. Entries \in Nat \ {0} /\ n < Entries
  BY DEF Tries
<1>2. x \in Nat
  <2> DEFINE y == g + e * Step
  <2>1. y \in Nat
    BY StepLeaps
  <2>2. y % Entries \in Nat
    <3> HIDE DEF y
    <3> QED BY <1>1, <2>1
  <2> QED BY <2>2
<1>3. Candidate(g, e, j) = (x + j) % Entries /\ Candidate(g, e, n) = (x + n) % Entries
  BY DEF Candidate
<1> HIDE DEF x
<1> SUFFICES ASSUME (x + j) % Entries = (x + n) % Entries PROVE FALSE
  BY <1>3
<1> DEFINE a == x + j
           b == x + n
           p == a \div Entries
           q == b \div Entries
           r == a % Entries
<1>4. a \in Nat /\ b \in Nat
  BY <1>2
<1>5. p \in Nat /\ q \in Nat /\ r \in Nat /\ a = Entries * p + r /\ b = Entries * q + r
  <2>1. a % Entries = b % Entries
    OBVIOUS
  <2> HIDE DEF a, b
  <2> QED BY <1>1, <1>4, <2>1
<1> HIDE DEF p, q, r
<1> DEFINE d == q - p
           m == n - j
<1>6. m \in 1 .. Entries - 1 /\ d \in Int
  BY <1>1, <1>5
<1>7. m = b - a
  BY <1>2
<1> HIDE DEF a, b
<1>8. Entries * d = Entries * q - Entries * p
  BY <1>1, <1>5
<1>9. Entries * d + 0 = Entries * 0 + m
  <2>1. Entries * q \in Int /\ Entries * p \in Int /\ Entries * 0 = 0
    BY <1>1, <1>5
  <2> HIDE DEF m, d
  <2> QED BY <1>5, <1>6, <1>7, <1>8, <2>1
<1> HIDE DEF m, d
<1>10. 0 \in 0 .. Entries - 1 /\ m \in 0 .. Entries - 1 /\ 0 \in Int
  BY <1>1, <1>6
<1>11. 0 = m
  BY <1>1, <1>6, <1>9, <1>10, DivModUnique
<1> QED BY <1>6, <1>11

LEMMA NextOfferInv == OfferInv /\ [OfferNext]_offerVars => OfferInv'
<1> SUFFICES ASSUME OfferInv, [OfferNext]_offerVars PROVE OfferInv'
  OBVIOUS
<1> USE DEF OfferInv
<1> DEFINE c == Candidate(task, connection, k)
<1>1. Tries \in Nat \ {0} /\ k \in Nat /\ Len(out) \in Nat
  BY DEF Tries
<1>2. c \in Indices
  BY <1>1, CandidateInList
<1>3. NextPort = c /\ (Seen <=> c \in Listing)
  BY DEF NextPort, Seen, Listing
<1>4. ASSUME k' = k + 1, UNCHANGED <<task, connection>>
      PROVE  Considered' = Considered \cup {c}
  <2>1. 0 .. k' - 1 = (0 .. k - 1) \cup {k}
    BY <1>1, <1>4
  <2> DEFINE F(j) == Candidate(task, connection, j)
  <2>2. Considered' = {F(j) : j \in 0 .. k' - 1} /\ Considered = {F(j) : j \in 0 .. k - 1}
        /\ c = F(k)
    BY <1>4 DEF Considered, Candidate
  <2> HIDE DEF F, c
  <2> QED BY <2>1, <2>2
<1>5. CASE Push
  <2>1. k < Tries /\ ~(WithRss /\ c \in Listing) /\ out' = Append(out, c) /\ k' = k + 1
        /\ UNCHANGED <<task, connection>>
    BY <1>3, <1>5 DEF Push
  <2>2. c \notin Listing
    <3>1. CASE WithRss
      BY <2>1, <3>1
    <3>2. CASE ~WithRss
      <4>1. \A j \in 0 .. k - 1 : Candidate(task, connection, j) # c
        BY <1>1, <2>1, <3>2, Neighbours
      <4> QED BY <4>1 DEF Considered
    <3> QED BY <3>1, <3>2
  <2> HIDE DEF c
  <2>3. /\ out' \in Seq(Indices) /\ Len(out') = Len(out) + 1 /\ out'[Len(out) + 1] = c
        /\ \A i \in 1 .. Len(out) : out'[i] = out[i]
    BY <1>2, <2>1
  <2>4. Listing' = Listing \cup {c}
    <3>1. 1 .. Len(out') = (1 .. Len(out)) \cup {Len(out) + 1}
      BY <1>1, <2>3
    <3> DEFINE o == out'
               n == Len(out)
    <3>2. Listing' = {o[i] : i \in (1 .. n) \cup {n + 1}} /\ Listing = {out[i] : i \in 1 .. n}
      BY <3>1 DEF Listing
    <3>3. o[n + 1] = c /\ \A i \in 1 .. n : o[i] = out[i]
      BY <2>3
    <3> HIDE DEF o, n
    <3> DEFINE A == {o[i] : i \in (1 .. n) \cup {n + 1}}
               B == {out[i] : i \in 1 .. n}
    <3>4. A \subseteq B \cup {c}
      BY <3>3
    <3>5. B \subseteq A
      <4> SUFFICES ASSUME NEW i \in 1 .. n PROVE out[i] \in A
        OBVIOUS
      <4>1. out[i] = o[i] /\ i \in (1 .. n) \cup {n + 1}
        BY <3>3
      <4> QED BY <4>1
    <3>6. c \in A
      BY <3>3
    <3> HIDE DEF A, B
    <3>7. A = B \cup {c}
      BY <3>4, <3>5, <3>6
    <3> QED BY <3>2, <3>7 DEF A, B
  <2>5. \A i, j \in 1 .. Len(out') : out'[i] = out'[j] => i = j
    <3>1. \A i \in 1 .. Len(out) : out[i] # c
      BY <2>2 DEF Listing
    <3>2. 1 .. Len(out') = (1 .. Len(out)) \cup {Len(out) + 1}
      BY <1>1, <2>3
    <3> DEFINE o == out'
               n == Len(out)
    <3>3. /\ o[n + 1] = c /\ \A i \in 1 .. n : o[i] = out[i] /\ out[i] # c
          /\ \A i, j \in 1 .. n : out[i] = out[j] => i = j
      BY <2>3, <3>1
    <3> HIDE DEF o, n
    <3>4. \A i, j \in (1 .. n) \cup {n + 1} : o[i] = o[j] => i = j
      BY <3>3
    <3> QED BY <3>2, <3>4 DEF o, n
  <2>6. Len(out') > 0 /\ out'[1] = Primary(task, connection)
    <3>1. CASE k = 0
      <4>1. Listing = {}
        BY <3>1 DEF Considered
      <4>2. Len(out) = 0
        <5>1. Len(out) > 0 => out[1] \in Listing
          BY <1>1 DEF Listing
        <5> QED BY <1>1, <4>1, <5>1
      <4> QED BY <2>3, <3>1, <4>2 DEF c, Primary
    <3>2. CASE k > 0
      BY <1>1, <2>3, <3>2
    <3> QED BY <1>1, <3>1, <3>2
  <2>7. Primary(task, connection)' = Primary(task, connection)
    BY <2>1 DEF Primary, Candidate
  <2>8. k' \in 0 .. Tries
    BY <1>1, <2>1
  <2> QED BY <1>4, <2>1, <2>3, <2>4, <2>5, <2>6, <2>7, <2>8 DEF c
<1>6. CASE SkipSeen
  <2>1. k < Tries /\ c \in Listing /\ k' = k + 1 /\ UNCHANGED <<task, connection, out>>
    BY <1>3, <1>6 DEF SkipSeen
  <2>2. Considered' = Considered
    BY <1>4, <2>1
  <2>3. Len(out) > 0 /\ out[1] = Primary(task, connection)
    <3>1. Considered # {}
      BY <2>1
    <3>2. k # 0
      BY <3>1 DEF Considered
    <3> QED BY <1>1, <3>2
  <2>4. Primary(task, connection)' = Primary(task, connection) /\ Listing' = Listing
    BY <2>1 DEF Primary, Candidate, Listing
  <2> QED BY <1>1, <2>1, <2>2, <2>3, <2>4
<1>7. CASE UNCHANGED <<task, connection, k, out>>
  <2>1. Listing' = Listing
    BY <1>7 DEF Listing
  <2>2. Considered' = Considered
    BY <1>7 DEF Considered, Candidate
  <2>3. Primary(task, connection)' = Primary(task, connection)
    BY <1>7 DEF Primary, Candidate
  <2> QED BY <1>7, <2>1, <2>2, <2>3
<1> QED
  BY <1>5, <1>6, <1>7 DEF OfferNext, offerVars

(* What the loop lists is what can be reached from the task's own port.    *)
LEMMA ReachIs ==
  ASSUME NEW g \in Tasks, NEW e \in Nat, NEW j \in Nat
  PROVE  Candidate(g, e, j)
           = (Primary(g, e) + j * (IF WithRss THEN Stride ELSE 1)) % Entries
<1> DEFINE x == g + e * Step
<1>1. x \in Nat /\ Entries \in Nat \ {0} /\ j * Stride \in Nat
  BY StepLeaps
<1>2. CASE WithRss
  <2> DEFINE y == j * Stride
  <2>1. Candidate(g, e, j) = (x + y) % Entries
    BY <1>1, <1>2 DEF Candidate
  <2>2. Primary(g, e) = x % Entries
    <3>1. x + 0 * Stride = x
      BY <1>1
    <3> QED BY <1>2, <3>1 DEF Primary, Candidate
  <2>3. y \in Nat
    BY <1>1
  <2> HIDE DEF x, y
  <2>4. ((x % Entries) + y) % Entries = (x + y) % Entries
    BY <1>1, <2>3, ModAdd
  <2> QED BY <1>2, <2>1, <2>2, <2>4 DEF y
<1>3. CASE ~WithRss
  <2>1. Primary(g, e) = ((x % Entries) + 0) % Entries
        /\ Candidate(g, e, j) = ((x % Entries) + j) % Entries
    BY <1>3 DEF Primary, Candidate
  <2> HIDE DEF x
  <2>2. x % Entries \in 0 .. Entries - 1
    BY <1>1
  <2> DEFINE r == x % Entries
  <2>3. (r + 0) % Entries = r
    <3>1. r \in 0 .. Entries - 1 /\ r + 0 = r
      BY <2>2
    <3> HIDE DEF r
    <3> QED BY <1>1, <3>1, ModSmall
  <2> QED BY <1>3, <2>1, <2>3
<1> QED BY <1>2, <1>3

(* Whatever the list and the number of candidates: a connection is offered *)
(* different ports of the list, its own first, and all that are to be had. *)
THEOREM OffersAreDifferent ==
  OfferSpec => []OffersDiffer
<1>1. Reconnects \in Nat
  BY OfferAssumption DEF OfferAssumption
<1>2. OfferInit => OfferInv
  <2> SUFFICES ASSUME OfferInit PROVE OfferInv
    OBVIOUS
  <2>1. task \in Tasks /\ connection \in Nat /\ k = 0 /\ out = <<>> /\ Tries \in Nat
    BY <1>1 DEF OfferInit, Tries
  <2>2. Listing = {} /\ Considered = {}
    BY <2>1 DEF Listing, Considered
  <2> QED BY <2>1, <2>2 DEF OfferInv
<1>3. OfferInv => OffersDiffer
  <2> SUFFICES ASSUME OfferInv PROVE OffersDiffer
    OBVIOUS
  <2>1. /\ \A i, j \in 1 .. Len(out) : out[i] = out[j] => i = j
        /\ \A i \in 1 .. Len(out) : out[i] \in Indices
    BY DEF OfferInv
  <2>2. ASSUME k = Tries
        PROVE  out[1] = Primary(task, connection) /\ Listing = Reach
    <3>1. k > 0
      BY <2>2 DEF Tries
    <3>2. \A j \in 0 .. k - 1 :
            Candidate(task, connection, j)
              = (Primary(task, connection) + j * (IF WithRss THEN Stride ELSE 1)) % Entries
      <4> TAKE j \in 0 .. k - 1
      <4>1. j \in Nat /\ task \in Tasks /\ connection \in Nat
        BY <3>1 DEF OfferInv
      <4> QED BY <4>1, ReachIs
    <3>4. Reach = Considered
      <4>1. CASE WithRss
        BY <2>2, <3>2, <4>1 DEF Reach, Considered
      <4>2. CASE ~WithRss
        <5>1. \A j \in 0 .. k - 1 : j * 1 = j
          BY <3>1 DEF OfferInv
        <5> QED BY <2>2, <3>2, <4>2, <5>1 DEF Reach, Considered
      <4> QED BY <4>1, <4>2
    <3> QED BY <3>1, <3>4 DEF OfferInv
  <2> QED BY <2>1, <2>2 DEF OffersDiffer, Listing
<1> QED BY <1>2, <1>3, NextOfferInv, PTL DEF OfferSpec
-----------------------------------------------------------------------------
(***************************************************************************)
(* The options.  Every combination a user may give, not only three at a    *)
(* time as in the run.                                                     *)
(***************************************************************************)
ClientNames ==
  {"auto", "hyper", "hyper-chunked", "hyper-h2", "hyper-mcp", "hyper-legacy",
   "hyper-rt1", "reqwest", "tokio-uring", "monoio", "compio", "help"}

MethodNames == {"none", "GET", "POST", "TRACE", "other"}

NameLists == {"none", "names", "empty", "inverted"}

OptionRecords ==
  [client : ClientNames, method : MethodNames, bodies : Nat, trailers : BOOLEAN,
   mcp : BOOLEAN, cookies : {"none", "missing"}, http2 : BOOLEAN, m : Nat,
   threads : Nat, uris : SUBSET {"http", "https", "bare", "other"},
   host : NameLists, sni : NameLists, absolute : BOOLEAN,
   rpc : {"max", "few", "many"}, tuned : BOOLEAN, addr : BOOLEAN, range : Nat,
   rss : SUBSET {"key", "indir"}, conns : Nat]

(* The checks that follow a check, itself included.                        *)
FromPorts   == {"ports", "accepted"}
FromAuto    == {"auto"} \cup FromPorts
FromThreads == {"threads"} \cup FromAuto
FromHttps   == {"https"} \cup FromThreads
FromSchemes == {"schemes", "names"} \cup FromHttps

NeedsUri == {"auto", "hyper", "hyper-h2", "hyper-legacy", "hyper-rt1", "tokio-uring"}

(* A client that does all that is asked of it.                             *)
Suits(o) ==
  /\ o.client \notin {"auto", "help"}
  /\ \A need \in DOMAIN Capable(o) : o.client \in Capable(o)[need]

OptTypes == asked \in OptionRecords /\ opts \in OptionRecords

(* What is left of auto on its way: trailers have taken it before it is    *)
(* resolved.                                                               *)
AutoInv ==
  asked.client = "auto" =>
    /\ check \in {"method", "mcp", "trailers"} => opts.client = "auto"
    /\ check \in {"cookies", "client", "schemes", "names", "https", "threads", "auto"} =>
         opts.client = IF opts.trailers THEN "hyper-chunked" ELSE "auto"
    /\ check \in FromPorts => Suits(opts)

(* What the checks that are over have established: no later one undoes it. *)
ChecksInv ==
  /\ check \in FromSchemes /\ opts.client \in NeedsUri => opts.uris # {}
  /\ check \in FromHttps => {opts.host, opts.sni} \subseteq {"none", "names"}
  /\ check \in FromThreads /\ opts.sni # "none" => "https" \in opts.uris
  /\ check \in FromAuto /\ opts.m > 0 => opts.threads % opts.m = 0

PortsInv ==
  /\ check # "accepted" => source = "kernel"
  /\ check = "accepted" =>
       /\ source = "range" => opts.range >= opts.conns
       /\ (source # "kernel" \/ opts.addr)
            => opts.rpc = "max" /\ opts.client \notin RawSocket

OptInv == OptTypes /\ AutoInv /\ ChecksInv /\ PortsInv

(* Changing the client, or the method and the bodies, leaves the rest.     *)
LEMMA OtherClient ==
  ASSUME NEW o \in OptionRecords, NEW c \in ClientNames,
         NEW p, p = [o EXCEPT !.client = c]
  PROVE  /\ p \in OptionRecords /\ p.client = c
         /\ p.uris = o.uris /\ p.host = o.host /\ p.sni = o.sni /\ p.m = o.m
         /\ p.threads = o.threads /\ p.trailers = o.trailers /\ p.bodies = o.bodies
         /\ p.mcp = o.mcp /\ p.http2 = o.http2 /\ p.tuned = o.tuned
BY DEF OptionRecords

LEMMA OtherMethod ==
  ASSUME NEW o \in OptionRecords
  PROVE  /\ WithMethod(o) \in OptionRecords /\ WithMethod(o).client = o.client
<1> DEFINE b == IF o.trailers /\ o.bodies = 0 THEN 1 ELSE o.bodies
           e == IF o.method # "none" THEN o.method
                ELSE IF b = 0 THEN "GET" ELSE "POST"
<1>1. b \in Nat /\ e \in MethodNames
  <2>1. o.bodies \in Nat /\ o.method \in MethodNames
    BY DEF OptionRecords
  <2>2. "GET" \in MethodNames /\ "POST" \in MethodNames
    BY DEF MethodNames
  <2>3. b \in Nat
    BY <2>1
  <2> HIDE DEF b
  <2> QED BY <2>1, <2>2, <2>3
<1>2. WithMethod(o) = [o EXCEPT !.bodies = b, !.method = e]
  BY DEF WithMethod, OptionRecords
<1> HIDE DEF b, e
<1> DEFINE p == [o EXCEPT !.bodies = b]
           q == [p EXCEPT !.method = e]
<1>3. p \in OptionRecords /\ p.client = o.client
  BY <1>1 DEF OptionRecords
<1>4. WithMethod(o) = q
  BY <1>2
<1> HIDE DEF p
<1>5. q \in OptionRecords /\ q.client = p.client
  BY <1>1, <1>3 DEF OptionRecords
<1> QED BY <1>3, <1>4, <1>5

(* What auto is resolved to suits, if no trailers are asked for.           *)
LEMMA ResolvedSuits ==
  ASSUME NEW o \in OptionRecords, o.client = "auto", ~o.trailers,
         NEW p \in OptionRecords, p = [o EXCEPT !.client = Resolved(o)]
  PROVE  Suits(p) /\ (p.client \in NeedsUri => p.client = "hyper")
<1>1. Resolved(o) \in {"hyper-mcp", "hyper-chunked", "compio", "hyper"}
  BY DEF Resolved
<1>2. Resolved(o) \in ClientNames
  BY <1>1 DEF ClientNames
<1>3. /\ p.client = Resolved(o) /\ p.uris = o.uris /\ ~p.trailers
      /\ p.bodies = o.bodies /\ p.mcp = o.mcp /\ p.http2 = o.http2
      /\ p.m = o.m /\ p.tuned = o.tuned
  BY <1>2, OtherClient
<1>4. /\ p.client = "hyper-mcp" \/ ~p.mcp
      /\ p.client \in {"hyper-mcp", "hyper-chunked"} \/ ~(p.bodies > 1)
      /\ p.client = "compio" => "https" \notin p.uris /\ ~p.http2 /\ ~(p.m > 1) /\ ~p.tuned
  <2>1. o.bodies \in Nat /\ o.m \in Nat
    BY DEF OptionRecords
  <2> QED BY <1>3, <2>1 DEF Resolved, CanUseCompio
<1>5. \A need \in DOMAIN Capable(p) : p.client \in Capable(p)[need]
  BY <1>1, <1>3, <1>4 DEF Capable, Raw, RawSocket
<1> QED BY <1>1, <1>3, <1>5 DEF Suits, NeedsUri

LEMMA ChunkedSuits ==
  ASSUME NEW o \in OptionRecords, o.client = "hyper-chunked", o.trailers
  PROVE  Suits(o)
BY DEF Suits, Capable, Raw, RawSocket

LEMMA InitOptInv == Asked \subseteq OptionRecords /\ OptInit => OptInv
BY DEF OptInit, OptInv, OptTypes, AutoInv, ChecksInv, PortsInv, FromSchemes, FromHttps,
       FromThreads, FromAuto, FromPorts

LEMMA NextOptInv == OptInv /\ [OptNext]_optVars => OptInv'
<1> SUFFICES ASSUME OptInv, [OptNext]_optVars PROVE OptInv'
  OBVIOUS
<1> USE DEF OptInv, OptTypes
<1> USE DEF FromSchemes, FromHttps, FromThreads, FromAuto, FromPorts
<1>1. CASE CheckMethod
  <2>1. WithMethod(opts) \in OptionRecords /\ WithMethod(opts).client = opts.client
    BY OtherMethod
  <2>2. /\ check = "method" /\ check' \in {"rejected", "mcp"} /\ asked' = asked
        /\ source' = source /\ opts' \in OptionRecords /\ opts'.client = opts.client
    BY <1>1, <2>1 DEF CheckMethod, Check
  <2> QED BY <2>2 DEF AutoInv, ChecksInv, PortsInv
<1>2. CASE CheckMcp \/ CheckCookies \/ CheckClient \/ CheckSchemes \/ CheckNames
           \/ CheckHttps \/ CheckThreads
  <2>1. UNCHANGED <<asked, opts, source>> /\ check # "accepted" /\ check' # "accepted"
    BY <1>2 DEF CheckMcp, CheckCookies, CheckClient, CheckSchemes, CheckNames,
                CheckHttps, CheckThreads, Check
  <2>2. AutoInv'
    BY <1>2, <2>1 DEF CheckMcp, CheckCookies, CheckClient, CheckSchemes, CheckNames,
                CheckHttps, CheckThreads, Check, AutoInv
  <2>3. CASE CheckMcp \/ CheckCookies
    BY <2>1, <2>2, <2>3 DEF CheckMcp, CheckCookies, Check, ChecksInv, PortsInv
  <2>4. CASE CheckClient
    BY <2>1, <2>2, <2>4 DEF CheckClient, Check, Unfit, NeedsUri, ChecksInv, PortsInv
  <2>5. CASE CheckSchemes
    BY <2>1, <2>2, <2>5 DEF CheckSchemes, Check, ChecksInv, PortsInv
  <2>6. CASE CheckNames
    <3>1. opts.host \in NameLists /\ opts.sni \in NameLists
      BY DEF OptionRecords
    <3> QED BY <2>1, <2>2, <2>6, <3>1 DEF CheckNames, Check, BadNames, NameLists,
                                        ChecksInv, PortsInv
  <2>7. CASE CheckHttps
    BY <2>1, <2>2, <2>7 DEF CheckHttps, Check, Https, ChecksInv, PortsInv
  <2>8. CASE CheckThreads
    BY <2>1, <2>2, <2>8 DEF CheckThreads, Check, ChecksInv, PortsInv
  <2> QED BY <1>2, <2>3, <2>4, <2>5, <2>6, <2>7, <2>8
<1>3. CASE CheckTrailers
  <2>1. /\ check = "trailers" /\ check' \in {"rejected", "cookies"} /\ asked' = asked
        /\ source' = source
    BY <1>3 DEF CheckTrailers, Check
  <2>2. CASE opts' = opts /\ ~(opts.trailers /\ opts.client = "auto")
    BY <1>3, <2>1, <2>2 DEF CheckTrailers, Check, AutoInv, ChecksInv, PortsInv
  <2>3. CASE opts' = [opts EXCEPT !.client = "hyper-chunked"] /\ opts.trailers
    <3>0. "hyper-chunked" \in ClientNames
      BY DEF ClientNames
    <3>1. opts' \in OptionRecords /\ opts'.client = "hyper-chunked"
          /\ opts'.trailers = opts.trailers
      <4> DEFINE c == "hyper-chunked"
      <4>1. c \in ClientNames /\ opts' = [opts EXCEPT !.client = c]
        BY <2>3, <3>0
      <4> HIDE DEF c
      <4>2. opts' \in OptionRecords /\ opts'.client = c /\ opts'.trailers = opts.trailers
        BY <4>1, OtherClient
      <4> QED BY <4>2 DEF c
    <3> QED BY <2>1, <2>3, <3>1 DEF AutoInv, ChecksInv, PortsInv
  <2>4. CASE opts' = opts /\ check' = "rejected"
    BY <2>1, <2>4 DEF AutoInv, ChecksInv, PortsInv
  <2> QED BY <1>3, <2>1, <2>2, <2>3, <2>4 DEF CheckTrailers, Check
<1>4. CASE ResolveAuto
  <2>1. /\ check = "auto" /\ check' = "ports" /\ UNCHANGED <<asked, source>>
        /\ opts' = [opts EXCEPT !.client = Resolved(opts)]
    BY <1>4 DEF ResolveAuto, Check
  <2>2. Resolved(opts) \in ClientNames
    BY DEF Resolved, ClientNames, OptionRecords
  <2>3. /\ opts' \in OptionRecords /\ opts'.client = Resolved(opts)
        /\ opts'.uris = opts.uris /\ opts'.host = opts.host /\ opts'.sni = opts.sni
        /\ opts'.m = opts.m /\ opts'.threads = opts.threads
    BY <2>1, <2>2, OtherClient
  <2>4. CASE opts.client # "auto"
    <3>1. opts'.client = opts.client /\ opts' = opts
      BY <2>1, <2>3, <2>4 DEF Resolved, OptionRecords
    <3>2. asked.client = "auto" => Suits(opts)
      BY <2>1, <2>4, ChunkedSuits DEF AutoInv
    <3> QED BY <2>1, <3>1, <3>2 DEF AutoInv, ChecksInv, PortsInv
  <2>5. CASE opts.client = "auto"
    <3>1. opts.uris # {}
      BY <2>1, <2>5 DEF ChecksInv, NeedsUri
    <3>2. asked.client = "auto" => Suits(opts')
      <4> HAVE asked.client = "auto"
      <4>1. ~opts.trailers
        BY <2>1, <2>5 DEF AutoInv
      <4> QED BY <2>1, <2>3, <2>5, <4>1, ResolvedSuits
    <3> QED BY <2>1, <2>3, <3>1, <3>2 DEF AutoInv, ChecksInv, PortsInv
  <2> QED BY <2>4, <2>5
<1>5. CASE InitSourcePorts
  <2>1. /\ check = "ports" /\ check' \in {"accepted", "rejected"} /\ UNCHANGED <<asked, opts>>
    BY <1>5 DEF InitSourcePorts
  <2>2. source = "kernel"
    BY <2>1 DEF PortsInv
  <2>3. PortsInv'
    <3>1. opts.range \in Nat /\ opts.conns \in Nat
      BY DEF OptionRecords
    <3>2. CASE ~Manual /\ ~opts.addr
      BY <1>5, <2>1, <2>2, <3>2 DEF InitSourcePorts, PortsInv
    <3>3. CASE (Manual \/ opts.addr) /\ NoSourcePorts
      BY <1>5, <2>1, <2>2, <3>3 DEF InitSourcePorts, PortsInv
    <3>4. CASE (Manual \/ opts.addr) /\ ~NoSourcePorts
      <4>1. opts.rpc = "max" /\ opts.client \notin RawSocket
        BY <3>4 DEF NoSourcePorts, SupportsSourcePorts, RawSocket
      <4>2. source' = "range" => opts.range >= opts.conns
        BY <1>5, <2>2, <3>1, <3>4 DEF InitSourcePorts, NoSourcePorts, TooFew
      <4>3. check' # "accepted" => source' = "kernel"
        BY <1>5, <2>2, <3>4 DEF InitSourcePorts
      <4> QED BY <2>1, <4>1, <4>2, <4>3 DEF PortsInv
    <3> QED BY <3>2, <3>3, <3>4
  <2>4. AutoInv' /\ ChecksInv'
    BY <2>1 DEF AutoInv, ChecksInv, Suits, Capable
  <2> QED BY <2>1, <2>3, <2>4
<1>6. CASE UNCHANGED optVars
  BY <1>6 DEF optVars, AutoInv, ChecksInv, PortsInv, Suits, Capable
<1> QED BY <1>1, <1>2, <1>3, <1>4, <1>5, <1>6 DEF OptNext

LEMMA OptInvariance ==
  ASSUME Asked \subseteq OptionRecords PROVE OptSpec => []OptInv
<1>1. OptInit => OptInv
  BY InitOptInv
<1> QED BY <1>1, NextOptInv, PTL DEF OptSpec

(* Of whatever options a user gives: when they are accepted and the client *)
(* was left to plumbrs, it picks one that does all they ask for.           *)
THEOREM AutoIsCapable ==
  ASSUME Asked \subseteq OptionRecords PROVE OptSpec => []AutoPicksCapable
<1>1. OptInv => AutoPicksCapable
  BY DEF OptInv, AutoInv, AutoPicksCapable, FromPorts, Suits
<1> QED BY <1>1, OptInvariance, PTL

LEMMA OptInvRuns == OptInv => EngineCanRun
<1> SUFFICES ASSUME OptInv, check = "accepted" PROVE EngineCanRun
  BY DEF EngineCanRun
<1> USE DEF FromSchemes, FromHttps, FromThreads, FromAuto, FromPorts
<1>1. opts.m > 0 => \E n \in 0 .. opts.threads : opts.threads = n * opts.m
  <2> HAVE opts.m > 0
  <2>1. opts.m \in Nat \ {0} /\ opts.threads \in Nat /\ opts.threads % opts.m = 0
    BY DEF OptInv, OptTypes, OptionRecords, ChecksInv
  <2> DEFINE d == opts.m
             h == opts.threads
             n == h \div d
  <2>2. n \in Nat /\ h = d * n
    BY <2>1
  <2> HIDE DEF n, d, h
  <2>3. d \in Nat \ {0} /\ h \in Nat
    BY <2>1 DEF d, h
  <2>4. n <= d * n /\ d * n = n * d
    BY <2>2, <2>3
  <2> QED BY <2>2, <2>3, <2>4 DEF d, h
<1>2. opts.sni # "none" => Https /\ opts.sni = "names"
  BY DEF OptInv, ChecksInv, Https
<1>3. opts.host \in {"none", "names"}
  BY DEF OptInv, ChecksInv
<1>4. opts.client \in {"hyper", "hyper-h2", "hyper-legacy", "hyper-rt1", "tokio-uring"}
        => opts.uris # {}
  BY DEF OptInv, ChecksInv, NeedsUri
<1> QED BY <1>1, <1>2, <1>3, <1>4 DEF OptInv, PortsInv, EngineCanRun

(* Of whatever options a user gives: accepted ones meet what the engine,   *)
(* the port list and the clients take for granted.                         *)
THEOREM AcceptedCanRun ==
  ASSUME Asked \subseteq OptionRecords PROVE OptSpec => []EngineCanRun
BY OptInvariance, OptInvRuns, PTL
=============================================================================
