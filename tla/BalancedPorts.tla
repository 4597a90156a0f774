--------------------------- MODULE BalancedPorts ---------------------------
(***************************************************************************)
(* build_balanced_ports (src/rss.rs): the source ports are sorted into one *)
(* bucket per server queue, and the buckets are emptied round-robin, so    *)
(* that every stretch of the list spreads evenly over the queues.  The     *)
(* Toeplitz hash that assigns a port to its queue is any function here.    *)
(*                                                                         *)
(* A definition named ...Mut is a bug one could write in the next one.     *)
(***************************************************************************)
EXTENDS Ordering

CONSTANTS
  Ports,    \* candidate source ports
  Queues    \* queues the indirection table may name

ASSUME BalancedAssumption ==
  Ports \subseteq Nat /\ Queues \subseteq Nat /\ IsFiniteSet(Ports)

VARIABLES
  queueOf,  \* the hash: port -> queue
  ports,    \* the list built so far
  cursor,   \* queue -> entries of its bucket already taken
  place,    \* the place of the inner loop in the order of the queues
  progress, \* a port was taken in this round
  done

listVars == <<queueOf, ports, cursor, place, progress, done>>

Used(h) == {h[p] : p \in Ports}

(* The bucket of a queue, in the order the candidates came. *)
Members(h, q) == {p \in Ports : h[p] = q}
Bucket(h, q)  == Ascending(Members(h, q))

OrderMut(h) == LET s == Ascending(Used(h)) IN [n \in DOMAIN s |-> s[Len(s) - n + 1]]
(* Sorted for determinism. *)
Order(h) == Ascending(Used(h))

ListInit ==
  /\ queueOf \in [Ports -> Queues]
  /\ ports = <<>>
  /\ cursor = [q \in Used(queueOf) |-> 0]
  /\ place = 1
  /\ progress = FALSE /\ done = FALSE

AtQueue == ~done /\ place <= Len(Order(queueOf))

(* The next port of this queue. *)
TakeMut ==
  LET q == Order(queueOf)[place]
  IN  /\ cursor[q] < Len(Bucket(queueOf, q))
      /\ ports' = ports \o Bucket(queueOf, q)
      /\ cursor' = [cursor EXCEPT ![q] = Len(Bucket(queueOf, q))]
      /\ progress' = TRUE
Take ==
  LET q == Order(queueOf)[place]
  IN  /\ cursor[q] < Len(Bucket(queueOf, q))
      /\ ports' = Append(ports, Bucket(queueOf, q)[cursor[q] + 1])
      /\ cursor' = [cursor EXCEPT ![q] = @ + 1]
      /\ progress' = TRUE

NextPlace == place + 1

TakePort ==
  /\ AtQueue /\ Take
  /\ place' = NextPlace
  /\ UNCHANGED <<queueOf, done>>

SkipEmpty ==
  /\ AtQueue
  /\ LET q == Order(queueOf)[place] IN cursor[q] = Len(Bucket(queueOf, q))
  /\ place' = NextPlace
  /\ UNCHANGED <<queueOf, ports, cursor, progress, done>>

(* `if !progress { break }` *)
RoundMore == progress

EndRound ==
  /\ ~done /\ place > Len(Order(queueOf))
  /\ IF RoundMore
     THEN place' = 1 /\ progress' = FALSE /\ done' = FALSE
     ELSE done' = TRUE /\ UNCHANGED <<place, progress>>
  /\ UNCHANGED <<queueOf, ports, cursor>>

Finished == done /\ UNCHANGED listVars

ListNext == TakePort \/ SkipEmpty \/ EndRound \/ Finished

ListSpec == ListInit /\ [][ListNext]_listVars
-----------------------------------------------------------------------------
(* Reference: the list is sorted by place in the bucket, then by queue.    *)
Rank(h, p) == Below(Members(h, h[p]), p)

Precedes(h, p, r) ==
  \/ Rank(h, p) < Rank(h, r)
  \/ Rank(h, p) = Rank(h, r) /\ h[p] < h[r]
-----------------------------------------------------------------------------
Share(q) == Cardinality({i \in DOMAIN ports : queueOf[ports[i]] = q})

(* At every moment no queue is two ports behind another one, unless it has *)
(* no port left: the first n tasks load the queues evenly for every n.     *)
SpreadEvenly ==
  \A q, r \in Used(queueOf) :
    Share(q) > Share(r) + 1 => Share(r) = Len(Bucket(queueOf, r))

(* The loop ends with the reference order, and with every port once.       *)
ListIsBalanced ==
  done =>
    /\ {ports[i] : i \in DOMAIN ports} = Ports
    /\ \A i, j \in DOMAIN ports : i < j => Precedes(queueOf, ports[i], ports[j])
=============================================================================
