------------------------------ MODULE PortPool ------------------------------
(***************************************************************************)
(* The tasks of a benchmark share the ports of one list: each connects     *)
(* with connect_tcp (src/client/utils.rs), which walks through the         *)
(* candidates of source_candidates until one connects.  The kernel keeps   *)
(* a 4-tuple in use by one socket at a time, and for a while after it was  *)
(* closed (TIME_WAIT); then bind or connect fails with AddrInUse or        *)
(* AddrNotAvailable and the next candidate is tried.  All tasks talk to    *)
(* one server, so that a port stands for a 4-tuple.                        *)
(***************************************************************************)
EXTENDS SourcePorts, Integers

CONSTANTS
  Queue,      \* the server queue of each entry of the list
  MaxGen      \* bound: connections a task tries

ASSUME PoolAssumption == MaxGen \in Nat

None == -1

VARIABLES
  state,      \* task -> "idle", "trying", "connecting", "connected"
  gen,        \* task -> connections tried (generation)
  at,         \* task -> the candidate tried next, from 0
  port,       \* task -> the port its socket is bound to, or None
  timeWait    \* ports in TIME_WAIT

vars == <<state, gen, at, port, timeWait>>

Init ==
  /\ state = [t \in Tasks |-> "idle"]
  /\ gen = [t \in Tasks |-> 0]
  /\ at = [t \in Tasks |-> 0]
  /\ port = [t \in Tasks |-> None]
  /\ timeWait = {}

Busy(p) == p \in timeWait \/ \E u \in Tasks : port[u] = p

(* The list source_candidates made for the connection a task is making,    *)
(* and the port at the place the task has come to.                         *)
Offer(t) == Listed(t, gen[t] - 1)
Here(t)  == Candidate(t, gen[t] - 1, at[t])

(* The generation is taken before the connect is awaited. *)
Dial(t) ==
  /\ state[t] = "idle" /\ gen[t] < MaxGen
  /\ state' = [state EXCEPT ![t] = "trying"]
  /\ gen' = [gen EXCEPT ![t] = @ + 1]
  /\ at' = [at EXCEPT ![t] = 0]
  /\ UNCHANGED <<port, timeWait>>

(* bind and the SYN of connect: the 4-tuple is taken. *)
Bind(t) ==
  /\ state[t] = "trying" /\ at[t] \in Offer(t) /\ ~Busy(Here(t))
  /\ port' = [port EXCEPT ![t] = Here(t)]
  /\ state' = [state EXCEPT ![t] = "connecting"]
  /\ UNCHANGED <<gen, at, timeWait>>

(* AddrInUse or AddrNotAvailable: the next candidate. *)
SkipBusy(t) ==
  /\ state[t] = "trying" /\ at[t] < Tries
  /\ at[t] \in Offer(t) => Busy(Here(t))
  /\ at' = [at EXCEPT ![t] = @ + 1]
  /\ UNCHANGED <<state, gen, port, timeWait>>

(* No candidate is left: the connection fails. *)
GiveUp(t) ==
  /\ state[t] = "trying" /\ at[t] = Tries
  /\ state' = [state EXCEPT ![t] = "idle"]
  /\ UNCHANGED <<gen, at, port, timeWait>>

Connect(t) ==
  /\ state[t] = "connecting"
  /\ state' = [state EXCEPT ![t] = "connected"]
  /\ UNCHANGED <<gen, at, port, timeWait>>

(* Another error ends connect_tcp at once. *)
Refuse(t) ==
  /\ state[t] = "connecting"
  /\ state' = [state EXCEPT ![t] = "idle"]
  /\ port' = [port EXCEPT ![t] = None]
  /\ UNCHANGED <<gen, at, timeWait>>

(* The connection ends; TIME_WAIT is on the side that closed first. *)
Close(t) ==
  /\ state[t] = "connected"
  /\ state' = [state EXCEPT ![t] = "idle"]
  /\ port' = [port EXCEPT ![t] = None]
  /\ timeWait' \in {timeWait, timeWait \cup {port[t]}}
  /\ UNCHANGED <<gen, at>>

TimeWaitEnds(p) ==
  /\ p \in timeWait
  /\ timeWait' = timeWait \ {p}
  /\ UNCHANGED <<state, gen, at, port>>

TaskStep(t) ==
  Dial(t) \/ Bind(t) \/ SkipBusy(t) \/ GiveUp(t) \/ Connect(t) \/ Refuse(t)
    \/ Close(t)

Next == (\E t \in Tasks : TaskStep(t)) \/ \E p \in Indices : TimeWaitEnds(p)

Spec == Init /\ [][Next]_vars
-----------------------------------------------------------------------------
TypeOK ==
  /\ state \in [Tasks -> {"idle", "trying", "connecting", "connected"}]
  /\ gen \in [Tasks -> Nat]
  /\ at \in [Tasks -> 0 .. Tries]
  /\ port \in [Tasks -> Indices \cup {None}]
  /\ timeWait \subseteq Indices

(* Some task has tried connections enough to come round the list. *)
Wrapped == \E u \in Tasks : gen[u] * Step > Entries

(* Until then every connection uses the port assigned to it, however the   *)
(* tasks' connects, closes and reconnects interleave and whatever is still *)
(* in TIME_WAIT: a reconnect leaps past all active tasks and never meets a *)
(* port used before.                                                       *)
OwnPort ==
  ~Wrapped =>
    \A t \in Tasks :
      /\ port[t] # None => port[t] = Primary(t, gen[t] - 1)
      /\ state[t] = "trying" => at[t] = 0 /\ ~Busy(Primary(t, gen[t] - 1))

(* A task sticks to the server queue of its first port.                    *)
Sticky ==
  \A t \in Tasks : port[t] # None => Queue[port[t]] = Queue[Primary(t, 0)]
-----------------------------------------------------------------------------
(* The inductive invariant behind OwnPort: what is in TIME_WAIT was        *)
(* assigned to a connection that is over.                                  *)
Shape ==
  \A t \in Tasks :
    /\ state[t] # "idle" => gen[t] > 0
    /\ port[t] # None <=> state[t] \in {"connecting", "connected"}

Past(p) ==
  \E u \in Tasks : \E e \in Nat :
    /\ p = Primary(u, e) /\ e < gen[u]
    /\ state[u] # "idle" => e < gen[u] - 1

Assigned ==
  /\ \A t \in Tasks :
       /\ port[t] # None => port[t] = Primary(t, gen[t] - 1)
       /\ state[t] = "trying" => at[t] = 0
  /\ \A p \in timeWait : Past(p)

IInv == TypeOK /\ Shape /\ (~Wrapped => Assigned)
=============================================================================
