------------------------------- MODULE Engine -------------------------------
(***************************************************************************)
(* The run of a benchmark (src/engine.rs): main spawns one thread per      *)
(* runtime instance, each instance spawns its tasks and joins them in the  *)
(* order they end, main joins the threads in the order of their ids and    *)
(* prints the report.  Meanwhile a meter on a runtime of its own takes the *)
(* live counters of the instances once a second, and a signal may end the  *)
(* process.                                                                *)
(*                                                                         *)
(* A task is what Worker.tla says of it: it records outcomes and ends.     *)
(* Each outcome is recorded twice, in the live counter of the instance     *)
(* (an atomic add) and in the statistics of the task.                      *)
(***************************************************************************)
EXTENDS Statistics, Split, FiniteSets, Folds, Functions

CONSTANTS
  Kinds,      \* outcomes a task may record
  Attempts    \* bound: outcomes a task records

ASSUME EngineAssumption == Kinds \subseteq Outcomes /\ Attempts \in Nat

VARIABLES
  phase,      \* the main thread: "spawning", "joining", "reported", "killed"
  next,       \* the instance main spawns or joins next
  thread,     \* instance -> "new", "started", "joining", "returned"
  task,       \* task -> "running", "ended", "panicked", "joined", "lost"
  pending,    \* task -> outcomes in the live counter, not yet in stats
  stats,      \* task -> its Statistics
  rt,         \* instance -> live counters
  sum,        \* instance -> spawn_tasks' statistics
  report,     \* what is printed at the end
  meter,      \* the meter's place: <<instance, counter>>, or <<>> asleep
  taken,      \* what the meter took this second
  shown       \* what the meter has printed, all seconds together

mainVars  == <<phase, next, report>>
taskVars  == <<task, pending, stats>>
meterVars == <<meter, taken, shown>>
vars      == <<mainVars, thread, taskVars, rt, sum, meterVars>>

Counters == [Outcomes -> Nat]
Zero     == [o \in Outcomes |-> 0]

Plus(a, b) == [o \in Outcomes |-> a[o] + b[o]]

(* Sums over a set of indices. *)
StatsOver(S, f) == FoldFunctionOnSet(Add, NewStats, f, S)
LiveOver(S, f)  == FoldFunctionOnSet(Plus, Zero, f, S)

TasksOf(id) == {t \in TaskIds : t[1] = id}

(* The recorded outcomes of a task as a record of counters. *)
Counted(s) == [ok |-> s.ok, fail |-> s.fail, err |-> s.err]

Alive == phase # "killed"

Init ==
  /\ phase = "spawning" /\ next = 0
  /\ thread = [id \in Ids |-> "new"]
  /\ task = [t \in TaskIds |-> "running"]
  /\ pending = [t \in TaskIds |-> {}]
  /\ stats = [t \in TaskIds |-> NewStats]
  /\ rt = [id \in Ids |-> Zero]
  /\ sum = [id \in Ids |-> NewStats]
  /\ report = NewStats
  /\ meter = <<>> /\ taken = Zero /\ shown = Zero
-----------------------------------------------------------------------------
(* The main thread. *)
SpawnThread ==
  /\ phase = "spawning" /\ next < Instances
  /\ thread' = [thread EXCEPT ![next] = "started"]
  /\ next' = next + 1
  /\ UNCHANGED <<phase, report, taskVars, rt, sum, meterVars>>

(* All threads are spawned: join them from the first on. *)
BeginJoin ==
  /\ phase = "spawning" /\ next = Instances
  /\ phase' = "joining" /\ next' = 0
  /\ UNCHANGED <<report, thread, taskVars, rt, sum, meterVars>>

JoinThread ==
  /\ phase = "joining" /\ next < Instances
  /\ thread[next] = "returned"
  /\ next' = next + 1
  /\ UNCHANGED <<phase, report, thread, taskVars, rt, sum, meterVars>>

(* Fold the statistics of the instances and print the result. *)
Report ==
  /\ phase = "joining" /\ next = Instances
  /\ phase' = "reported"
  /\ report' = StatsOver(Ids, sum)
  /\ UNCHANGED <<next, thread, taskVars, rt, sum, meterVars>>

(* Ctrl+C or SIGTERM: the process exits without a report. *)
Kill ==
  /\ phase \in {"spawning", "joining"}
  /\ phase' = "killed"
  /\ UNCHANGED <<next, report, thread, taskVars, rt, sum, meterVars>>
-----------------------------------------------------------------------------
(* An instance: spawn_tasks and its join loop. *)
SpawnTasks(id) ==
  /\ Alive /\ thread[id] = "started"
  /\ thread' = [thread EXCEPT ![id] = "joining"]
  /\ UNCHANGED <<mainVars, taskVars, rt, sum, meterVars>>

(* join_next yields any task that has ended; a panicked one (JoinError)    *)
(* leaves no statistics.                                                   *)
JoinTask(t) ==
  /\ Alive /\ thread[t[1]] = "joining"
  /\ \/ /\ task[t] = "ended"
        /\ task' = [task EXCEPT ![t] = "joined"]
        /\ sum' = [sum EXCEPT ![t[1]] = Add(@, stats[t])]
     \/ /\ task[t] = "panicked"
        /\ task' = [task EXCEPT ![t] = "lost"]
        /\ UNCHANGED sum
  /\ UNCHANGED <<mainVars, thread, pending, stats, rt, meterVars>>

AllJoinedNeverMut(id) == \A t \in TasksOf(id) : task[t] = "joined"
AllJoinedMut(id) == \E t \in TasksOf(id) : task[t] \in {"joined", "lost"}
(* join_next returned None. *)
AllJoined(id) == \A t \in TasksOf(id) : task[t] \in {"joined", "lost"}

ReturnStats(id) ==
  /\ Alive /\ thread[id] = "joining" /\ AllJoined(id)
  /\ thread' = [thread EXCEPT ![id] = "returned"]
  /\ UNCHANGED <<mainVars, taskVars, rt, sum, meterVars>>
-----------------------------------------------------------------------------
(* A task. *)
Running(t) == Alive /\ thread[t[1]] = "joining" /\ task[t] = "running"

(* First half of an outcome: fetch_add on the live counter. *)
BumpLive(t, o) ==
  /\ Running(t) /\ pending[t] = {} /\ Recorded(stats[t]) < Attempts
  /\ rt' = [rt EXCEPT ![t[1]][o] = @ + 1]
  /\ pending' = [pending EXCEPT ![t] = {o}]
  /\ UNCHANGED <<mainVars, thread, task, stats, sum, meterVars>>

(* The statistics after outcome o. *)
WithOutcome(s, o) ==
  CASE o = "ok"   -> IncOk(s)
    [] o = "fail" -> SetHttpStatus(s, 500)
    [] o = "err"  -> SetError(s)

(* Second half: the task's own counter. *)
BumpLocal(t) ==
  /\ Running(t)
  /\ \E o \in pending[t] : stats' = [stats EXCEPT ![t] = WithOutcome(@, o)]
  /\ pending' = [pending EXCEPT ![t] = {}]
  /\ UNCHANGED <<mainVars, thread, task, rt, sum, meterVars>>

EndTask(t) ==
  /\ Running(t) /\ pending[t] = {}
  /\ task' = [task EXCEPT ![t] = "ended"]
  /\ UNCHANGED <<mainVars, thread, pending, stats, rt, sum, meterVars>>

(* An unwrap in a client failed. *)
PanicTask(t) ==
  /\ Running(t) /\ pending[t] = {}
  /\ task' = [task EXCEPT ![t] = "panicked"]
  /\ UNCHANGED <<mainVars, thread, pending, stats, rt, sum, meterVars>>
-----------------------------------------------------------------------------
(* The meter: each counter of each instance is swapped with zero. *)
SwapOrder == <<"ok", "err", "fail">>

Ticking == Alive /\ phase # "reported"

MeterWakes ==
  /\ Ticking /\ meter = <<>>
  /\ meter' = <<0, 1>> /\ taken' = Zero
  /\ UNCHANGED <<mainVars, thread, taskVars, rt, sum, shown>>

TakeMut(id, o) ==
  /\ taken' = [taken EXCEPT ![o] = @ + rt[id][o]]
  /\ rt' = rt
Take(id, o) ==
  /\ taken' = [taken EXCEPT ![o] = @ + rt[id][o]]
  /\ rt' = [rt EXCEPT ![id][o] = 0]

(* Counter after counter, instance after instance. *)
MeterNext ==
  IF meter[2] < 3 THEN <<meter[1], meter[2] + 1>> ELSE <<meter[1] + 1, 1>>

MeterSwaps ==
  /\ Ticking /\ meter # <<>> /\ meter[1] < Instances
  /\ Take(meter[1], SwapOrder[meter[2]])
  /\ meter' = MeterNext
  /\ UNCHANGED <<mainVars, thread, taskVars, sum, shown>>

MeterPrints ==
  /\ Ticking /\ meter # <<>> /\ meter[1] = Instances
  /\ shown' = Plus(shown, taken)
  /\ taken' = Zero /\ meter' = <<>>
  /\ UNCHANGED <<mainVars, thread, taskVars, rt, sum>>
-----------------------------------------------------------------------------
Main == SpawnThread \/ BeginJoin \/ JoinThread \/ Report

Instance(id) ==
  SpawnTasks(id) \/ ReturnStats(id) \/ \E t \in TasksOf(id) : JoinTask(t)

TaskStep(t) ==
  (\E o \in Kinds : BumpLive(t, o)) \/ BumpLocal(t) \/ EndTask(t) \/ PanicTask(t)

Meter == MeterWakes \/ MeterSwaps \/ MeterPrints

Exited == phase \in {"reported", "killed"} /\ UNCHANGED vars

Next ==
  \/ Main \/ Kill \/ Meter \/ Exited
  \/ \E id \in Ids : Instance(id)
  \/ \E t \in TaskIds : TaskStep(t)

(* The threads are scheduled, and every task ends: that is what the client *)
(* modules show with ImplementsWorker.  The meter may be as slow as it likes.              *)
Fairness ==
  /\ WF_vars(Main)
  /\ \A id \in Ids : WF_vars(Instance(id))
  /\ \A t \in TaskIds : WF_vars(TaskStep(t))

Spec == Init /\ [][Next]_vars /\ Fairness
-----------------------------------------------------------------------------
(* No outcome is lost or shown twice by the live display: what the meter   *)
(* has printed, has taken and has yet to take is what the tasks recorded,  *)
(* outcome by outcome, whatever second the swaps fall in.                  *)
MeterConserves ==
  \A o \in Outcomes :
    shown[o] + taken[o] + LiveOver(Ids, rt)[o]
      = Counted(StatsOver(TaskIds, stats))[o]
        + Cardinality({t \in TaskIds : o \in pending[t]})

(* The report is printed when every task is over, and counts each task     *)
(* that returned once, in whatever order tasks and threads ended.          *)
ReportComplete ==
  phase = "reported" =>
    /\ \A t \in TaskIds : task[t] \in {"joined", "lost"} /\ pending[t] = {}
    /\ report = StatsOver({t \in TaskIds : task[t] = "joined"}, stats)

(* The tasks of the threads spawned so far have distinct global indices,   *)
(* without a gap, and together they are the connections asked for.         *)
IndicesExact ==
  LET spawned == {t \in TaskIds : thread[t[1]] # "new"}
      used    == {GlobalIndex(t) : t \in spawned}
  IN  /\ used = 0 .. Cardinality(spawned) - 1
      /\ phase = "joining" => Cardinality(spawned) = Connections

(* The live display runs ahead of the report by the panicked tasks only:   *)
(* once it has printed everything, the difference is what they recorded.   *)
DisplayAgrees ==
  phase = "reported" /\ LiveOver(Ids, rt) = Zero /\ taken = Zero =>
    \A o \in Outcomes :
      shown[o] = Counted(Add(report,
                   StatsOver({t \in TaskIds : task[t] = "lost"}, stats)))[o]

(* The benchmark ends with its report or by a signal.                      *)
Finishes == <>(phase \in {"reported", "killed"})
=============================================================================
