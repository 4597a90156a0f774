# Verification of plumbrs

plumbrs is an HTTP load generator: it starts runtime instances on threads of
their own, spreads a number of *connections* (tasks) over them, lets every task
send requests until a budget or a deadline ends it, and prints what happened.
What a user trusts are its figures: how many requests, connections and errors
there were, and that the load was spread over hosts, server names, source ports
and server queues in the way the options say. This directory holds TLA+ models
of the parts that decide those figures, the TLC runs that check them, and the
theorems TLAPS proves about them.

Paths below such as `engine.rs` are relative to `src/src/`; the repository's own
documentation is `src/README.md`.

## 1. Inventory

| Component | Sources | State | Operations | Module |
|---|---|---|---|---|
| Task statistics | `stats.rs` | ok, fail, error and connection counters, histogram, idle time; live counters per instance | `inc_conn`, `inc_ok`, `set_http_status`, `set_error`, `Add` | `Statistics` |
| hyper client | `client/hyper.rs`, helpers of `client/utils.rs` | attempts, requests on the connection, target, generation | connect, send, receive, `ready`, stop | `ClientTask`, `HyperClient` |
| hyper-chunked client | `client/hyper_chunked.rs` | the same | the same, and a reconnect in place | `ChunkedClient` |
| hyper-h2 client | `client/hyper_h2.rs` | the same, server name of the connection | `ready`, head, upload, body, reconnect in place | `H2Client` |
| Engine and meter | `engine.rs` | threads, join sets, live counters, report | split, spawn, join, fold, swap, print, signal | `Split`, `Engine` |
| Source ports and RSS | `rss.rs`, `connect_tcp` | hash tables, the list of ports, its stride; kernel 4-tuples | classify, balance, candidates, bind/connect/next candidate | `RssTable`, `BalancedPorts`, `SourcePorts`, `OfferList`, `PortPool` |
| Raw clients | `client/compio.rs`, `monoio.rs`, `tokio_uring.rs` | read buffer, attempts, requests on the connection | connect, write, read, decode, count | `RawClient` |
| Pooled clients | `client/hyper_legacy.rs`, `hyper_rt1.rs`, `reqwest.rs` | the library's client, attempts | build, request, body, build again | `PooledClient` |
| MCP client | `client/hyper_mcp.rs` | session, header sets, tool bodies, event stream | greeting, calls, `read_sse_event` | `McpClient`, `SseReader` |
| Options and startup | `main.rs`, `options.rs`, `client.rs` | options | `check_options`, `init_source_ports`, `expand_range_pattern` | `CheckOptions`, `RangePattern` |
| Request building | `client/utils.rs` | targets, headers, cookies | `build_request_targets`, `match_cookies`, `ensure_content_length` | `RequestPlan` |
| Metrics table | `metrics.rs` | the runtime's counters | sums and prints | not modelled |
| TLS | `client/tls.rs` | certificates, ALPN | part of a connect that succeeds or fails | not modelled |

### How the components interact

`main` validates the options and calls `run_tokio_engines` (or the engine of
another runtime). Main starts the meter thread, then one thread per instance; an
instance builds a runtime, spawns a task per connection of its share and joins
them in the order they end. A task owns its `Statistics` and shares only the
atomic live counters of its instance, which the meter swaps with zero once a
second. When the tasks are over the threads return the sum of their statistics;
main joins the threads in order, adds up and prints. A signal exits the process
from the meter's runtime.

A task is a loop around one connection. It takes the next server name and the
next source port (both from its *global index* and its *generation*), connects,
sends one request at a time, and reconnects when `--rpc` requests were sent or the
connection was lost. The connection itself runs as another task (hyper's
`conn.await`), so that a loss can be seen from two sides and between any two steps.

### What is hard here

* Five ways to leave an attempt (connect failed, request failed, body failed,
  response counted, `ready` failed), each with its own combination of `set_error`,
  `total += 1`, `inc_conn`, `generation += 1` and the checks of `should_stop` and
  `is_last`. Every client writes the combination again; they differ.
* Reconnects race the peer: a connection may be lost while a request is
  outstanding, between two requests, or before the first.
* No await has a timeout. What the clients promise about their end depends on the peer.
* Each outcome is recorded twice (live counter, statistics) and read by two
  observers (meter, report) that are not synchronised.
* The raw clients pair a response with the request they wait for by nothing but
  its place in the buffer; the pooled ones do not see their connections at all.
* The MCP greeting is a protocol of its own, spread over one or three connections,
  before the loop that counts.
* `check_options` changes the options while it checks them.
* The port arithmetic must keep tasks on several threads apart although they never
  talk: the index of one task at one generation must not meet another's.

The complete list, by line, is in `PROJECT.json` under `hazards`.

## 2. Modules

What extends or instantiates what (an arrow points at what is used; `~>` is a
refinement that a run checks):

    ClientTask    -> Statistics, Rotation
    HyperClient   -> ClientTask                            ~> Worker
    H2Client      -> ClientTask
    LoadTask      -> ChunkedClient, RawClient, PooledClient  ~> Worker
                     (each of which extends ClientTask)
    McpClient     -> HyperClient                           ~> Worker
    Engine        -> Split, Statistics
    PortPool      -> SourcePorts
    OfferList     -> SourcePorts
    BalancedPorts, RequestPlan, SseReader -> Ordering
    Sequential    -> CheckOptions, OfferList, BalancedPorts, RequestPlan,
                     RangePattern, SseReader, RssTable

    TaskProofs    -> Lemmas
    HyperClientProofs (McpClient, HyperClient), LoadTaskProofs, H2ClientProofs -> TaskProofs
    EngineProofs  -> Engine, Lemmas
    SetupProofs   -> CheckOptions, OfferList, PortPool, BalancedPorts, Lemmas
    TextProofs    -> RequestPlan, SseReader, RangePattern, Lemmas

| Module | Models |
|---|---|
| `Statistics` | The counters of a task as a record, and the functions that change them. |
| `Rotation` | What round-robin use of a list means: `Turns`, `Balanced`. |
| `Worker` | The abstract task: attempts, each recorded under one outcome, until budget or deadline. |
| `ClientTask` | The state, the network and the steps the hyper clients share; all client properties. |
| `HyperClient`, `ChunkedClient`, `H2Client` | Three loops over hyper's and h2's connections. |
| `RawClient` | The loop of compio, monoio and tokio-uring, with the buffer responses are decoded from. |
| `PooledClient` | The loops of hyper-legacy, hyper-rt1 and reqwest over a library's pool. |
| `LoadTask` | The task the engine starts, whichever client it is: the union of chunked, raw and pooled clients, and what the engine expects of all of them. |
| `McpClient` | hyper's loop around tool calls, and the greeting before it, over both transports. |
| `SseReader` | `read_sse_event`, frame by frame and line by line. |
| `CheckOptions` | `check_options` and `init_source_ports`, one action per check. |
| `RangePattern` | `expand_range_pattern`, one bracket at a time. |
| `RequestPlan` | Targets, headers, cookies and lengths, and what the loops make of them. |
| `RssTable` | The Toeplitz hash and the tables that replace it. |
| `Split` | How the connections are split over the instances, and the index of a task. |
| `Engine` | Threads, tasks, joins, report, meter, signal. |
| `BalancedPorts` | `build_balanced_ports`: the list that alternates between queues. |
| `SourcePorts` | `source_candidates` as operators. |
| `OfferList` | The loop of `source_candidates` that collects them. |
| `Sequential` | The parts one thread runs alone, side by side. |
| `PortPool` | Many tasks in `connect_tcp` at once, with the kernel's 4-tuples and TIME_WAIT. |
| `OptionSets`, `PatternSets`, `PlanSets`, `StreamSets`, `MC*` | Inputs for TLC. |
| `Ordering` | A finite set of numbers as the sequence that lists it in ascending order. |
| `Lemmas` | Facts about numbers, sets in order, round-robin use and folds that the proofs share. |
| `*Proofs` | Theorems and their proofs. |

A definition whose name ends in `Mut` is a plausible bug of the definition that
follows it. No action uses it; substituted for that definition it shows that a
property would notice the bug.

### State and actions against the code

**Clients.** `pc` names the await the task stands at. What runs between two awaits
is one action, except that the environment's steps (the peer answers, the link is
lost, the deadline passes) may come between any two actions.

| `pc` | Code |
|---|---|
| `loop` | top of `'connection: loop`, `should_stop` |
| `dial` | `build_connection(...).await` |
| `send` | top of the inner loop |
| `reply` | `send_request(...).await` and `discard_body(...).await` |
| `ready` | `select!` of `sender.ready()` and the connection's task (hyper), `ready().await` (chunked, h2) |
| `hand`, `upload`, `body` | h2 only: `send_request`, `send_data`/`send_trailers`, the body of a 200 |
| `redial` | chunked and h2: `build_connection` inside the inner loop |
| `done`, `panicked` | the task returned its statistics; it panicked |

`total`, `connReq`, `target`, `generation` and `stats` are the code's variables.
`link`, `wire`, `onConn`, `closing` and `served` are the connection and what the
peer saw on it. `issued`, `late`, `sentTo`, `sniDials` and `made` only record
history, for the properties. Rust's `u32`/`usize` counters are natural numbers;
see *Limits*.

A send and a receive are one await each to the task: a response whose head came
and whose body did not is `ReplyError` in hyper and chunked, where `discard_body`
failing is handled as a failed request. In h2 the code counts a 200 before it
reads the body, so that there `body` is a point of its own.

**Raw clients.** Bytes are pieces of responses: a head and a tail, which a read may
separate, and a piece no decoder can use for a response of more than sixteen
headers. Each carries the number of the request it answers, which the task does not
look at. `inbox` is the socket, `buffer` is `connection_buffer`; a write to a
connection the peer has left may succeed or fail.

**Pooled clients.** `link` is the connection in the library's pool. The library
connects when a request needs it, retries a request lost on a connection out of the
pool, and (reqwest) follows redirects; these steps are external. `BuildClient` is
the head of the loop, where the code counts a connection. hyper-rt1 takes up a
client that other tasks use, too: what they do to the pool is what the library may
do to it anyway.

**MCP.** `phase` and `step` say where the greeting is, `phase = "set"` is the loop.
`fatal!` exits the process: `phase = "failed"`. `plainHdr` and `closeHdr` are the
session ids in `targets` and `targets_close`. On the other side of the event stream
are `owes` (answers that are due) and `noise` (requests and notifications of the
server's own). `heard`, `called` and `unsigned` record history.

**Options.** A record holds of every option what the checks tell apart, for example
whether `--rpc` is absent, below 100 or not. `check` is the next check. Each action
refuses or goes on, with the changes the code makes to the options on the way.

**Sequential parts.** Characters of patterns, paths and event streams are symbols; a
character of two bytes is two symbols, so that a frame may end between them.

**Engine.** `thread`, `task`, `pending`, `stats`, `rt`, `sum` and `report` are the
join handles, the tasks, an outcome between its atomic add and its plain add, the
task's statistics, the live counters, `spawn_tasks`' sum and the fold of main.
The meter is one action per `swap`.

**Ports.** A port is named by its place in the list. `Bind` stands for `bind` and
the SYN of `connect` (with `SO_REUSEADDR`, as the code sets it, the conflict shows
up in either); `SkipBusy` for the `continue` on `AddrInUse`/`AddrNotAvailable`;
`GiveUp` for the loop running out. All tasks talk to one server address. The
side that closes first keeps TIME_WAIT, so closing may or may not leave it here.

## 3. What is checked

All runs pass or fail as stated; each property of a passing run has a mutant in
`PROJECT.json` that breaks it.

| Run | Question and result |
|---|---|
| `hyper_requests` | One hyper task, budget 4 with a deadline, `--rpc 2`, three targets, two server names. Accounting, budget, `Connection: close` on the last request only, rotation, one late request at most, the end of the task; and every behaviour is one of `Worker`, liveness included. |
| `clients` | One task of any of the seven other HTTP/1 clients, budget 3 with a deadline, `--rpc 2`, two targets and names. Accounts, pairing of responses with requests, budget, connections, rotation of names; each is a `Worker`, liveness included. |
| `chunked_rpc1` | **Violation.** The reconnect in place never calls `inc_conn`: with `--rpc 1` a task reports one connection. |
| `h2_requests` | The h2 task with `-m` and a body: accounting, budget, lateness, and that it ends, in a return or a panic. |
| `h2_names` | **Violation.** The h2 reconnect in place uses the server name of the connection it replaces. |
| `engine` | Two threads, three tasks, ends and panics in any order, against the joins and the meter's swaps: indices are exact, the report is the sum of what returned, the display neither loses nor doubles and differs from the report by the panicked tasks only, and the run finishes. |
| `ports_rss` | Three tasks on two even queues of five: each connection gets the port assigned to it, first try, until the list is used up, and a task keeps its queue. |
| `ports_uneven` | **Violation.** With queues of unequal size a reconnect changes the queue. |
| `mcp` | Both transports, two of three tools, sessions or none: the greeting is whole and in order before the first call, every later message carries the session, tools are called in turn, greetings are not counted, and it all ends. |
| `sequential` | Seven sequential parts, each on all of its small inputs against a reference: options, range patterns, Toeplitz tables, the balanced list, the candidates of a queue, requests with their cookies, the event stream. |
| `sse_utf8` | **Violation.** A frame that ends inside a character tears it. |
| `plan_host` | **Violation.** With `--http2` the requests of hyper-legacy, hyper-rt1 and reqwest name their `--host` nowhere. |

The properties, in words:

* `AttemptsRecorded`: no attempt goes unrecorded; beyond attempts at most one error
  per connection is recorded (hyper and chunked call `set_error` without
  `total += 1` when an idle connection is lost).
* `ResponsesCounted`: ok and status counts are responses the peer sent, each once,
  and a response not counted shows up as an error.
* `BudgetRespected`, `OneLateRequest`: `-r` bounds the requests issued, and is met
  unless the deadline came first; at most one request is issued after the deadline.
* `ClosesOnLast`: `--rpc` bounds the requests on a connection, and exactly the last
  carries `Connection: close`.
* `NoIdleChurn`: connections and errors are bounded by attempts, so that a peer that
  drops idle connections cannot keep a hyper or chunked task reconnecting for ever.
* `TargetsRotate`, `NamesRotate`: no target or name is ever two ahead of another.
* `ImplementsWorker`: the loop implements the abstract task (mapping: `attempts`
  is `total`, the outcomes are the counters, `running` is `pc # "done"`).
* `LedgerBalances`, `LoadImplementsWorker`: the same for the clients of `LoadTask`. A
  raw client uses an attempt for an end of file and records nothing; with those put
  down as errors it keeps `Worker`, too.
* `RepliesMatch`: a raw client counts for each request the response to that request,
  in whatever pieces it comes and however earlier connections broke off; only a peer
  that sends responses unasked shifts them.
* `PerConnection`: `--rpc` bounds the requests on a connection even where a library
  makes the connections (hyper-rt1 ignores `--rpc`, redirects of reqwest come on top).
* `H2Promises`: the conjunction of accounting, budget and lateness for h2.
* `SessionCarried`, `ToolsInTurn`, `KeepsWorker`, `McpEnds`: as the run says.
* `AutoPicksCapable`: what `-C auto` becomes does all that the accepted options ask
  for. `EngineCanRun`: accepted options satisfy what later code takes for granted.
* `RangesExpand`, `TablesAgree`, `EventsWhole`, `CookiesInScope`: the code's way of
  computing a thing against its definition. `RequestsAddressed`: URI, Host and
  framing of a request agree. `HostOverrides`: the README's sentence about `--host`.
* `MeterConserves`: printed + taken + still in the counters = recorded + half-recorded.
* `ReportComplete`, `DisplayAgrees`, `IndicesExact`, `Finishes`, `SpreadEvenly`,
  `ListIsBalanced`, `OwnPort`, `OffersDiffer`, `Sticky`: as the comments
  above them say.

### Bounds, and why they are enough

* `Horizon` bounds the attempts that fit before the deadline and is a guard on
  starting a dial or a request only while the deadline has not passed; with `-r` it
  is not smaller than the budget and so never decides. Budget 4 with `--rpc 2` lets a
  task fill two connections, lose one, and still have an attempt left; three targets
  and two names wrap both counters and are coprime to the connection length.
* `Unstable` (h2): the peer may break the first three connections. Without it the
  task may reconnect for ever without using an attempt (a hazard of the list), and
  its model would have no finite state space.
* `Attempts` and `Kinds` (engine): one outcome per task, of one kind. The three
  counters never meet in the code, and a task that is half-recorded while another's
  outcome is taken shows all orders of an add, a swap and a read; three tasks on two
  threads give unequal shares.
* `MaxExtras = 1`, `MaxHops = 2` (clients): one unasked response shifts the pairing,
  and redirects may use up a request or stop one short of it. Budget 3 with
  `--rpc 2` has a full connection, a reconnect and a connection that is not filled.
* `MaxNoise = 2` (mcp): one event of the server's own ahead of each result awaited, or
  two ahead of one.
* Options: any three options, the client counted as one, vary over all their values
  while the rest keep their defaults: enough for a check that changes an option, one that
  reads it and a third that interferes.
* Patterns have up to three parts, ranges of one and two digits with and without
  padding. Streams are texts of a few symbols, cut everywhere. Request plans combine
  hosts, ports, schemes, paths and one or two cookies from sets that contain a
  sibling domain, a path that only begins alike, an expired and a secure cookie.
* `RssTable`: a byte of two bits, a word of two bytes, an address of one byte and a
  synthetic table of eight. The widths are parameters; two-bit bytes still make a
  word read across a byte boundary and an offset wrap round the key.
* `MaxGen`: connections per task in the port pool. Three reconnects take three tasks
  past the end of a list of ten. The pool comes to rest there, so deadlock is not checked in the
  port runs; it is in every other.
* The candidates are those of seven ports on two queues, eight of them, so that they come
  round the list and meet ports seen before. Of a range `MCSequential` only evaluates
  one instance; the theorem `OffersAreDifferent` covers them all.
* Five ports over three queues include an empty queue, one queue for all, and every
  mix of sizes 1 to 5.

### Fairness, and why the code justifies it

* Weak fairness of each of the task's awaits: the runtime polls a task whose future
  is ready.
* A connect succeeds or fails (the kernel's SYN retries end).
* A peer that holds a request answers it or goes away. The code has no timeout, so
  this is an assumption about the server and not a result: with a server that
  accepts and keeps silent `-d` does not end the run.
* Time passes: a deadline that was set is reached.
* h2: the body of a 200 ends or breaks off.
* Raw clients: a peer that owes nothing closes an idle connection in the end. Without
  it a response that cannot be decoded keeps the task for ever.
* MCP: the server sends what it owes; nothing is assumed about its noise or about the
  end of the stream.
* Engine: threads and tasks are scheduled, and a task ends, which is what
  `Worker`'s liveness and `Ends` show of the clients. The meter has no fairness: no
  property needs it to be on time.
* The sequential parts have no liveness property; their loops walk over their input.

## 4. What is proved

TLC answers for the constants of a configuration; the theorems hold for every
value the named assumptions allow. Of the 34 invariants that passing runs check all
but one, `TablesAgree`, are theorems, and so is the safety half of the three refinements of `Worker`.

None of them is inductive as it stands. Each module therefore states an invariant that
is, proves of it what the properties are read off from, and follows one scheme: a lemma
per part of the invariant, in it a step per action, and a theorem that combines them.

**`Lemmas`**: induction over numbers and over the subsets of a finite set, division
with remainder, finite sets in ascending order, `Turns` (the counts of a cursor that has
walked round a list) and folds.
The community modules define sums over sets by a recursive function, of which the
prover knows nothing: `FoldExists` derives that the function exists, `FoldTakes` that
taking an element out of a set takes its value out of the sum, `FoldJoins` that the sum
over disjoint sets is the sum of the sums. An induction is stated there of a set of
numbers and not of a predicate, so that the set in question can be put in its place; what a
recursive function computes for every input is then within reach, once its existence has
been proved from the same induction.

**`TaskProofs`** (`TaskAssumption`: `-r` absent or one natural number, at least one
target and one name): what the steps of `ClientTask` do to types and counters, for the
modules of all the clients that are built from them. That `-r` may be absent means
that the theorems cover the runs limited by their duration only, which no configuration
repeats.

**`HyperClientProofs`**. That a connection carries at most `--rpc` requests, say, needs
that the task's `conn_req_count` equals what the peer received, and that needs to know
at which awaits a response can be outstanding. `IInv` adds what the code relies on
without saying so:

* `LedgerInv`: the recorded outcomes exceed the attempts by less than the
  connections while a connection is up, for it has not yet had its one error; and
  errors stay below attempts at `ready`, since `ready` follows a response.
* `BudgetInv`: an issued request is a recorded attempt except at `reply`; past the
  check of `should_stop` the budget is not used up; a late request exists only at
  `reply` or on the way out.
* `ConnectionInv`: the wire is quiet outside `reply`, and there the peer's count of
  requests is the task's.
* `RotationInv`: the counts per target and per name are those of a cursor (`Turns`),
  which `TurnsBalanced` in `Lemmas` bounds for lists of any length.

`TypeCorrect`, `AttemptsAreRecorded`, `ResponsesAreCounted`, `BudgetIsRespected`,
`CloseIsLast`, `ConnectionsAreUsed`, `TargetsAreRotated`, `NamesAreRotated` and
`LateRequestBound` follow from it; `ImplementsWorkerSafety` maps each step to a step
of `Worker` or a stutter.

The same module has the theorems of `McpClient`, whose loop is hyper's (with the assumption
of that module): `SessionIsCarried`, `ToolsAreInTurn`, `McpKeepsWorker`. `McpInv` is the
part of hyper's invariant that survives a greeting in front of the loop, with `GreetingInv`
(what has been sent by which step, and that nothing of it is counted), `SessionInv` (from the
end of the greeting on, both header sets of every target hold the server's id) and
`ToolsInv` (the index of the next tool is a cursor over all connections).

**`LoadTaskProofs`**: `LedgersBalance`, `RepliesAreMatched`, `LoadBudgetIsRespected`,
`ConnectionsAreBounded`, `LoadConnectionsAreUsed`, `LoadNamesAreRotated`, and
`LoadTaskIsWorker`, that every step of any of the seven clients is one of `Worker` or a
stutter. `LoadInv` has one part for what all of them keep and one for each family:
`ChunkedInv` (as in hyper, where a connection owes one error), `RawInv` (what is in
buffer and socket are the pieces of the response awaited, in order, and nothing of an
earlier connection, unless the peer sent responses unasked) and `PoolInv` (while the
library keeps its connection, that has carried no more requests than the task has counted,
and the request that closes it is the last one).

**`H2ClientProofs`**: `H2KeepsPromises`. A 200 whose body fails is recorded twice for
one attempt, so that outcomes are not bounded by attempts; `H2Inv` says that every
error beyond an attempt is paid for by a connection, and that a request issued is an attempt
recorded, except while it is in flight.

**`EngineProofs`** (the assumptions of `Engine` and `Split`). `IndexInRange` and
`IndexUnique` are about the arithmetic of the split, for any number of connections and
instances, fewer connections than instances included; rotation and ports rest on them.
`IndicesAreExact`: the tasks of the threads spawned so far have the indices
below some bound, each once, and all connections are among them when the threads are
joined. That no index is left out is an induction over the instances; the run performs
it, for it spawns them in order, and `NextBase`, that a block ends where the next
begins, carries the invariant over a `Spawn`.
`MeterIsConserved`, `ReportIsComplete` and `DisplayIsTheReport` equate sums that
are formed in different orders: over the tasks of a thread as they are joined,
over the threads as main joins them, over counters as the meter swaps them. `SumInv` says
of each partial sum over which set of tasks it is the fold: `InHand`, that an outcome
is half-recorded in one task at most at a time of its own; `OverFirst`, that a thread is
over only after its tasks; `SumsAgree`, that sums and sets go together. Every action
then moves one element between sets, which is `FoldTakes`; at the end `FoldJoins` puts the
threads together.

**`SetupProofs`** (the assumptions of `SourcePorts`, `PortPool`, `OfferList` and
`BalancedPorts`): what is settled before a request is sent.

* `ListIsSpread`, `ListEndsBalanced`: for any finite set of ports and any hash. `ListInv`
  says that there is a round `r` such that the queues before `place` have given `r + 1`
  ports and the others `r`, unless they have no more; that the list has the
  ports of each bucket up to the bucket's cursor, sorted by place in the bucket and then by
  queue; and that a queue's ports in the list are as many as its cursor says. A round
  that took nothing has found every bucket empty (`Exhausted`), which is why the loop
  may stop there. That a finite set of numbers can be listed in ascending order at all
  is `AscendingIs`.
* `OwnPortIsUsed`: until some task has come round the list, every connection uses the
  port assigned to it at the first candidate, whatever the interleaving and whatever
  is in TIME_WAIT. The invariant says that what is in TIME_WAIT was assigned to a
  connection that is over (`Past`), and that a task that is trying is at its first
  candidate. The argument is arithmetic: with `Step >= Total`, `task + gen * Step` is
  different for every pair and stays below the length of the list.
* `QueueIsKept`: a task keeps its queue when the list alternates between the queues to
  its end (`Alternates`). That is what queues of equal size give; `ports_uneven` shows
  that with other sizes it is false.
* `OffersAreDifferent`: whatever the length of the list, the number of queues and the
  limit, the loop that collects the candidates lists different ports, the task's own
  first, and all that can be reached. With a range the limit on its length is what
  keeps neighbours apart; with queues the loop itself does.
* `AutoIsCapable`, `AcceptedCanRun`: for every record of options of the kinds
  `OptionRecords` names, any number of them given and any number of bodies, threads,
  ports and connections. `OptInv` says at each check what the earlier ones have
  established and that the later ones have not yet changed it.

**`TextProofs`**: four loops over texts, each against its definition, for texts of any
length.

* `RequestsAreAddressed`: for plans of any size (`Sendable`). There has to be a host to
  name, the URI's or one of `--host`, and `-H` must not give both framings, which the code
  would send as they are. `PlanInv`: each target is the one its host
  calls for, with the length added once the templates are serialized.
* `CookiesAreInScope`, from the same invariant. The code compares strings: a name ends
  in a dot and the domain, a path begins with the cookie's and goes on with a slash. The
  reference compares lists of pieces. `Pieces` is shown to cut a string at every
  separator and nowhere else, and the string to be put together again from its pieces;
  that a string begins with another and a separator is then that its pieces begin with the
  other's. The order, longest path first and otherwise as given, is that of `Sorted`,
  which lists a finite set along any strict total order.
* `EventsAreWhole`: however the text is cut into frames. At every step there is a number
  `K` of lines of the whole text that have been read; the buffer and what is still to come
  are what follows those lines; the data are those since the last line that ended an event,
  and the events are those the first `K` lines make. The hypothesis is that every character
  is of one byte. It is needed: `sse_utf8` shows that without it the property is false.
* `RangesAreExpanded`: for every number of parts, every literal text, and numbers of every
  length. `RangeInv` says that there is a `k` such that the first `k` parts are expanded:
  the names are the product of these parts, each with the rest of the pattern behind it,
  and the search stands where no range is left before the next part. An `ExpandRange` takes
  `k` to the next range: in every name that range ends as far from the end as in the first
  one, which is what `Shift` counts on. Ahead of it are the lemmas that digits and numbers
  determine each other (`DecimalNumber`), that a first dash splits a range where it was
  put together, and that the product is associative. The hypotheses say what
  a part is: a literal text closes the brackets it opens and has no range in it (an open
  one would take the next range with it, see section 5), and the width of a range is
  that of a first number with zeros in front.

**Only model-checked:**

* Liveness (`Ends`, `Finishes`, `McpEnds`, and the fairness of `Worker`): together with
  ENABLED out of the prover's reach.
* `TablesAgree`: `RssTable` is built on the bit operations of `Bitwise`, which are
  recursive operators, and on powers of two, of which the prover knows nothing.
  `Sequential`, which contains it, therefore has no theorem of its own; those
  about its parts are stated of the parts' specifications.

## 5. Disagreements met

In `PROJECT.json` under `findings`, each with its run: the reconnects in place that
count no connection (`hyper_chunked.rs:165`, `hyper_h2.rs:191`), the h2 reconnect that
does not rotate server names (`hyper_h2.rs:193`), the queues of unequal size
(`rss.rs:689`), the characters cut by a frame boundary (`hyper_mcp.rs:792`), and the
`--host` that the library clients drop with `--http2` (`hyper_legacy.rs:93`).

Observed while reading, without a run of its own:

* h2 takes a target and a request count before `ready()` (`hyper_h2.rs:107`); a
  connection lost there skips a host. `TargetsRotate` is false of `H2Client` with two
  targets.
* With as many ports as connections, the least `init_source_ports` accepts, a
  reconnect starts at the port it just left (`rss.rs:701`), while `src/README.md:191`
  speaks of the next port; the second candidate saves it.
* With `-r` alone and a peer that drops idle connections, the h2 task reconnects for
  ever: the error of `ready()` uses no attempt.
* A silent peer keeps a task past `-d`.
* `-t 0` leaves no instance to split the connections over: `engine.rs` divides by zero.
* `--http2` with monoio or compio named explicitly is accepted, although
  `src/README.md:74` rules it out: the request is HTTP/1 without a Host header. `-m`
  with them is accepted as well (`src/README.md:141`).
* `-C auto` with `--mcp` and a trailer becomes hyper-chunked (`main.rs:93`), and the
  MCP option has no effect. `AutoPicksCapable` leaves this case out.
* TRACE with one body is accepted (`main.rs:62` asks for more than one).
* Several bodies are not refused for the clients that send only the first one.
* A missing URI is not refused for every client.
* Without `--host`, the Host header takes a port from `--port` that an absolute URI
  does not show; and it prefers the URI's port to `--port`, while `get_conn_address`
  prefers `--port`.
* An integer or number whose schema gives a `minimum` above 1000, or equal bounds, is
  drawn from the default range (`hyper_mcp.rs:493`) and does not satisfy its schema.
* hyper-rt1 ignores `--rpc`.
* A raw client that reads an end of file before a response uses an attempt and
  records nothing, so that requests sent and outcomes reported differ.
* Over sse the posted messages carry no Content-Type, and the connection for them is
  HTTP/1 even with `--http2`.
* A bracket in front of a range (`[[1-2]`) keeps the range from being expanded.
* Cookies are matched against the URI's or `--host`'s name, a Host given with `-H`
  notwithstanding.
* With `--http2` and a plain `http` URI without a port the clients connect to 443
  (`client/utils.rs:467`) and the RSS hash is computed for port 80 (`rss.rs:573`), so the
  ports are balanced for queues the server does not use.

## 6. Limits

* `total` is a `u32` in the code; the models let it grow. A task would need
  4 * 10^9 attempts.
* `-r 0` returns before a connection is made; `--rpc 0` behaves as `--rpc 1`
  (`Most` says so).
* `H2Client` is not shown to implement `Worker`: a 200 whose body fails is recorded
  twice for one attempt.
* A panic in the monoio, compio or tokio-uring engines ends a thread, not a task;
  `Engine` models the tokio engine.
* Histograms, idle time, and everything printed are left out, except for the counts.
* `BalancedPorts` and `PortPool` take an arbitrary function from ports to queues for
  the hash; `RssTable` is where the hash itself is modelled.
* `RequestPlan` takes cookies as parsed records; `CheckOptions` takes the outcome of
  looking up addresses, keys and tables as arbitrary.
* The JSON of MCP is not modelled: a result is the expected one or not.
* Ports in use by other programs are not modelled: with them `OwnPort` cannot hold,
  and the candidates are there for them.

## 7. Plan

Left to do, in this order:

1. `TablesAgree` for every key and 4-tuple: the hash as sums over sets of bits in place
   of bit operations, which the prover could reason about.
2. `Shutdown` and `ParkClock`: the cursor guard against signals, and the idle clock
   that the worker threads of a runtime share. Both decide what is shown, not what
   is counted.
3. The values generated from a tool's schema, against the schema.

## 8. Running

    tlc -config HyperClient_requests.cfg HyperClient
    tlc -config LoadTask_clients.cfg LoadTask
    tlc -config Sequential_parts.cfg MCSequential
    tlapm HyperClientProofs.tla
    tlapm SetupProofs.tla
    tlapm TextProofs.tla

`tlc` takes seconds for most runs and about a minute for `engine`; `tlapm` about a
minute for each of the proof modules, and eight for `TextProofs`.
