---------------------------- MODULE CheckOptions ----------------------------
(***************************************************************************)
(* check_options (src/main.rs) and init_source_ports (src/rss.rs), of a    *)
(* build with every client: the options are checked one after another, and *)
(* some checks complete or change what the later ones look at.  An options *)
(* record holds of each option what the checks tell apart:                 *)
(*   bodies, conns, threads   numbers;  m, range   numbers, 0 if not given *)
(*   uris      the set of their schemes, "bare" for a URI without one      *)
(*   host, sni "none", "names", or a list with an "empty" name or an       *)
(*             "inverted" range                                            *)
(*   rpc       "max" if not given, "few" below 100, "many" from 100 on     *)
(*   tuned     --metrics or an option of tokio or of hyper's HTTP/1        *)
(*   rss       which of "key" and "indir" are given                        *)
(*                                                                         *)
(* A definition named ...Mut is a bug one could write in the next one.     *)
(***************************************************************************)
EXTENDS Naturals

CONSTANT Asked   \* the options a user may give

VARIABLES
  asked,    \* as given
  opts,     \* as changed so far
  source,   \* "kernel", "range" or "balanced"
  check     \* the check to come, or "accepted", "help", "rejected"

optVars == <<asked, opts, source, check>>

RawSocket == {"tokio-uring", "monoio"}

SupportsHttps == {"auto", "hyper", "hyper-chunked", "hyper-h2", "reqwest", "hyper-mcp"}

SupportsSourcePorts ==
  {"auto", "hyper", "hyper-chunked", "hyper-h2", "hyper-mcp", "compio"}

Https == "https" \in opts.uris

OptInit ==
  /\ asked \in Asked /\ opts = asked
  /\ source = "kernel" /\ check = "method"

(* One check: refuse, or go on to the next one with o. *)
Check(this, refuse, o, next) ==
  /\ check = this
  /\ IF refuse THEN check' = "rejected" /\ opts' = opts
               ELSE check' = next /\ opts' = o
  /\ UNCHANGED <<asked, source>>

(* Trailers need a body to follow, and a body a method. *)
WithMethod(o) ==
  LET bodies == IF o.trailers /\ o.bodies = 0 THEN 1 ELSE o.bodies
  IN  [o EXCEPT !.bodies = bodies,
                !.method = IF @ # "none" THEN @
                           ELSE IF bodies = 0 THEN "GET" ELSE "POST"]

CheckMethod ==
  Check("method", opts.method = "TRACE" /\ opts.bodies > 1, WithMethod(opts), "mcp")

CheckMcp ==
  Check("mcp", opts.mcp /\ opts.client \notin {"auto", "hyper-mcp"}, opts, "trailers")

CheckTrailers ==
  Check("trailers",
        opts.trailers /\ opts.client \notin {"auto", "hyper-chunked", "hyper-h2"},
        IF opts.trailers /\ opts.client = "auto"
        THEN [opts EXCEPT !.client = "hyper-chunked"] ELSE opts,
        "cookies")

CheckCookies == Check("cookies", opts.cookies = "missing", opts, "client")

(* The match on the client. *)
Unfit ==
  \/ opts.client = "tokio-uring" /\ (opts.http2 \/ opts.m > 1 \/ opts.uris = {})
  \/ /\ opts.client \in {"auto", "hyper-legacy", "hyper", "hyper-rt1", "hyper-h2"}
     /\ opts.uris = {}
  \/ opts.client = "reqwest" /\ opts.sni # "none"
  \/ opts.client \in {"hyper-legacy", "hyper-rt1", "reqwest"} /\ opts.absolute

CheckClient ==
  Check("client", Unfit, opts, IF opts.client = "help" THEN "help" ELSE "schemes")

CheckSchemes ==
  Check("schemes", ~(opts.uris \subseteq {"http", "https", "bare"}), opts, "names")

(* An inverted range, or a name that is empty after the expansion. *)
BadNames(n) == n \in {"inverted", "empty"}

CheckNames == Check("names", BadNames(opts.host) \/ BadNames(opts.sni), opts, "https")

CheckHttps ==
  Check("https",
        IF Https THEN opts.client \notin SupportsHttps ELSE opts.sni # "none",
        opts, "threads")

(* is_multiple_of: nothing but zero is a multiple of zero; m = 0 stands    *)
(* for an option that is not given.                                        *)
CheckThreads ==
  Check("threads", opts.m > 0 /\ opts.threads % opts.m # 0, opts, "auto")

CanUseCompioMut(o) ==
  /\ "https" \notin o.uris
  /\ o.rpc # "few" /\ o.bodies <= 1 /\ ~o.trailers
  /\ o.m <= 1 /\ ~o.tuned
CanUseCompio(o) ==
  /\ "https" \notin o.uris /\ ~o.http2
  /\ o.rpc # "few" /\ o.bodies <= 1 /\ ~o.trailers
  /\ o.m <= 1 /\ ~o.tuned

Resolved(o) ==
  IF o.client # "auto" THEN o.client
  ELSE IF o.mcp THEN "hyper-mcp"
  ELSE IF o.bodies > 1 THEN "hyper-chunked"
  ELSE IF CanUseCompio(o) THEN "compio" ELSE "hyper"

ResolveAuto ==
  Check("auto", FALSE, [opts EXCEPT !.client = Resolved(opts)], "ports")

Manual == opts.range > 0 \/ opts.rss # {}

TooFewMut == opts.range + 1 < opts.conns
TooFew == opts.range < opts.conns

(* init_source_ports: the reasons to refuse that the options give. *)
NoSourcePorts ==
  \/ opts.rpc # "max"
  \/ Manual /\ opts.client \notin SupportsSourcePorts
  \/ opts.addr /\ opts.client \in RawSocket
  \/ /\ opts.conns > 0
     /\ \/ opts.range > 0 /\ TooFew
        \/ opts.rss # {} /\ (opts.rss # {"key", "indir"} \/ opts.uris = {})

(* The key, the table and the addresses are looked up elsewhere, and may   *)
(* turn out unusable.  The default range holds any number of connections.  *)
InitSourcePorts ==
  /\ check = "ports"
  /\ IF ~Manual /\ ~opts.addr THEN check' = "accepted" /\ source' = source
     ELSE IF NoSourcePorts    THEN check' = "rejected" /\ source' = source
     ELSE IF opts.conns > 0 /\ opts.rss # {}
     THEN \/ check' = "accepted" /\ source' = "balanced"
          \/ check' = "rejected" /\ source' = source
     ELSE check' = "accepted" /\ source' = IF opts.range > 0 THEN "range" ELSE source
  /\ UNCHANGED <<asked, opts>>

Verdict == check \in {"accepted", "help", "rejected"}

OptNext ==
  \/ CheckMethod \/ CheckMcp \/ CheckTrailers \/ CheckCookies \/ CheckClient
  \/ CheckSchemes \/ CheckNames \/ CheckHttps \/ CheckThreads \/ ResolveAuto
  \/ InitSourcePorts
  \/ Verdict /\ UNCHANGED optVars

OptSpec == OptInit /\ [][OptNext]_optVars
-----------------------------------------------------------------------------
Raw == RawSocket \cup {"compio"}

(* Which clients do what an option asks for, as their own code has it.     *)
Capable(o) ==
  [https    |-> IF "https" \in o.uris
                THEN {"hyper", "hyper-chunked", "hyper-h2", "hyper-mcp", "reqwest"}
                ELSE {o.client},
   trailers |-> IF o.trailers THEN {"hyper-chunked", "hyper-h2"} ELSE {o.client},
   bodies   |-> IF o.bodies > 1 THEN {"hyper-chunked", "hyper-mcp"} ELSE {o.client},
   mcp      |-> IF o.mcp /\ ~o.trailers THEN {"hyper-mcp"} ELSE {o.client},
   http1    |-> IF o.http2 \/ o.m > 1 \/ o.tuned THEN {o.client} \ Raw ELSE {o.client},
   ports    |-> IF o.range > 0 \/ o.rss # {}
                THEN {"hyper", "hyper-chunked", "hyper-h2", "hyper-mcp", "compio"}
                ELSE {o.client},
   absolute |-> {o.client} \ (IF o.absolute THEN {"hyper-legacy", "hyper-rt1", "reqwest"}
                              ELSE {})]

(* What -C auto is resolved to, after the checks and by whatever order of  *)
(* them, is a client of its own that does everything the options ask for.  *)
(* (MCP with a trailer is the one request that is dropped: the README says *)
(* more of it.)                                                            *)
AutoPicksCapable ==
  check = "accepted" /\ asked.client = "auto" =>
    /\ opts.client \notin {"auto", "help"}
    /\ \A need \in DOMAIN Capable(opts) : opts.client \in Capable(opts)[need]

(* What the engine, the port list and the clients take for granted of      *)
(* options that were accepted: runtimes of equally many threads, a port    *)
(* for every connection, sockets that can be bound and live long, server   *)
(* names that are sent and not empty, and, for a client that asks for one, *)
(* a URI.                                                                  *)
EngineCanRun ==
  check = "accepted" =>
    /\ opts.m > 0 => \E n \in 0 .. opts.threads : opts.threads = n * opts.m
    /\ source = "range" => opts.range >= opts.conns
    /\ source # "kernel" \/ opts.addr => opts.rpc = "max" /\ opts.client \notin RawSocket
    /\ opts.sni # "none" => Https /\ opts.sni = "names"
    /\ opts.host \in {"none", "names"}
    /\ opts.client \in {"hyper", "hyper-h2", "hyper-legacy", "hyper-rt1", "tokio-uring"}
         => opts.uris # {}
=============================================================================
