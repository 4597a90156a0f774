------------------------------ MODULE OptionSets -----------------------------
(***************************************************************************)
(* Every combination of at most three options, the client being one, with  *)
(* two connections on two threads.                                         *)
(***************************************************************************)
EXTENDS Naturals

Default ==
  [client |-> "auto", method |-> "none", bodies |-> 0, trailers |-> FALSE,
   mcp |-> FALSE, cookies |-> "none", http2 |-> FALSE, m |-> 0, threads |-> 2,
   uris |-> {"http"}, host |-> "none", sni |-> "none", absolute |-> FALSE,
   rpc |-> "max", tuned |-> FALSE, addr |-> FALSE, range |-> 0, rss |-> {},
   conns |-> 2]

Clients ==
  {"auto", "hyper", "hyper-chunked", "hyper-h2", "hyper-mcp", "hyper-legacy",
   "hyper-rt1", "reqwest", "tokio-uring", "monoio", "compio", "help"}

(* The values an option may take; "threads", "cookies" and "conns" may stay*)
(* as they are, so that fewer than three options are a combination too.    *)
Alternatives ==
  [client |-> Clients, method |-> {"TRACE"}, bodies |-> {1, 2}, trailers |-> {TRUE},
   mcp |-> {TRUE}, cookies |-> {"none", "missing"}, http2 |-> {TRUE},
   m |-> {1, 2, 3}, threads |-> {2, 3},
   uris |-> {{}, {"https"}, {"http", "https"}, {"other"}, {"bare"}},
   host |-> {"names", "empty"}, sni |-> {"names", "inverted"},
   absolute |-> {TRUE}, rpc |-> {"few", "many"}, tuned |-> {TRUE}, addr |-> {TRUE},
   range |-> {1, 5}, rss |-> {{"key"}, {"key", "indir"}}, conns |-> {2, 0}]

Fields ==
  <<"client", "method", "bodies", "trailers", "mcp", "cookies", "http2", "m",
    "threads", "uris", "host", "sni", "absolute", "rpc", "tuned", "addr", "range",
    "rss", "conns">>

ThreeOptions ==
  {[Default EXCEPT ![Fields[x[1]]] = u, ![Fields[x[2]]] = v, ![Fields[x[3]]] = w] :
     <<x, u, v, w>> \in
       UNION {{x} \X Alternatives[Fields[x[1]]] \X Alternatives[Fields[x[2]]]
                 \X Alternatives[Fields[x[3]]] :
                x \in {y \in (1 .. 19) \X (1 .. 19) \X (1 .. 19) :
                         y[1] < y[2] /\ y[2] < y[3]}}}
=============================================================================
