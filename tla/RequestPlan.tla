---------------------------- MODULE RequestPlan ----------------------------
(***************************************************************************)
(* The requests of a task, built once before its loop (src/client/         *)
(* utils.rs): build_request_targets makes a URI and headers for each       *)
(* --host, with the cookies that match it, and the raw clients add the     *)
(* length of the body.  Names and paths are sequences of characters in     *)
(* lower case; a port is a number, 0 for none.                             *)
(*                                                                         *)
(* A definition named ...Mut is a bug one could write in the next one.     *)
(***************************************************************************)
EXTENDS Ordering, SequencesExt

CONSTANT Plans
(* A plan: client, uri [scheme, name, port, path], hosts (--host: a        *)
(* sequence of [name, port]), port (--port), absolute, http2, body, own    *)
(* (the names of the -H headers), cookies (a sequence of [domain, sub,     *)
(* path, secure, expired]).                                                *)

VARIABLES
  plan,      \* the options
  targets,   \* targets
  wired      \* the raw clients' templates are serialized

planVars == <<plan, targets, wired>>

PlanInit == plan \in Plans /\ targets = <<>> /\ wired = FALSE

RawClients == {"compio", "monoio", "tokio-uring"}

(* hyper-h2 builds its targets as if --http2 were given. *)
Http2 == plan.http2 \/ plan.client = "hyper-h2"

(* Which clients ask for the absolute form. *)
Absolute ==
  \/ plan.client \in {"hyper-legacy", "hyper-rt1", "hyper-h2"}
  \/ plan.client # "reqwest" /\ plan.absolute
  \/ plan.client \in {"hyper", "hyper-chunked", "hyper-mcp"} /\ plan.http2

(* format_host_authority: a port of its own, or the URI's, or --port.      *)
Authority(h) ==
  IF h.port # 0 THEN h
  ELSE [h EXCEPT !.port = IF plan.uri.port # 0 THEN plan.uri.port ELSE plan.port]

UriHost == [name |-> plan.uri.name, port |-> 0]

Slash(path) == IF path = <<>> THEN <<"/">> ELSE path

OriginForm == [form |-> "origin", path |-> Slash(plan.uri.path)]

AbsoluteForm(host, scheme, path) ==
  [form |-> "absolute", host |-> host, scheme |-> scheme, path |-> path]

(* request_uri_for_host; hs is the override, or no host. *)
RequestUri(hs) ==
  IF ~Absolute THEN OriginForm
  ELSE IF hs = <<>>
  THEN AbsoluteForm([name |-> plan.uri.name, port |-> plan.uri.port],
                    plan.uri.scheme, plan.uri.path)
  ELSE AbsoluteForm(Authority(hs[1]),
                    IF plan.uri.scheme = "" THEN "http" ELSE plan.uri.scheme,
                    Slash(plan.uri.path))

PathMatchesMut(cp, rp) == IsPrefix(cp, rp)
(* path_matches: a prefix that ends at a slash. *)
PathMatches(cp, rp) ==
  \/ cp = rp
  \/ /\ IsPrefix(cp, rp)
     /\ cp[Len(cp)] = "/" \/ (Len(rp) > Len(cp) /\ rp[Len(cp) + 1] = "/")

Undotted(d) == IF d # <<>> /\ d[1] = "." THEN Tail(d) ELSE d

DomainMatches(c, name) ==
  LET d == Undotted(c.domain)
  IN  \/ name = d
      \/ /\ c.sub /\ Len(name) > Len(d) /\ IsSuffix(d, name)
         /\ name[Len(name) - Len(d)] = "."

(* match_cookies: the ones that apply, the longest path first. *)
Applies(c, uri, name) ==
  /\ ~c.expired
  /\ c.secure => uri.scheme = "https"
  /\ PathMatches(Slash(c.path), Slash(uri.path))
  /\ DomainMatches(c, name)

MatchCookies(cookies, uri, name) ==
  LET matching == {i \in 1 .. Len(cookies) : Applies(cookies[i], uri, name)}
      longer(i, j) ==
        \/ Len(cookies[i].path) > Len(cookies[j].path)
        \/ Len(cookies[i].path) = Len(cookies[j].path) /\ i < j
  IN  Sorted(matching, {p \in matching \X matching : longer(p[1], p[2])})

(* build_headers_with_cookies: the -H headers, the cookies, and a Host     *)
(* unless HTTP/2 or -H has it.                                             *)
Headers(hs) ==
  LET host == IF hs = <<>> THEN UriHost ELSE hs[1]
      sent == MatchCookies(plan.cookies, plan.uri, host.name)
  IN  [names |-> plan.own
                   \cup (IF sent # <<>> THEN {"cookie"} ELSE {})
                   \cup (IF Http2 \/ host.name = <<>> THEN {} ELSE {"host"}),
       host |-> IF Http2 \/ "host" \in plan.own \/ host.name = <<>> THEN <<>>
                ELSE <<Authority(host)>>,
       cookies |-> sent]

Target(hs) == [uri |-> RequestUri(hs), headers |-> Headers(hs)]

AllBuilt == Len(targets) = IF plan.hosts = <<>> THEN 1 ELSE Len(plan.hosts)

BuildSingle ==
  /\ plan.hosts = <<>> /\ ~AllBuilt
  /\ targets' = <<Target(<<>>)>>
  /\ UNCHANGED <<plan, wired>>

BuildNext ==
  /\ plan.hosts # <<>> /\ ~AllBuilt
  /\ targets' = Append(targets, Target(<<plan.hosts[Len(targets) + 1]>>))
  /\ UNCHANGED <<plan, wired>>

EnsureLengthMut(names) == IF plan.body THEN names \cup {"content-length"} ELSE names
(* ensure_content_length *)
EnsureLength(names) ==
  IF plan.body /\ names \cap {"content-length", "transfer-encoding"} = {}
  THEN names \cup {"content-length"} ELSE names

Serialize ==
  /\ AllBuilt /\ ~wired /\ plan.client \in RawClients
  /\ targets' = [i \in 1 .. Len(targets) |->
                   [targets[i] EXCEPT !.headers.names = EnsureLength(@)]]
  /\ wired' = TRUE
  /\ UNCHANGED plan

(* What the loop sends for a target: the library clients put the URI as it *)
(* was given into every request.                                           *)
Library == {"hyper-legacy", "hyper-rt1", "reqwest"}

GivenUri ==
  AbsoluteForm([name |-> plan.uri.name, port |-> plan.uri.port],
               plan.uri.scheme, plan.uri.path)

Request(i) ==
  IF plan.client \in Library THEN [targets[i] EXCEPT !.uri = GivenUri] ELSE targets[i]

Built == AllBuilt /\ (plan.client \in RawClients => wired)

PlanNext == BuildSingle \/ BuildNext \/ Serialize \/ (Built /\ UNCHANGED planVars)

PlanSpec == PlanInit /\ [][PlanNext]_planVars
-----------------------------------------------------------------------------
(* Every request says consistently whom it is for: the targets are the     *)
(* --host values in their order, the Host header and the authority of an   *)
(* absolute URI agree, one of them is there (--http2 with a raw client     *)
(* apart, which the README rules out), and a raw client's body has one     *)
(* framing.  Of a library client only the Host header follows --host.      *)
RequestsAddressed ==
  Built =>
    \A i \in 1 .. Len(targets) :
      LET uri   == Request(i).uri
          names == Request(i).headers.names
          host  == Request(i).headers.host
      IN  /\ plan.hosts # <<>> =>
               /\ host # <<>> => host[1].name = plan.hosts[i].name
               /\ uri.form = "absolute" /\ plan.client \notin Library =>
                    /\ uri.host.name = plan.hosts[i].name
                    /\ host # <<>> => uri.host = host[1]
          /\ (plan.client \notin RawClients \/ ~plan.http2) =>
               uri.form = "absolute" \/ "host" \in names
          /\ plan.client \in RawClients /\ plan.body =>
               (("content-length" \in names) # ("transfer-encoding" \in names))

(* README, --host: "Override the HTTP `Host` header (or `:authority` in    *)
(* HTTP/2) for virtual hosting": a request names its --host in one of the  *)
(* two, unless -H gives a Host of its own.                                 *)
HostOverrides ==
  Built /\ plan.hosts # <<>> /\ "host" \notin plan.own =>
    \A i \in 1 .. Len(targets) :
      \/ /\ Request(i).uri.form = "absolute"
         /\ Request(i).uri.host.name = plan.hosts[i].name
      \/ \E h \in ToSet(Request(i).headers.host) : h.name = plan.hosts[i].name

(* Reference for the cookies: by the labels of a domain and the segments   *)
(* of a path.                                                              *)
InPath(cp, rp) ==
  LET c == Pieces(cp, "/")  r == Pieces(rp, "/")
  IN  IF c[Len(c)] = <<>> THEN Len(c) <= Len(r) /\ IsPrefix(Front(c), r)
                          ELSE IsPrefix(c, r)

InDomain(c, name) ==
  LET d == Pieces(Undotted(c.domain), ".")  n == Pieces(name, ".")
  IN  IF c.sub THEN IsSuffix(d, n) ELSE d = n

(* A request carries the cookies whose scope it is in and no other: not    *)
(* those of a sibling host or of a path that only begins alike, no expired *)
(* one, none marked secure over http; the one of the longest path is first.*)
CookiesInScope ==
  Built =>
    \A i \in 1 .. Len(targets) :
      LET name == IF plan.hosts = <<>> THEN plan.uri.name ELSE plan.hosts[i].name
          sent == targets[i].headers.cookies
      IN  /\ ToSet(sent) =
               {k \in 1 .. Len(plan.cookies) :
                  LET c == plan.cookies[k]
                  IN  /\ InDomain(c, name)
                      /\ InPath(Slash(c.path), Slash(plan.uri.path))
                      /\ ~c.expired /\ (c.secure => plan.uri.scheme = "https")}
          /\ \A j, k \in 1 .. Len(sent) :
               j < k => Len(plan.cookies[sent[j]].path) >= Len(plan.cookies[sent[k]].path)
=============================================================================
