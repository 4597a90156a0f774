------------------------------ MODULE PlanSets -------------------------------
(***************************************************************************)
(* Two families of plans: how a host is named, without cookies, and which  *)
(* cookies are sent, by a plain hyper client.                              *)
(***************************************************************************)


x   == <<"x">>
sub == <<"a", ".", "x">>

Host(n, p) == [name |-> n, port |-> p]

HostLists == {<<>>, <<Host(x, 0)>>, <<Host(sub, 82), Host(x, 0)>>}

Uris(schemes, names, ports, paths) ==
  [scheme : schemes, name : names, port : ports, path : paths]

Naming ==
  [client : {"hyper", "hyper-h2", "hyper-legacy", "reqwest", "compio"},
   uri : Uris({"http", "https"}, {x}, {0, 81}, {<<>>, <<"/">>}),
   hosts : HostLists, port : {0, 83}, absolute : BOOLEAN, http2 : BOOLEAN,
   body : BOOLEAN,
   own : {{}, {"host"}, {"content-length"}, {"transfer-encoding"}},
   cookies : {<<>>}]

(* The library clients.                                                    *)
LibraryPlans == {p \in Naming : p.client \in {"hyper-legacy", "reqwest"}}

Paths == {<<"/">>, <<"/", "a">>, <<"/", "a", "/">>, <<"/", "a", "/", "b">>,
          <<"/", "a", "b">>, <<>>}

Cookies(domains, flags, paths) ==
  [domain : domains, sub : flags, path : paths, secure : flags, expired : flags]

WithCookies(uris, cookies) ==
  [client : {"hyper"}, uri : uris, hosts : HostLists, port : {0},
   absolute : {FALSE}, http2 : {FALSE}, body : {FALSE}, own : {{}, {"cookie"}},
   cookies : cookies]

OneCookie ==
  WithCookies(Uris({"http", "https"}, {x, sub}, {0}, Paths),
              {<<c>> : c \in Cookies({x, sub, <<".", "x">>, <<"a", "x">>},
                                     BOOLEAN, Paths)})

TwoCookies ==
  WithCookies(Uris({"http"}, {x}, {0}, Paths),
              {<<c, d>> : c, d \in Cookies({x}, {FALSE}, Paths)})

AllPlans == Naming \cup OneCookie \cup TwoCookies
=============================================================================
