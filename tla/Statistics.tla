----------------------------- MODULE Statistics -----------------------------
(***************************************************************************)
(* The counters a load task keeps (src/stats.rs).  The two maps of the     *)
(* code are kept as totals: `fail` is the sum of the status map and `err`  *)
(* the sum of the error map, because no client behaves differently for a   *)
(* different status code or error text.  The task bumps the shared         *)
(* RealtimeStats in the same poll; module Engine models that half.         *)
(***************************************************************************)
EXTENDS Naturals

(* What a request can be counted as. *)
Outcomes == {"ok", "fail", "err"}

Stats == [conn : Nat, ok : Nat, fail : Nat, err : Nat]

NewStats == [conn |-> 0, ok |-> 0, fail |-> 0, err |-> 0]

(* A definition named ...Mut is a bug one could write in the next one.     *)
IncConn(s) == [s EXCEPT !.conn = @ + 1]

IncOk(s) == [s EXCEPT !.ok = @ + 1]

(* set_http_status: 200 is an ok, every other code goes to the status map. *)
SetHttpStatusMut(s, code) == IF code = 200 THEN IncOk(s) ELSE s
SetHttpStatus(s, code) ==
  IF code = 200 THEN IncOk(s) ELSE [s EXCEPT !.fail = @ + 1]

SetError(s) == [s EXCEPT !.err = @ + 1]

AddMut(a, b) ==
  [conn |-> a.conn + b.conn, ok |-> a.ok + b.ok,
   fail |-> b.fail, err |-> b.err]
(* `+` on Statistics: the maps are merged key by key, so the totals add. *)
Add(a, b) ==
  [conn |-> a.conn + b.conn, ok   |-> a.ok + b.ok,
   fail |-> a.fail + b.fail, err  |-> a.err + b.err]

(* Derived: responses read to the end, and everything recorded. *)
Answered(s) == s.ok + s.fail
Recorded(s) == s.ok + s.fail + s.err
=============================================================================
