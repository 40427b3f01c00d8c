---------------------------- MODULE MCTransport -----------------------------
(* Model values for Transport: a transfer of two chunks or of one next to  *)
(* one of a single chunk, and transfers of three or two chunks next to one *)
(* that is refused, for it has too many or the 32-bit sum wraps.  Four     *)
(* bits of identifier in fields of two stand for forty in fields of twenty.*)
(* The transfer that is alone is attempted twice.  The receive queue is    *)
(* smaller than the prefill, just as large, or larger; and a receive may   *)
(* give a jfr only, next to one that gives the jetty.                      *)
EXTENDS Transport, TLC

CONSTANTS x1, x2

Two == {x1, x2}
One == {x1}
Case(a, b, n, d, jfr) ==
    [len |-> (x1 :> a @@ x2 :> b), attempts |-> n, depth |-> d, jfrOnly |-> jfr]
TwoEnds == {Case(3, 1, 1, 2, {}), Case(1, 1, 1, 1, {}), Case(1, 1, 1, 3, {x2}),
            Case(5, 7, 1, 1, {}), Case(3, 15, 2, 3, {})}
Retried == {[len |-> (x1 :> 3), attempts |-> 2, depth |-> 2, jfrOnly |-> {}]}
ServerKeys == x1 :> {0, 3} @@ x2 :> {0, 1}
ClientKeys == x1 :> {1, 2} @@ x2 :> {1}
=============================================================================
