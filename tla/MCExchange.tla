----------------------------- MODULE MCExchange -----------------------------
(* Three attempts of 1, 2 and 4 ticks; the context leaves nothing, ends     *)
(* within the second attempt, or has no deadline that matters.              *)
EXTENDS Exchange

MCBackoff  == [n \in 0 .. 3 |-> <<1, 2, 4, 8>>[n + 1]]
MCCtxTimes == {0, 2, 9}
=============================================================================
