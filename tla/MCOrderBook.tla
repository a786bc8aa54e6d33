---------------------------- MODULE MCOrderBook ----------------------------
(* Model-checking instance of OrderBook. *)
EXTENDS OrderBook

\* Updates 2 and 3 share a timestamp.
CoarseTime == [k \in 1..MaxUpdates |-> IF k < 3 THEN k ELSE k - 1]
=============================================================================
