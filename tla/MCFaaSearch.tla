---------------------------- MODULE MCFaaSearch ----------------------------
(* A small instance of FaaSearch for TLC: N-number 1 is too short to search *)
(* for, 12 starts two aircraft, 123 is one of them, 13 is none.             *)
EXTENDS FaaSearch

CONSTANTS n1, n12, n123, n13

MCSearch == [q \in {n12, n123, n13} |-> CASE q = n12 -> <<n12, n123>>
                                         [] q = n123 -> <<n123>>
                                         [] q = n13 -> <<>>]
=============================================================================
