---------------------------- MODULE MCFaaFields ----------------------------
(* A small instance of FaaFields for TLC. *)
EXTENDS FaaFields

CONSTANTS n1, n2, make, year

\* "n1" and "N1" name one aircraft.
MCText == {"", "n1", "N1", "N2"}
MCNormalize == [t \in MCText |-> CASE t = "" -> None
                                   [] t \in {"n1", "N1"} -> n1
                                   [] OTHER -> n2]
MCLower == [t \in MCText |-> IF t = "N1" THEN "n1" ELSE t]

\* The second aircraft may be unknown, or known without a year.
MCRegistries ==
    {[n \in {n1, n2} |-> IF n = n1 THEN [f \in Field |-> "a"] ELSE other] :
        other \in {None, [f \in Field |-> IF f = make THEN "b" ELSE None]}}
=============================================================================
