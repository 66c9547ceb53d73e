--------------------------- MODULE MCFaaRegistry ---------------------------
(* Small instances of FaaRegistry for TLC. *)
EXTENDS FaaRegistry

Row(owner, addr, other) ==
    [owner_name |-> owner, address |-> addr, expiration_date |-> 1,
     airworthiness_date |-> 1, other |-> other]

\* A row, and its transfer to another owner at the same address.
MCBody == {Row("a", 1, 1), Row("b", 1, 2)}
=============================================================================
