--------------------------- MODULE TransactionLog ---------------------------
(***************************************************************************)
(* The logs to which a transaction adds a row beside what it changes.  The *)
(* column a log is listed by has DEFAULT now(), which is when the          *)
(* transaction began, not when it was committed: rows carry the number     *)
(* (began) of their transaction in the order in which transactions begin.  *)
(*                                                                         *)
(* The database does not record when a row was committed.  Rows carry it   *)
(* too (until, the number of the latest transaction that had begun by      *)
(* then), for the properties alone.                                        *)
(***************************************************************************)
EXTENDS Integers

\* A row of a log.
Stamped(row, began, until) == [began |-> began, until |-> until, row |-> row]

\* Listings are ordered by began, newest first.
ListedAbove(q, r) == q.began > r.began

\* The transaction of q was under way when that of r was committed, or before.
BegunBy(q, r) == q.began <= r.until

\* Whatever is listed above r overlapped it; without overlaps r is on top.
TopButForOverlaps(log, r) == \A q \in log : ListedAbove(q, r) => BegunBy(q, r)
=============================================================================
