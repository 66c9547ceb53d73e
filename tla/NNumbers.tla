------------------------------ MODULE NNumbers ------------------------------
(***************************************************************************)
(* What the lookup and the search of the FAA registry have in common.      *)
(***************************************************************************)

CONSTANTS NNumber,    \* canonical N-numbers (normalizeNNumber)
          None        \* JavaScript's null
=============================================================================
