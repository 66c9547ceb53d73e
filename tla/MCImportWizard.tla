-------------------------- MODULE MCImportWizard --------------------------
(* A small instance of ImportWizard for TLC: a CSV whose second header is
   padded, and a workbook without data rows. *)
EXTENDS ImportWizard, TLC

CONSTANTS f1, f2

Kind(head, cols, text, xlsx, rows) ==
    [head |-> head, columns |-> cols, text |-> text, xlsx |-> xlsx, rows |-> rows]

MCFileOf ==
    (f1 :> Kind({"A", "B"}, {"A"}, TRUE, FALSE, TRUE))
    @@ (f2 :> Kind({}, {"A", "B"}, FALSE, TRUE, FALSE))
=============================================================================
