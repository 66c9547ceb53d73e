---------------------------- MODULE MCImportJob ----------------------------
(* The model-checking instances of ImportJob: see the ImportJob*.cfg files. *)
EXTENDS ImportJob
=============================================================================
