---------------------------- MODULE MCAdmission ----------------------------
(***************************************************************************)
(* Instances of Admission: three hosts for a registry of two; one of them  *)
(* may appear on the network card, one has a name the file cannot hold.    *)
(***************************************************************************)
EXTENDS Admission

OneColumn == {{1}}
=============================================================================
