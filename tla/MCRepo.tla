------------------------------- MODULE MCRepo -------------------------------
(* Values of the constants of Repo for TLC. *)
EXTENDS Repo

OnePackage == {"launcher"}
=============================================================================
