-------------------------- MODULE MCParentAssembly --------------------------
(***************************************************************************)
(* Instances of ParentAssembly: a root whose plan has two units, and one   *)
(* that is planned twice.                                                  *)
(***************************************************************************)
EXTENDS ParentAssembly

Nobody == {}
FirstChild == {1}
=============================================================================
