-------------------------------- MODULE Inputs --------------------------------
(***************************************************************************)
(* The input of an operator, or the declaration, that a property is about. *)
(* Its kind says what else it has; the modules of the properties say what  *)
(* they expect of it.                                                      *)
(***************************************************************************)
VARIABLE input
===============================================================================
