---------------------------- MODULE MC_MainLoop ----------------------------
(* Model-checking instance of MainLoop; constants are given in the .cfg   *)
(* files, model values for the functions and NULL.                        *)
EXTENDS MainLoop, TLC

\* The main-loop functions are interchangeable model values.
FuncSymmetry == Permutations(Funcs)

=============================================================================
