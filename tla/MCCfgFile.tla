------------------------------- MODULE MCCfgFile -------------------------------
(* CfgFile for TLC: the names besides the default are interchangeable, and so   *)
(* are the extensions.                                                          *)
EXTENDS CfgFile, TLC
CONSTANTS n1, n2, x1, x2
Symmetry == Permutations({n1, n2}) \cup Permutations(Exts)
================================================================================
