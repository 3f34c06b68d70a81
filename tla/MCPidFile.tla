------------------------------- MODULE MCPidFile -------------------------------
(* PidFile for TLC: instances and files are interchangeable.                    *)
EXTENDS PidFile, TLC
CONSTANTS p1, p2, p3, f1, f2, f3, f4
Symmetry == Permutations(Procs) \cup Permutations(Files)
================================================================================
