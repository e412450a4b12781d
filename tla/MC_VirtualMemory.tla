-------------------------- MODULE MC_VirtualMemory --------------------------
(***************************************************************************)
(* VirtualMemory on small instances.  Processes are interchangeable: no    *)
(* definition compares two of them except for equality.                    *)
(***************************************************************************)
EXTENDS VirtualMemory, TLC

Symmetry == Permutations(Procs)
=============================================================================
