-------------------------- MODULE MCProcessManager --------------------------
(* TLC instances of ProcessManager. *)
EXTENDS ProcessManager, TLC

\* Every process but the first is like every other, and so is every CPU.
Symmetry == Permutations(Pid \ {InitPid}) \cup Permutations(Cpu)
=============================================================================
