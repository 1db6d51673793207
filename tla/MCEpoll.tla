------------------------------ MODULE MCEpoll ------------------------------
(* TLC instances of Epoll. *)
EXTENDS Epoll, TLC

Symmetry == Permutations(Thread) \cup Permutations(Writer) \cup Permutations(Fd)
=============================================================================
