------------------------------ MODULE MCFutex ------------------------------
(* TLC instances of Futex. *)
EXTENDS Futex, TLC

=============================================================================
