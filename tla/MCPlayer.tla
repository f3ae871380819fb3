------------------------------ MODULE MCPlayer ------------------------------
(* A small instance of Player: Mode B tasks of one kind are alike.         *)
EXTENDS Player
=============================================================================
