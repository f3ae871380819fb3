----------------------------- MODULE MCMediaSync -----------------------------
(* A client and a host for MediaSync. *)
EXTENDS MediaSync

OneWay == {<<1, 2>>}
TwoThree == [v \in Version |-> IF v = 2 THEN 3 ELSE 2]    \* versions 1 and 3 have one size
OldAndNew == [n \in Node |-> n]
=============================================================================
