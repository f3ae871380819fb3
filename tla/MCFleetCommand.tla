--------------------------- MODULE MCFleetCommand ---------------------------
(* Small fleets for FleetCommand; unit 1 leads. *)
EXTENDS FleetCommand

Pair == {1, 2}
Trio == {1, 2, 3}

AllOfOne == [k \in Console |-> 1]      \* several consoles of unit 1
OneEach == [k \in Console |-> k]       \* console k is the console of unit k

\* The consoles of one unit are interchangeable.
ConsoleSymmetry == Permutations(Console)
=============================================================================
