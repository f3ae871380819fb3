------------------------------ MODULE MCWalker ------------------------------
EXTENDS Walker

\* Two strips of four pixels, so that he spawns one pixel left of the seam.  He
\* crosses it and returns; or he crosses it just before the anchor and leaves the world.
Worlds == { [q \in 0 .. 9 |-> <<1, 1, 1, -1, -1, -1, 1, 1, 0, 0>>[q + 1]],
            [q \in 0 .. 9 |-> <<0, 0, 1, 1, 1, 2, 0, 0, 0, 0>>[q + 1]] }
=============================================================================
