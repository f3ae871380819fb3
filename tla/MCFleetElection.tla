-------------------------- MODULE MCFleetElection --------------------------
(* A small fleet for FleetElection. *)
EXTENDS FleetElection

TwoNodes == {1, 2}

\* The worst case for collisions.
SameJitter == [n \in Node |-> 1]

AllTroubles == {"prio", "auto", "anchor", "follow", "off", "conduct", "join", "wifi",
                "power", "link"}
=============================================================================
