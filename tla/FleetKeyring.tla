---------------------------- MODULE FleetKeyring ----------------------------
(***************************************************************************)
(* What the fleet promises about its group key, apart from how a leader is *)
(* found.  A key enters the fleet when a conductor without one mints it,   *)
(* and travels only from a conductor to a unit that has none or that is    *)
(* not itself an elected leader.  An elected leader gives its key up only  *)
(* by resigning, any other unit only by losing power.                      *)
(***************************************************************************)
EXTENDS Naturals

CONSTANTS Node, Key

NoKey == 0

VARIABLES
    seat,   \* seat[n]: whether n leads, by election or by owning the SoftAP
    key     \* key[n]: the fleet key n holds

ringVars == <<seat, key>>

Seats == {"none", "elected", "softap"}

Init ==
    /\ seat = [n \in Node |-> "none"]
    /\ key = [n \in Node |-> NoKey]

\* n takes or leaves a seat and keeps its key.
Reseat(n) ==
    /\ \E s \in Seats : seat' = [seat EXCEPT ![n] = s]
    /\ UNCHANGED key

\* A leader mints a key if it has none and hands its key to the units in W.
Share(n, W) ==
    /\ seat[n] # "none"
    /\ \A m \in W : key[m] = NoKey \/ seat[m] # "elected"
    /\ \E k \in Key :
        /\ IF key[n] = NoKey THEN \A m \in Node : key[m] # k ELSE k = key[n]
        /\ key' = [m \in Node |-> IF m = n \/ m \in W THEN k ELSE key[m]]
    /\ UNCHANGED seat

\* An elected leader defers to another and drops its key.
Resign(n) ==
    /\ seat[n] = "elected"
    /\ seat' = [seat EXCEPT ![n] = "none"]
    /\ key' = [key EXCEPT ![n] = NoKey]

LosePower(n) ==
    /\ seat' = [seat EXCEPT ![n] = "none"]
    /\ key' = [key EXCEPT ![n] = NoKey]

Next == \E n \in Node :
    \/ Reseat(n)
    \/ \E W \in SUBSET (Node \ {n}) : Share(n, W)
    \/ Resign(n)
    \/ LosePower(n)

Spec == Init /\ [][Next]_ringVars
=============================================================================
