--------------------------- MODULE FleetElection ---------------------------
(***************************************************************************)
(* Leader election and fleet-key custody of a WHM fleet (main/sync.c).     *)
(*                                                                         *)
(* Every node runs announce_task once a second: first election_tick, then  *)
(* one announce broadcast; a conductor also mints the fleet key when it    *)
(* has none and sends it to its peers.  recv_task keeps the peer table,    *)
(* the fleet key and the wall clock.  The console changes mode, role,      *)
(* priority and pin at any moment.  Time advances in rounds of one second: *)
(* in a round every powered node runs its loop once, in any order.         *)
(***************************************************************************)
EXTENDS Naturals, FiniteSets

CONSTANTS
    Node,        \* the units; a name is a number, ordered as strncmp orders names
    Prio,        \* election weights in use; 0 = follower only
    AnchorPrio,  \* the weight `sync anchor` raises a unit to (200)
    Fresh,       \* CLAIM_FRESH_US in rounds
    Jitter,      \* Jitter[n]: the wait hashed from n's name, in rounds
    Key,         \* identities of fleet keys
    Troubles,    \* what the environment may do: console commands, "power", "link"
    Drops,       \* whether single datagrams may be lost on a working link
    MaxDisturb   \* bound on commands, power losses and link losses

ASSUME NodeAssumption == Node \subseteq Nat \ {0}
ASSUME PrioAssumption == Prio \subseteq Nat /\ 0 \in Prio /\ AnchorPrio \in Prio \ {0}
ASSUME TimeAssumption == Fresh \in Nat \ {0} /\ Jitter \in [Node -> Nat \ {0}]
ASSUME KeyAssumption == Key \subseteq Nat \ {0}
ASSUME BoundAssumption == Drops \in BOOLEAN /\ MaxDisturb \in Nat

NoName == 0     \* the empty string in s_anchor_name, s_peer_name, "sync_peer"
NoKey == 0      \* s_kf_have == false
House == 0      \* the access point of the house network

Modes == {"off", "softap", "auto"}            \* sync_mode_t
Roles == {"off", "member", "conductor"}       \* whm_sync_role_t

VARIABLES
    up,        \* the unit has power
    linked,    \* its radio is associated
    phase,     \* announce_task: about to elect, about to announce, or sleeping
    mode,      \* s_smode
    role,      \* s_role
    prio,      \* s_prio, saved in NVS at every change
    pin,       \* s_peer_name
    anchor,    \* s_anchor_name
    timer,     \* s_promote_at: 0 when unset, else 1 + the rounds left
    claim,     \* s_peers: claim[n][m] is the claim of m in n's table
    key,       \* s_kf
    wall,      \* whose announce set the wall clock since s_wall_applied was cleared
    nvs,       \* the saved sync_mode, sync_role and sync_peer
    bss,       \* the network the radio is on: House, or the SoftAP of a unit
    calm,      \* from here on no loss, no command, no power loss
    disturb    \* commands, power losses and link losses so far

electing == <<role, pin, anchor, timer>>
saved == <<nvs, bss>>
world == <<up, linked, calm, disturb>>
vars == <<up, linked, phase, mode, role, prio, pin, anchor, timer, claim, key, wall,
          nvs, bss, calm, disturb>>

-----------------------------------------------------------------------------
(* The peer table.  Only conductors' entries rank, so a member's entry and *)
(* a stale one are both NoClaim.                                           *)

NoClaim == [prio |-> 0, age |-> Fresh + 1]
Claims == {NoClaim} \cup [prio : Prio, age : 0 .. Fresh]

\* claim_rank_gt, as node n sees it: the pin first, then weight, then name.
OutranksFor(n, ap, a, bp, b) ==
    IF pin[n] # NoName /\ (a = pin[n]) # (b = pin[n])
    THEN a = pin[n]
    ELSE ap > bp \/ (ap = bp /\ a > b)

LiveClaims(n) == {m \in Node \ {n} : claim[n][m].age <= Fresh}

\* best_live_claim: the empty set, or the one claim no other outranks.
BestClaim(n) ==
    {b \in LiveClaims(n) : \A m \in LiveClaims(n) \ {b} :
        OutranksFor(n, claim[n][b].prio, b, claim[n][m].prio, m)}

-----------------------------------------------------------------------------
(* election_tick *)

Elects(n) == up[n] /\ phase[n] = "elect" /\ phase' = [phase EXCEPT ![n] = "announce"]

\* What the tick leaves alone in every branch.
TickFrame == UNCHANGED <<mode, prio, claim, saved, world>>

\* A conductor hears a better claim: it becomes a member, pins the winner
\* and wipes its key.
StepDown(n) ==
    /\ Elects(n) /\ mode[n] = "auto" /\ role[n] = "conductor"
    /\ \E b \in BestClaim(n) :
        /\ OutranksFor(n, claim[n][b].prio, b, prio[n], n)
        /\ anchor' = [anchor EXCEPT ![n] = b]
        /\ pin' = [pin EXCEPT ![n] = b]
    /\ role' = [role EXCEPT ![n] = "member"]
    /\ wall' = [wall EXCEPT ![n] = NoName]
    /\ key' = [key EXCEPT ![n] = NoKey]
    /\ UNCHANGED timer /\ TickFrame

\* Any other unit follows the best claim it hears, and pins it when it is new.
FollowClaim(n) ==
    /\ Elects(n) /\ mode[n] = "auto" /\ role[n] # "conductor"
    /\ \E b \in BestClaim(n) :
        IF anchor[n] = b
        THEN UNCHANGED <<anchor, pin, wall>>
        ELSE /\ anchor' = [anchor EXCEPT ![n] = b]
             /\ pin' = [pin EXCEPT ![n] = b]
             /\ wall' = [wall EXCEPT ![n] = NoName]
    /\ timer' = [timer EXCEPT ![n] = 0]
    /\ UNCHANGED <<role, key>> /\ TickFrame

Leaderless(n) ==
    mode[n] = "auto" /\ role[n] # "conductor" /\ BestClaim(n) = {}

ArmTimer(n) ==
    /\ Elects(n) /\ Leaderless(n) /\ prio[n] # 0 /\ timer[n] = 0
    /\ timer' = [timer EXCEPT ![n] = Jitter[n] + 1]
    /\ UNCHANGED <<role, pin, anchor, key, wall>> /\ TickFrame

\* Mutant: s_anchor_name is left as it was.
PromoteKeepingAnchor(n) ==
    /\ Elects(n) /\ Leaderless(n) /\ prio[n] # 0 /\ timer[n] = 1
    /\ role' = [role EXCEPT ![n] = "conductor"]
    /\ timer' = [timer EXCEPT ![n] = 0]
    /\ UNCHANGED <<pin, anchor, key, wall>> /\ TickFrame

Promote(n) ==
    /\ Elects(n) /\ Leaderless(n) /\ prio[n] # 0 /\ timer[n] = 1
    /\ role' = [role EXCEPT ![n] = "conductor"]
    /\ timer' = [timer EXCEPT ![n] = 0]
    /\ anchor' = [anchor EXCEPT ![n] = n]
    /\ UNCHANGED <<pin, key, wall>> /\ TickFrame

\* The early returns: not in elections, an unchallenged conductor, a
\* follower-only unit, a deadline still ahead.
TickIdle(n) ==
    /\ Elects(n)
    /\ \/ mode[n] # "auto"
       \/ /\ role[n] = "conductor"
          /\ \A b \in BestClaim(n) : ~OutranksFor(n, claim[n][b].prio, b, prio[n], n)
       \/ Leaderless(n) /\ (prio[n] = 0 \/ timer[n] > 1)
    /\ UNCHANGED <<electing, key, wall>> /\ TickFrame

ElectionTick(n) ==
    StepDown(n) \/ FollowClaim(n) \/ ArmTimer(n) \/ Promote(n) \/ TickIdle(n)

-----------------------------------------------------------------------------
(* The rest of the announce_task iteration, and recv_task at the units the *)
(* datagrams reach.  A broadcast reaches any subset of the units on the    *)
(* same network; once the environment is calm it reaches all of them.      *)

OnAir(n) ==
    /\ up[n] /\ linked[n]
    /\ bss[n] # House => up[bss[n]] /\ bss[bss[n]] = bss[n]

Audience(n) == {m \in Node \ {n} : OnAir(n) /\ OnAir(m) /\ bss[m] = bss[n]}

Reached(n) == IF Drops /\ ~calm THEN SUBSET Audience(n) ELSE {Audience(n)}

\* maybe_take_wall_clock at m for n's announce; the role byte of an elected
\* anchor carries bit 7 and is not WHM_SYNC_CONDUCTOR.
TakesWall(m, n) ==
    /\ role[m] = "member"
    /\ role[n] = "conductor" /\ mode[n] # "auto"
    /\ mode[m] = "auto" /\ anchor[m] # NoName => anchor[m] = n

\* Mutants: every wrap is taken; a key, once held, is never replaced.
AcceptsAnyWrap(m, n) == TRUE
AcceptsFirstWrap(m, n) == key[m] = NoKey

\* The type-14 handler at m: without a key any wrap is taken, with one only
\* the wrap of the unit m follows.
AcceptsWrap(m, n) == key[m] = NoKey \/ anchor[m] = n

\* note_peer at every unit the announce reaches.
Hear(n, R, c) ==
    claim' = [m \in Node |-> IF m \in R THEN [claim[m] EXCEPT ![n] = c] ELSE claim[m]]

\* seal_tx's key must exist before it is wrapped: mint one when there is none.
\* A fresh random key differs from every key in use; the least unused identity
\* stands for it.
UnusedKeys == {k \in Key : \A m \in Node : key[m] # k}

FleetKeys(n) ==
    IF key[n] # NoKey THEN {key[n]}
    ELSE {k \in UnusedKeys : \A j \in UnusedKeys : k <= j}

Announces(n) == up[n] /\ phase[n] = "announce" /\ phase' = [phase EXCEPT ![n] = "slept"]

AnnounceFrame == UNCHANGED <<mode, prio, electing, saved, world>>

\* A conductor announces every second; wraps ride along when `wraps`.
ConductorAnnounce(n, wraps) ==
    /\ Announces(n) /\ role[n] = "conductor"
    /\ \E R \in Reached(n), W \in (IF wraps THEN Reached(n) ELSE {{}}), k \in FleetKeys(n) :
        /\ Hear(n, R, [prio |-> prio[n], age |-> 0])
        /\ wall' = [m \in Node |-> IF m \in R /\ TakesWall(m, n) THEN n ELSE wall[m]]
        /\ key' = [m \in Node |-> IF m = n \/ (m \in W /\ AcceptsWrap(m, n))
                                  THEN k ELSE key[m]]
    /\ AnnounceFrame

\* A member announces in every fifth second.
MemberAnnounce(n) ==
    /\ Announces(n) /\ role[n] = "member"
    /\ \E R \in Reached(n) : Hear(n, R, NoClaim)
    /\ UNCHANGED <<key, wall>> /\ AnnounceFrame

\* Nothing due in this second, or the role is off.
SkipAnnounce(n) ==
    /\ Announces(n) /\ role[n] # "conductor"
    /\ UNCHANGED <<claim, key, wall>> /\ AnnounceFrame

Announce(n) ==
    \/ \E wraps \in BOOLEAN : ConductorAnnounce(n, wraps)
    \/ MemberAnnounce(n)
    \/ SkipAnnounce(n)

-----------------------------------------------------------------------------
(* One second passes once every powered unit has run its loop. *)

\* Mutant: a claim counts one second too long.
OlderByOne(c) == IF c.age <= Fresh THEN [c EXCEPT !.age = @ + 1] ELSE NoClaim

Older(c) == IF c.age < Fresh THEN [c EXCEPT !.age = @ + 1] ELSE NoClaim

Second ==
    /\ \A n \in Node : phase[n] = "slept"
    /\ \E n \in Node : up[n]
    /\ phase' = [n \in Node |-> IF up[n] THEN "elect" ELSE "slept"]
    /\ timer' = [n \in Node |-> IF timer[n] > 1 THEN timer[n] - 1 ELSE timer[n]]
    /\ claim' = [n \in Node |-> [m \in Node |-> Older(claim[n][m])]]
    /\ UNCHANGED <<mode, role, prio, pin, anchor, key, wall, saved, world>>

-----------------------------------------------------------------------------
(* Console commands (whm_sync_set_prio ... whm_sync_off, and `wifi join`   *)
(* back to the house network), issued between any two steps of the tasks.  *)

Command(n, name) ==
    /\ up[n] /\ name \in Troubles /\ ~calm /\ disturb < MaxDisturb
    /\ disturb' = disturb + 1
    /\ UNCHANGED <<up, linked, phase, claim, key, calm>>

\* Mutant: weight 0 takes effect at the next election only.
SetPrioLater(n, p) ==
    /\ Command(n, "prio")
    /\ prio' = [prio EXCEPT ![n] = p]
    /\ UNCHANGED <<mode, role, pin, anchor, timer, wall, saved>>

SetPrio(n, p) ==
    /\ Command(n, "prio")
    /\ prio' = [prio EXCEPT ![n] = p]
    /\ IF p = 0 /\ role[n] = "conductor" /\ mode[n] = "auto"
       THEN /\ role' = [role EXCEPT ![n] = "member"]
            /\ wall' = [wall EXCEPT ![n] = NoName]
       ELSE UNCHANGED <<role, wall>>
    /\ UNCHANGED <<mode, pin, anchor, timer, saved>>

SyncAuto(n) ==
    /\ Command(n, "auto")
    /\ mode' = [mode EXCEPT ![n] = "auto"]
    /\ role' = [role EXCEPT ![n] = "member"]
    /\ timer' = [timer EXCEPT ![n] = 0]
    /\ anchor' = [anchor EXCEPT ![n] = NoName]
    /\ nvs' = [nvs EXCEPT ![n] = [mode |-> "auto", role |-> "member", pin |-> @.pin]]
    /\ UNCHANGED <<prio, pin, wall, bss>>

SyncAnchor(n) ==
    /\ Command(n, "anchor")
    /\ mode' = [mode EXCEPT ![n] = "auto"]
    /\ role' = [role EXCEPT ![n] = "conductor"]
    /\ prio' = [prio EXCEPT ![n] = IF @ < AnchorPrio THEN AnchorPrio ELSE @]
    /\ pin' = [pin EXCEPT ![n] = NoName]
    /\ anchor' = [anchor EXCEPT ![n] = NoName]
    /\ nvs' = [nvs EXCEPT ![n] = [mode |-> "auto", role |-> "member", pin |-> NoName]]
    /\ UNCHANGED <<timer, wall, bss>>

\* x = NoName: no conductor named, the pin stays as it was.
SyncFollow(n, x) ==
    /\ Command(n, "follow")
    /\ mode' = [mode EXCEPT ![n] = "auto"]
    /\ role' = [role EXCEPT ![n] = "member"]
    /\ pin' = [pin EXCEPT ![n] = IF x = NoName THEN @ ELSE x]
    /\ nvs' = [nvs EXCEPT ![n] = [mode |-> "auto", role |-> "member",
                                  pin |-> IF x = NoName THEN @.pin ELSE x]]
    /\ wall' = [wall EXCEPT ![n] = NoName]
    /\ UNCHANGED <<prio, anchor, timer, bss>>

SyncConduct(n) ==
    /\ Command(n, "conduct")
    /\ mode' = [mode EXCEPT ![n] = "softap"]
    /\ role' = [role EXCEPT ![n] = "conductor"]
    /\ pin' = [pin EXCEPT ![n] = NoName]
    /\ nvs' = [nvs EXCEPT ![n] = [mode |-> "softap", role |-> "conductor", pin |-> NoName]]
    /\ bss' = [bss EXCEPT ![n] = n]
    /\ UNCHANGED <<prio, anchor, timer, wall>>

\* `sync join` leaves the mode as it was.
SyncJoin(n, c) ==
    /\ Command(n, "join")
    /\ role' = [role EXCEPT ![n] = "member"]
    /\ pin' = [pin EXCEPT ![n] = c]
    /\ nvs' = [nvs EXCEPT ![n] = [mode |-> @.mode, role |-> "member", pin |-> c]]
    /\ bss' = [bss EXCEPT ![n] = c]
    /\ wall' = [wall EXCEPT ![n] = NoName]
    /\ UNCHANGED <<mode, prio, anchor, timer>>

SyncOff(n) ==
    /\ Command(n, "off")
    /\ mode' = [mode EXCEPT ![n] = "off"]
    /\ role' = [role EXCEPT ![n] = "off"]
    /\ nvs' = [nvs EXCEPT ![n] = [mode |-> "off", role |-> "off", pin |-> NoName]]
    /\ UNCHANGED <<prio, pin, anchor, timer, wall, bss>>

WifiHome(n) ==
    /\ Command(n, "wifi") /\ bss[n] # House
    /\ bss' = [bss EXCEPT ![n] = House]
    /\ UNCHANGED <<mode, prio, electing, wall, nvs>>

Console(n) ==
    \/ \E p \in Prio : SetPrio(n, p)
    \/ SyncAuto(n) \/ SyncAnchor(n) \/ SyncConduct(n) \/ SyncOff(n) \/ WifiHome(n)
    \/ \E x \in {NoName} \cup Node : SyncFollow(n, x)
    \/ \E c \in Node \ {n} : SyncJoin(n, c)

-----------------------------------------------------------------------------
(* Power loss empties RAM; whm_sync_init rebuilds it from NVS at boot.     *)

BootMode(n) ==
    IF nvs[n].mode = "off" /\ nvs[n].role # "off" THEN "softap" ELSE nvs[n].mode

PowerLoss(n) ==
    /\ up[n] /\ ~calm /\ disturb < MaxDisturb /\ "power" \in Troubles
    /\ disturb' = disturb + 1
    /\ up' = [up EXCEPT ![n] = FALSE]
    /\ phase' = [phase EXCEPT ![n] = "slept"]
    /\ mode' = [mode EXCEPT ![n] = BootMode(n)]
    /\ role' = [role EXCEPT ![n] = IF BootMode(n) = "auto" THEN "member" ELSE nvs[n].role]
    /\ pin' = [pin EXCEPT ![n] = nvs[n].pin]
    /\ anchor' = [anchor EXCEPT ![n] = NoName]
    /\ timer' = [timer EXCEPT ![n] = 0]
    /\ claim' = [claim EXCEPT ![n] = [m \in Node |-> NoClaim]]
    /\ key' = [key EXCEPT ![n] = NoKey]
    /\ wall' = [wall EXCEPT ![n] = NoName]
    /\ UNCHANGED <<linked, prio, saved, calm>>

\* The unit is back; a SoftAP conductor raises its network again.
Boot(n) ==
    /\ ~up[n]
    /\ up' = [up EXCEPT ![n] = TRUE]
    /\ phase' = [phase EXCEPT ![n] = "elect"]
    /\ bss' = [bss EXCEPT ![n] =
                  IF mode[n] = "softap" /\ role[n] = "conductor" THEN n ELSE @]
    /\ UNCHANGED <<mode, role, prio, pin, anchor, timer, claim, key, wall, nvs, linked, calm, disturb>>

\* Radio and environment change between seconds.
Boundary == \A n \in Node : phase[n] = "elect" \/ ~up[n]

\* The station loses its access point, and finds it again (on_wifi_event).
LinkDown(n) ==
    /\ Boundary /\ linked[n] /\ ~calm /\ disturb < MaxDisturb /\ "link" \in Troubles
    /\ disturb' = disturb + 1
    /\ linked' = [linked EXCEPT ![n] = FALSE]
    /\ UNCHANGED <<up, phase, mode, prio, electing, claim, key, wall, saved, calm>>

LinkUp(n) ==
    /\ Boundary /\ ~linked[n]
    /\ linked' = [linked EXCEPT ![n] = TRUE]
    /\ UNCHANGED <<up, phase, mode, prio, electing, claim, key, wall, saved, calm, disturb>>

BecomeCalm ==
    /\ Boundary /\ ~calm /\ calm' = TRUE
    /\ UNCHANGED <<up, linked, phase, mode, prio, electing, claim, key, wall, saved, disturb>>

-----------------------------------------------------------------------------
\* Units that have been told `sync auto` and just booted, with any weights.
Init ==
    /\ up = [n \in Node |-> TRUE]
    /\ linked = [n \in Node |-> TRUE]
    /\ phase = [n \in Node |-> "elect"]
    /\ mode = [n \in Node |-> "auto"]
    /\ role = [n \in Node |-> "member"]
    /\ prio \in [Node -> Prio]
    /\ pin = [n \in Node |-> NoName]
    /\ anchor = [n \in Node |-> NoName]
    /\ timer = [n \in Node |-> 0]
    /\ claim = [n \in Node |-> [m \in Node |-> NoClaim]]
    /\ key = [n \in Node |-> NoKey]
    /\ wall = [n \in Node |-> NoName]
    /\ nvs = [n \in Node |-> [mode |-> "auto", role |-> "member", pin |-> NoName]]
    /\ bss = [n \in Node |-> House]
    /\ calm = FALSE
    /\ disturb = 0

Next ==
    \/ \E n \in Node : ElectionTick(n) \/ Announce(n) \/ Console(n)
                      \/ PowerLoss(n) \/ Boot(n) \/ LinkDown(n) \/ LinkUp(n)
    \/ Second
    \/ BecomeCalm

Spec == Init /\ [][Next]_vars

\* Time passes, and within a second every powered unit runs its loop; a
\* conductor's every third iteration carries wraps.
Fairness ==
    /\ WF_vars(Second \/ \E n \in Node : ElectionTick(n) \/ Announce(n))
    /\ \A n \in Node : SF_vars(ConductorAnnounce(n, TRUE))

FairSpec == Spec /\ Fairness

-----------------------------------------------------------------------------
TypeOK ==
    /\ up \in [Node -> BOOLEAN]
    /\ linked \in [Node -> BOOLEAN]
    /\ phase \in [Node -> {"elect", "announce", "slept"}]
    /\ mode \in [Node -> Modes]
    /\ role \in [Node -> Roles]
    /\ prio \in [Node -> Prio]
    /\ pin \in [Node -> Node \cup {NoName}]
    /\ anchor \in [Node -> Node \cup {NoName}]
    /\ timer \in [Node -> Nat]
    /\ claim \in [Node -> [Node -> Claims]]
    /\ key \in [Node -> Key \cup {NoKey}]
    /\ wall \in [Node -> Node \cup {NoName}]
    /\ nvs \in [Node -> [mode : Modes, role : Roles, pin : Node \cup {NoName}]]
    /\ bss \in [Node -> Node \cup {House}]
    /\ calm \in BOOLEAN
    /\ disturb \in 0 .. MaxDisturb
-----------------------------------------------------------------------------
(* Safety. *)

Elected(n) == role[n] = "conductor" /\ mode[n] = "auto"

\* A follower-only unit never holds an elected lead, whatever sequence of
\* commands, elections and boots brought it there (set_prio abdicates, anchor
\* raises the weight, an elections-mode boot starts as a member).
ElectedHasWeight == \A n \in Node : Elected(n) => prio[n] # 0

\* An elected leader follows nobody: were s_anchor_name left at a former leader,
\* that unit's keywrap would replace the key of the whole fleet.
ElectedFollowsNobody == \A n \in Node : Elected(n) => anchor[n] \in {NoName, n}

\* The fleet key is minted, handed over and given up as FleetKeyring promises.
Seat(n) ==
    IF ~up[n] \/ role[n] # "conductor" THEN "none"
    ELSE IF mode[n] = "auto" THEN "elected" ELSE "softap"

Keyring == INSTANCE FleetKeyring WITH seat <- [n \in Node |-> Seat(n)], key <- key

KeyringSpec == Keyring!Spec

-----------------------------------------------------------------------------
(* Liveness. *)

Up == {n \in Node : up[n]}

\* The environment has settled: every unit is in elections mode on the house network, or
\* will be once it has power again, none is pinned at itself, and one may lead.
Settled ==
    /\ calm
    /\ \A n \in Node : mode[n] = "auto" /\ bss[n] = House /\ linked[n] /\ pin[n] # n
    /\ \E n \in Up : prio[n] # 0

LedBy(a) ==
    /\ up[a] /\ role[a] = "conductor"
    /\ \A n \in Up \ {a} : role[n] = "member" /\ anchor[n] = a

\* A unit is promoted while another one already conducts: the two looked before
\* either could hear the other.
Stampede ==
    \E n \in Node : /\ role[n] = "member" /\ role'[n] = "conductor"
                    /\ \E m \in Up \ {n} : role[m] = "conductor"

\* However claims, pins, timers and keys stood when the environment settled, the fleet
\* ends with one leader that every other unit follows, and every powered unit with that
\* leader's fleet key, for good, provided promotions do not collide for ever.
KeyConverges ==
    <>[][~Stampede]_vars =>
        [](Settled => <>[](\E a \in Node : LedBy(a) /\ key[a] # NoKey
                                           /\ \A n \in Up : key[n] = key[a]))
=============================================================================
