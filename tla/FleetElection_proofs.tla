------------------------ MODULE FleetElection_proofs ------------------------
(* Type correctness of FleetElection, what an elected leader always has, and *)
(* that the fleet key is handled as FleetKeyring promises.                   *)
EXTENDS FleetElection, TLAPS

USE DEF NoName, NoKey, House

\* The claims a step writes are claims.
LEMMA ClaimTypes ==
    /\ NoClaim \in Claims
    /\ \A p \in Prio : [prio |-> p, age |-> 0] \in Claims
    /\ \A c \in Claims : Older(c) \in Claims
BY TimeAssumption DEF NoClaim, Claims, Older

\* The loop of announce_task keeps the types.
LEMMA TickType ==
    ASSUME TypeOK, NEW n \in Node, ElectionTick(n) PROVE TypeOK'
<1> USE DEF TypeOK, Elects, TickFrame, saved, world
<1>1. CASE StepDown(n)
  BY <1>1 DEF StepDown, BestClaim, LiveClaims, Roles
<1>2. CASE FollowClaim(n)
  <2>1. PICK b \in Node : IF anchor[n] = b
                          THEN UNCHANGED <<anchor, pin, wall>>
                          ELSE /\ anchor' = [anchor EXCEPT ![n] = b]
                               /\ pin' = [pin EXCEPT ![n] = b]
                               /\ wall' = [wall EXCEPT ![n] = NoName]
    BY <1>2 DEF FollowClaim, BestClaim, LiveClaims
  <2>2. /\ anchor' \in [Node -> Node \cup {NoName}]
        /\ pin' \in [Node -> Node \cup {NoName}]
        /\ wall' \in [Node -> Node \cup {NoName}]
    <3>1. CASE anchor[n] = b
      <4>1. UNCHANGED <<anchor, pin, wall>>
        BY <2>1, <3>1
      <4> QED BY <4>1
    <3>2. CASE anchor[n] # b
      <4>1. /\ anchor' = [anchor EXCEPT ![n] = b] /\ pin' = [pin EXCEPT ![n] = b]
            /\ wall' = [wall EXCEPT ![n] = NoName]
        BY <2>1, <3>2
      <4> QED BY <4>1
    <3> QED BY <3>1, <3>2
  <2> QED BY <1>2, <2>2 DEF FollowClaim
<1>3. CASE ArmTimer(n)
  <2>1. Jitter[n] + 1 \in Nat
    BY TimeAssumption
  <2> QED BY <1>3, <2>1 DEF ArmTimer
<1>4. CASE Promote(n)
  BY <1>4 DEF Promote, Roles
<1>5. CASE TickIdle(n)
  BY <1>5 DEF TickIdle, electing
<1> QED BY <1>1, <1>2, <1>3, <1>4, <1>5 DEF ElectionTick

LEMMA HearType ==
    ASSUME TypeOK, NEW n \in Node, NEW R, NEW c \in Claims, Hear(n, R, c)
    PROVE  claim' \in [Node -> [Node -> Claims]]
BY DEF TypeOK, Hear

LEMMA AnnounceType ==
    ASSUME TypeOK, NEW n \in Node, Announce(n) PROVE TypeOK'
<1> USE DEF TypeOK, Announces, AnnounceFrame, electing, saved, world
<1>1. ASSUME NEW wraps \in BOOLEAN, ConductorAnnounce(n, wraps) PROVE TypeOK'
  <2>1. prio[n] \in Prio OBVIOUS
  <2>2. claim' \in [Node -> [Node -> Claims]]
    BY <1>1, <2>1, ClaimTypes, HearType DEF ConductorAnnounce
  <2>3. wall' \in [Node -> Node \cup {NoName}]
    BY <1>1 DEF ConductorAnnounce
  <2>4. key' \in [Node -> Key \cup {NoKey}]
    BY <1>1 DEF ConductorAnnounce, FleetKeys, UnusedKeys
  <2> QED BY <1>1, <2>2, <2>3, <2>4 DEF ConductorAnnounce
<1>2. CASE MemberAnnounce(n)
  <2>1. claim' \in [Node -> [Node -> Claims]]
    BY <1>2, ClaimTypes, HearType DEF MemberAnnounce
  <2> QED BY <1>2, <2>1 DEF MemberAnnounce
<1>3. CASE SkipAnnounce(n)
  BY <1>3 DEF SkipAnnounce
<1> QED BY <1>1, <1>2, <1>3 DEF Announce

LEMMA SecondType == ASSUME TypeOK, Second PROVE TypeOK'
<1>1. claim' \in [Node -> [Node -> Claims]]
  BY ClaimTypes DEF TypeOK, Second
<1> QED BY <1>1 DEF TypeOK, Second, saved, world

LEMMA CommandType ==
    ASSUME TypeOK, NEW n \in Node, NEW name, Command(n, name)
    PROVE  /\ up' \in [Node -> BOOLEAN] /\ linked' \in [Node -> BOOLEAN]
           /\ phase' \in [Node -> {"elect", "announce", "slept"}]
           /\ claim' \in [Node -> [Node -> Claims]]
           /\ key' \in [Node -> Key \cup {NoKey}]
           /\ calm' \in BOOLEAN
           /\ disturb' \in 0 .. MaxDisturb
BY BoundAssumption DEF TypeOK, Command

LEMMA ConsoleType ==
    ASSUME TypeOK, NEW n \in Node, Console(n) PROVE TypeOK'
<1>1. ASSUME NEW p \in Prio, SetPrio(n, p) PROVE TypeOK'
  <2>1. Command(n, "prio")
    BY <1>1 DEF SetPrio
  <2>2. role' \in [Node -> Roles] /\ wall' \in [Node -> Node \cup {NoName}]
    BY <1>1 DEF SetPrio, TypeOK, Roles
  <2>3. prio' \in [Node -> Prio]
    BY <1>1 DEF SetPrio, TypeOK
  <2> QED BY <1>1, <2>1, <2>2, <2>3, CommandType DEF SetPrio, TypeOK, saved
<1>2. CASE SyncAuto(n)
  BY <1>2, CommandType DEF SyncAuto, TypeOK, Modes, Roles
<1>3. CASE SyncAnchor(n)
  BY <1>3, CommandType, PrioAssumption DEF SyncAnchor, TypeOK, Modes, Roles
<1>4. CASE SyncConduct(n)
  BY <1>4, CommandType DEF SyncConduct, TypeOK, Modes, Roles
<1>5. CASE SyncOff(n)
  BY <1>5, CommandType DEF SyncOff, TypeOK, Modes, Roles
<1>6. CASE WifiHome(n)
  BY <1>6, CommandType DEF WifiHome, TypeOK, electing
<1>7. ASSUME NEW x \in {NoName} \cup Node, SyncFollow(n, x) PROVE TypeOK'
  BY <1>7, CommandType DEF SyncFollow, TypeOK, Modes, Roles
<1>8. ASSUME NEW c \in Node \ {n}, SyncJoin(n, c) PROVE TypeOK'
  BY <1>8, CommandType DEF SyncJoin, TypeOK, Roles
<1> QED BY <1>1, <1>2, <1>3, <1>4, <1>5, <1>6, <1>7, <1>8 DEF Console

LEMMA EnvironmentType ==
    ASSUME TypeOK, NEW n \in Node,
           PowerLoss(n) \/ Boot(n) \/ LinkDown(n) \/ LinkUp(n) \/ BecomeCalm
    PROVE  TypeOK'
<1> USE BoundAssumption DEF TypeOK, electing, saved, world
<1>1. CASE PowerLoss(n)
  BY <1>1, ClaimTypes DEF PowerLoss, BootMode, Modes, Roles
<1>2. CASE Boot(n)
  BY <1>2 DEF Boot
<1>3. CASE LinkDown(n)
  BY <1>3 DEF LinkDown
<1>4. CASE LinkUp(n)
  BY <1>4 DEF LinkUp
<1>5. CASE BecomeCalm
  BY <1>5 DEF BecomeCalm
<1> QED BY <1>1, <1>2, <1>3, <1>4, <1>5

\* Every variable keeps its type: whatever the fleet does, names, roles, weights,
\* timers, peer tables and keys stay in range.
THEOREM TypeCorrect == Spec => []TypeOK
<1>1. Init => TypeOK
  <2> SUFFICES ASSUME Init PROVE TypeOK
    OBVIOUS
  <2>1. claim \in [Node -> [Node -> Claims]]
    BY ClaimTypes DEF Init
  <2>2. nvs \in [Node -> [mode : Modes, role : Roles, pin : Node \cup {NoName}]]
    BY DEF Init, Modes, Roles
  <2>3. /\ mode \in [Node -> Modes] /\ role \in [Node -> Roles]
        /\ phase \in [Node -> {"elect", "announce", "slept"}]
    BY DEF Init, Modes, Roles
  <2>4. disturb \in 0 .. MaxDisturb
    BY BoundAssumption DEF Init
  <2> QED BY <2>1, <2>2, <2>3, <2>4 DEF Init, TypeOK
<1>2. TypeOK /\ [Next]_vars => TypeOK'
  <2> SUFFICES ASSUME TypeOK, [Next]_vars PROVE TypeOK'
    OBVIOUS
  <2>1. CASE UNCHANGED vars
    BY <2>1 DEF TypeOK, vars
  <2>2. CASE BecomeCalm
    BY <2>2 DEF TypeOK, BecomeCalm, electing, saved
  <2>3. CASE Second
    BY <2>3, SecondType
  <2>4. ASSUME NEW n \in Node,
               ElectionTick(n) \/ Announce(n) \/ Console(n)
               \/ PowerLoss(n) \/ Boot(n) \/ LinkDown(n) \/ LinkUp(n)
        PROVE  TypeOK'
    BY <2>4, TickType, AnnounceType, ConsoleType, EnvironmentType
  <2> QED BY <2>1, <2>2, <2>3, <2>4 DEF Next
<1> QED BY <1>1, <1>2, PTL DEF Spec

-----------------------------------------------------------------------------
(* An elected leader has weight and follows nobody. *)

ElectedInv == ElectedHasWeight /\ ElectedFollowsNobody

LEMMA TickElected ==
    ASSUME TypeOK, ElectedInv, NEW n \in Node, ElectionTick(n) PROVE ElectedInv'
<1> USE DEF TypeOK, ElectedInv, ElectedHasWeight, ElectedFollowsNobody, Elected,
            Elects, TickFrame
<1>1. CASE StepDown(n)
  BY <1>1 DEF StepDown
<1>2. CASE FollowClaim(n)
  BY <1>2 DEF FollowClaim
<1>3. CASE ArmTimer(n)
  BY <1>3 DEF ArmTimer
<1>4. CASE Promote(n)
  BY <1>4 DEF Promote
<1>5. CASE TickIdle(n)
  BY <1>5 DEF TickIdle, electing
<1> QED BY <1>1, <1>2, <1>3, <1>4, <1>5 DEF ElectionTick

LEMMA ConsoleElected ==
    ASSUME TypeOK, ElectedInv, NEW n \in Node, Console(n) PROVE ElectedInv'
<1> USE DEF TypeOK, ElectedInv, ElectedHasWeight, ElectedFollowsNobody, Elected
<1>1. ASSUME NEW p \in Prio, SetPrio(n, p) PROVE ElectedInv'
  BY <1>1 DEF SetPrio
<1>2. CASE SyncAuto(n)
  BY <1>2 DEF SyncAuto
<1>3. CASE SyncAnchor(n)
  BY <1>3, PrioAssumption DEF SyncAnchor
<1>4. CASE SyncConduct(n)
  BY <1>4 DEF SyncConduct
<1>5. CASE SyncOff(n)
  BY <1>5 DEF SyncOff
<1>6. CASE WifiHome(n)
  BY <1>6 DEF WifiHome, electing
<1>7. ASSUME NEW x \in {NoName} \cup Node, SyncFollow(n, x) PROVE ElectedInv'
  BY <1>7 DEF SyncFollow
<1>8. ASSUME NEW c \in Node \ {n}, SyncJoin(n, c) PROVE ElectedInv'
  BY <1>8 DEF SyncJoin
<1> QED BY <1>1, <1>2, <1>3, <1>4, <1>5, <1>6, <1>7, <1>8 DEF Console

LEMMA EnvironmentElected ==
    ASSUME TypeOK, ElectedInv, NEW n \in Node,
           Announce(n) \/ PowerLoss(n) \/ Boot(n) \/ LinkDown(n) \/ LinkUp(n)
           \/ BecomeCalm \/ Second
    PROVE  ElectedInv'
<1> USE DEF TypeOK, ElectedInv, ElectedHasWeight, ElectedFollowsNobody, Elected,
            electing
<1>1. CASE Announce(n)
  BY <1>1 DEF Announce, ConductorAnnounce, MemberAnnounce, SkipAnnounce, AnnounceFrame
<1>2. CASE PowerLoss(n)
  BY <1>2 DEF PowerLoss
<1>3. CASE Boot(n) \/ LinkDown(n) \/ LinkUp(n) \/ BecomeCalm
  BY <1>3 DEF Boot, LinkDown, LinkUp, BecomeCalm
<1>4. CASE Second
  BY <1>4 DEF Second
<1> QED BY <1>1, <1>2, <1>3, <1>4

\* One step keeps ElectedInv; the refinement below uses it too.
LEMMA ElectedStep == TypeOK /\ ElectedInv /\ [Next]_vars => ElectedInv'
<1> SUFFICES ASSUME TypeOK, ElectedInv, [Next]_vars PROVE ElectedInv'
  OBVIOUS
<1>1. CASE UNCHANGED vars
  BY <1>1 DEF vars, ElectedInv, ElectedHasWeight, ElectedFollowsNobody, Elected
<1>2. CASE BecomeCalm \/ Second
  <2>1. CASE Node = {}
    BY <2>1 DEF ElectedInv, ElectedHasWeight, ElectedFollowsNobody
  <2>2. CASE Node # {}
    BY <1>2, <2>2, EnvironmentElected
  <2> QED BY <2>1, <2>2
<1>3. ASSUME NEW n \in Node,
             ElectionTick(n) \/ Announce(n) \/ Console(n)
             \/ PowerLoss(n) \/ Boot(n) \/ LinkDown(n) \/ LinkUp(n)
      PROVE  ElectedInv'
  BY <1>3, TickElected, ConsoleElected, EnvironmentElected
<1> QED BY <1>1, <1>2, <1>3 DEF Next

\* A unit in elected lead never has weight 0: no sequence of elections, console
\* commands, boots and network changes makes a follower-only unit an anchor.
THEOREM FollowerOnlyNeverLeads == Spec => []ElectedHasWeight
<1>1. Init => ElectedInv
  BY DEF Init, ElectedInv, ElectedHasWeight, ElectedFollowsNobody, Elected
<1>2. ElectedInv => ElectedHasWeight
  BY DEF ElectedInv
<1> QED BY <1>1, <1>2, ElectedStep, TypeCorrect, PTL DEF Spec

\* A unit in elected lead has no other unit as s_anchor_name, so no keywrap it
\* may receive replaces the key it leads with.
THEOREM LeaderFollowsNobody == Spec => []ElectedFollowsNobody
<1>1. Init => ElectedInv
  BY DEF Init, ElectedInv, ElectedHasWeight, ElectedFollowsNobody, Elected
<1>2. ElectedInv => ElectedFollowsNobody
  BY DEF ElectedInv
<1> QED BY <1>1, <1>2, ElectedStep, TypeCorrect, PTL DEF Spec

-----------------------------------------------------------------------------
(* FleetElection implements FleetKeyring. *)

SeatOf == [n \in Node |-> Seat(n)]

\* A step of n that changes at most n's seat is a Reseat.
LEMMA ReseatStep ==
    ASSUME NEW n \in Node, UNCHANGED key,
           \A m \in Node \ {n} : Seat(m)' = Seat(m)
    PROVE  Keyring!Reseat(n)
<1>1. Seat(n)' \in Keyring!Seats
  BY DEF Seat, Keyring!Seats
<1>2. SeatOf' = [SeatOf EXCEPT ![n] = Seat(n)']
  BY DEF SeatOf
<1> QED BY <1>1, <1>2 DEF Keyring!Reseat, SeatOf

\* A step that changes no seat and no key is a stutter.
LEMMA StutterStep ==
    ASSUME UNCHANGED key, \A m \in Node : Seat(m)' = Seat(m)
    PROVE  UNCHANGED Keyring!ringVars
BY DEF Keyring!ringVars

LEMMA TickRefines ==
    ASSUME TypeOK, NEW n \in Node, ElectionTick(n)
    PROVE  [Keyring!Next]_(Keyring!ringVars)
<1> USE DEF Elects, TickFrame, world
<1>1. CASE StepDown(n)
  <2>1. SeatOf[n] = "elected"
    BY <1>1 DEF StepDown, SeatOf, Seat
  <2>2. SeatOf' = [SeatOf EXCEPT ![n] = "none"]
    BY <1>1 DEF StepDown, SeatOf, Seat, TypeOK
  <2>3. key' = [key EXCEPT ![n] = NoKey]
    BY <1>1 DEF StepDown
  <2>4. Keyring!Resign(n)
    BY <2>1, <2>2, <2>3 DEF Keyring!Resign, Keyring!NoKey, SeatOf
  <2> QED BY <2>4 DEF Keyring!Next
<1>2. CASE FollowClaim(n) \/ ArmTimer(n) \/ TickIdle(n)
  <2>1. UNCHANGED <<up, mode, role, key>>
    BY <1>2 DEF FollowClaim, ArmTimer, TickIdle, electing
  <2> QED BY <2>1, StutterStep DEF Seat
<1>3. CASE Promote(n)
  <2>1. \A m \in Node \ {n} : Seat(m)' = Seat(m)
    BY <1>3 DEF Promote, Seat, TypeOK
  <2>2. Keyring!Reseat(n)
    BY <1>3, <2>1, ReseatStep DEF Promote
  <2> QED BY <2>2 DEF Keyring!Next
<1> QED BY <1>1, <1>2, <1>3 DEF ElectionTick

LEMMA AnnounceRefines ==
    ASSUME TypeOK, ElectedInv, NEW n \in Node, Announce(n)
    PROVE  [Keyring!Next]_(Keyring!ringVars)
<1> USE DEF Announces, AnnounceFrame, electing, world
<1>1. ASSUME NEW wraps \in BOOLEAN, ConductorAnnounce(n, wraps)
      PROVE  Keyring!Next
  <2>1. up[n] /\ role[n] = "conductor" /\ UNCHANGED <<up, mode, role>>
    BY <1>1 DEF ConductorAnnounce
  <2>2. PICK W \in SUBSET (Node \ {n}), k \in FleetKeys(n) :
            key' = [m \in Node |-> IF m = n \/ (m \in W /\ AcceptsWrap(m, n))
                                   THEN k ELSE key[m]]
    BY <1>1 DEF ConductorAnnounce, Reached, Audience
  <2> DEFINE V == {m \in W : AcceptsWrap(m, n)}
  <2>3. V \in SUBSET (Node \ {n})
    OBVIOUS
  <2>4. SeatOf[n] # "none" /\ SeatOf' = SeatOf
    BY <2>1 DEF SeatOf, Seat
  <2>5. \A m \in V : key[m] = NoKey \/ SeatOf[m] # "elected"
    <3> SUFFICES ASSUME NEW m \in V, key[m] # NoKey, SeatOf[m] = "elected"
                 PROVE  FALSE
      OBVIOUS
    <3>1. anchor[m] = n /\ m \in Node /\ m # n
      BY <2>3 DEF AcceptsWrap
    <3>2. Elected(m)
      BY <3>1 DEF SeatOf, Seat, Elected
    <3>3. n # NoName
      BY NodeAssumption
    <3> QED BY <3>1, <3>2, <3>3 DEF ElectedInv, ElectedFollowsNobody
  <2>6. /\ k \in Key
        /\ IF key[n] = NoKey THEN \A m \in Node : key[m] # k ELSE k = key[n]
    BY DEF FleetKeys, UnusedKeys, TypeOK
  <2>7. key' = [m \in Node |-> IF m = n \/ m \in V THEN k ELSE key[m]]
    BY <2>2
  <2>8. Keyring!Share(n, V)
    BY <2>4, <2>5, <2>6, <2>7 DEF Keyring!Share, Keyring!NoKey, SeatOf
  <2> QED BY <2>3, <2>8 DEF Keyring!Next
<1>2. CASE MemberAnnounce(n) \/ SkipAnnounce(n)
  <2>1. UNCHANGED <<up, mode, role, key>>
    BY <1>2 DEF MemberAnnounce, SkipAnnounce
  <2> QED BY <2>1, StutterStep DEF Seat
<1> QED BY <1>1, <1>2 DEF Announce

LEMMA ConsoleRefines ==
    ASSUME TypeOK, NEW n \in Node, Console(n)
    PROVE  Keyring!Reseat(n)
<1>1. UNCHANGED key
  BY DEF Console, SetPrio, SyncAuto, SyncAnchor, SyncConduct, SyncOff, WifiHome,
         SyncFollow, SyncJoin, Command
<1>2. ASSUME NEW m \in Node \ {n} PROVE Seat(m)' = Seat(m)
  <2>1. up'[m] = up[m]
    BY DEF Console, SetPrio, SyncAuto, SyncAnchor, SyncConduct, SyncOff, WifiHome,
           SyncFollow, SyncJoin, Command
  <2>2. mode'[m] = mode[m]
    BY DEF Console, SetPrio, SyncAuto, SyncAnchor, SyncConduct, SyncOff, WifiHome,
           SyncFollow, SyncJoin, TypeOK
  <2>3. role'[m] = role[m]
    BY DEF Console, SetPrio, SyncAuto, SyncAnchor, SyncConduct, SyncOff, WifiHome,
           SyncFollow, SyncJoin, TypeOK, electing
  <2> QED BY <2>1, <2>2, <2>3 DEF Seat
<1> QED BY <1>1, <1>2, ReseatStep

LEMMA EnvironmentRefines ==
    ASSUME TypeOK, NEW n \in Node,
           PowerLoss(n) \/ Boot(n) \/ LinkDown(n) \/ LinkUp(n)
    PROVE  [Keyring!Next]_(Keyring!ringVars)
<1> USE DEF electing
<1>1. CASE PowerLoss(n)
  <2>1. SeatOf' = [SeatOf EXCEPT ![n] = "none"]
    BY <1>1 DEF PowerLoss, SeatOf, Seat, TypeOK
  <2>2. key' = [key EXCEPT ![n] = NoKey]
    BY <1>1 DEF PowerLoss
  <2>3. Keyring!LosePower(n)
    BY <2>1, <2>2 DEF Keyring!LosePower, Keyring!NoKey, SeatOf
  <2> QED BY <2>3 DEF Keyring!Next
<1>2. CASE Boot(n)
  <2>1. \A m \in Node \ {n} : Seat(m)' = Seat(m)
    BY <1>2 DEF Boot, Seat, TypeOK
  <2>2. Keyring!Reseat(n)
    BY <1>2, <2>1, ReseatStep DEF Boot
  <2> QED BY <2>2 DEF Keyring!Next
<1>3. CASE LinkDown(n) \/ LinkUp(n)
  <2>1. UNCHANGED <<up, mode, role, key>>
    BY <1>3 DEF LinkDown, LinkUp
  <2> QED BY <2>1, StutterStep DEF Seat
<1> QED BY <1>1, <1>2, <1>3

\* The fleet key enters, travels and leaves the fleet only as FleetKeyring allows:
\* a leader with a key keeps it until it resigns, and nobody else's key is lost
\* short of a power loss.
THEOREM KeyCustody == Spec => KeyringSpec
<1>1. Init => Keyring!Init
  BY DEF Init, Keyring!Init, Keyring!NoKey, Seat
<1>2. TypeOK /\ ElectedInv /\ [Next]_vars => [Keyring!Next]_(Keyring!ringVars)
  <2> SUFFICES ASSUME TypeOK, ElectedInv, [Next]_vars
               PROVE  [Keyring!Next]_(Keyring!ringVars)
    OBVIOUS
  <2>1. CASE UNCHANGED vars \/ BecomeCalm \/ Second
    <3>1. UNCHANGED <<up, mode, role, key>>
      BY <2>1 DEF vars, BecomeCalm, Second, electing, world
    <3> QED BY <3>1, StutterStep DEF Seat
  <2>2. ASSUME NEW n \in Node, ElectionTick(n)
        PROVE  [Keyring!Next]_(Keyring!ringVars)
    BY <2>2, TickRefines
  <2>3. ASSUME NEW n \in Node, Announce(n)
        PROVE  [Keyring!Next]_(Keyring!ringVars)
    BY <2>3, AnnounceRefines
  <2>4. ASSUME NEW n \in Node, Console(n)
        PROVE  [Keyring!Next]_(Keyring!ringVars)
    BY <2>4, ConsoleRefines DEF Keyring!Next
  <2>5. ASSUME NEW n \in Node, PowerLoss(n) \/ Boot(n) \/ LinkDown(n) \/ LinkUp(n)
        PROVE  [Keyring!Next]_(Keyring!ringVars)
    BY <2>5, EnvironmentRefines
  <2> QED BY <2>1, <2>2, <2>3, <2>4, <2>5 DEF Next
<1>3. Init => ElectedInv
  BY DEF Init, ElectedInv, ElectedHasWeight, ElectedFollowsNobody, Elected
<1> QED
  BY <1>1, <1>2, <1>3, ElectedStep, TypeCorrect, PTL DEF Spec, KeyringSpec, Keyring!Spec
=============================================================================
