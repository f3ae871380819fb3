------------------------------- MODULE Walker -------------------------------
(***************************************************************************)
(* The walker that two or more panels show as one world (src/main/ui.c,    *)
(* the type-9 beacons of src/main/sync.c).                                 *)
(*                                                                         *)
(* Every panel runs the same simulation, one step per tick of the shared   *)
(* TSF clock, restarted at each anchor.  One of them owns the walker: the  *)
(* strip he stands on.  The owner runs a shadow of the future and sends it *)
(* as keyframes that the others bank and adopt at the step they name; the  *)
(* same beacons carry the claim to ownership, ranked by their send time.   *)
(* Hand-off, demotion grace, a cold-start owner at each anchor and seizure *)
(* from a silent owner keep the walker owned.                              *)
(*                                                                         *)
(* Abstracted: the world is a script of moves, the walker's place a whole  *)
(* number of pixels right of the camera, so that a scrolling camera is part *)
(* of the move.  Drawing, the show, user inputs and the resync of a storm  *)
(* of corrections are left out.                                            *)
(* Times are ages in ticks of one step, and a frame of the display is one  *)
(* tick.                                                                   *)
(***************************************************************************)
EXTENDS Integers, FiniteSets

CONSTANTS
    N,          \* s_w_n: strips, one unit each
    Width,      \* pixels of a strip (64)
    Band,       \* pixels to either side of a seam where nobody hands off (4)
    World,      \* the scripts of moves a window may have, functions on 0 .. Win-1
    Win,        \* steps from one anchor to the next
    RingMax,    \* WKF_N
    Lookahead,  \* the lead in steps before it is cut to the ring (three times `sync lead')
    Past, Future,   \* the corridor of steps a keyframe must lie in (120, 240)
    LiveLag,    \* a sim that is further behind replays (3)
    Grace,      \* ticks a unit goes on talking after it gave up ownership (2 s)
    Silence,    \* ticks after which a silent owner is replaced (3.5 s)
    Delay,      \* bound: ticks a late beacon may take
    MaxFault,   \* bound: beacons lost, or not received in the tick they are sent
    MaxLeave    \* bound: how often a unit shows something else

Unit == 0 .. N - 1
Old == Delay + 1                \* an age beyond that of any beacon in the air

ASSUME WalkerAssumption ==
    /\ {N, Width, Win, RingMax} \subseteq Nat \ {0}
    /\ World \subseteq [0 .. Win - 1 -> Int]
    /\ {Band, Lookahead, Past, Future, LiveLag, Grace, Silence, Delay, MaxFault,
        MaxLeave} \subseteq Nat

VARIABLES
    world,      \* the script of this window
    now,        \* ticks since the anchor: the step every sim should be at
    shown,      \* units whose screen shows the walker
    anchored,   \* units whose s_wk_anchor is this window's
    drawn,      \* units that have drawn this tick's frame
    steps,      \* s_wk_steps
    x,          \* s_wk.x
    replaying,  \* s_wk_replaying
    owner,      \* s_wko.owner
    claimAge,   \* age of s_wko.own_tsf
    rxAge,      \* age of s_wko.rx_us
    grace,      \* ticks until s_wko.grace_until
    resync,     \* units whose s_wko.resync is set
    ring,       \* s_wkf: valid keyframes
    net,        \* beacons in the air
    faults, leaves, \* bounds
    dual        \* history: ticks with beacons for which all units have owned the walker

sim == <<steps, x, replaying>>
book == <<owner, claimAge, rxAge, grace, resync>>
counts == <<faults, leaves, dual>>
walkerVars == <<world, now, shown, anchored, drawn, sim, book, ring, net, counts>>

Owns(u) == N <= 1 \/ owner[u] = u

\* The place of every respawn, left of the middle of the world.
Spawn == N * (Width \div 2) - Width \div 4

WalkerInit ==
    /\ world \in World /\ now = 0
    /\ shown = Unit /\ anchored = {} /\ drawn = {}
    /\ steps = [u \in Unit |-> 0] /\ x = [u \in Unit |-> Spawn]
    /\ replaying = [u \in Unit |-> FALSE]
    /\ owner = [u \in Unit |-> 0] /\ claimAge = [u \in Unit |-> Old]
    /\ rxAge = [u \in Unit |-> 0] /\ grace = [u \in Unit |-> 0] /\ resync = {}
    /\ ring = [u \in Unit |-> {}] /\ net = {}
    /\ faults = 0 /\ leaves = 0 /\ dual = 0

-----------------------------------------------------------------------------
(* The frame of one unit: pat_walker.                                      *)

\* wk_step: the move of a step depends on the world and its number alone.
Move(p, q) == p + world[q]

\* The strip the walker is on, or the closest when he is beyond all of them.
InWorld(p) == 0 <= p /\ p < N * Width

StripOf(p) == IF p < 0 THEN 0 ELSE IF p >= N * Width THEN N - 1 ELSE p \div Width

\* Where the edge law lets a place be claimed.
Firm(p) == InWorld(p) => p % Width \in Band .. Width - Band

\* A new anchor: the sim starts again, strip 0 owns by decree, and all that is
\* keyed by step is cleared (pat_walker, wk_respawn).
Rollover(u) ==
    /\ u \in shown \ anchored
    /\ anchored' = anchored \cup {u}
    /\ steps' = [steps EXCEPT ![u] = 0]
    /\ x' = [x EXCEPT ![u] = Spawn]
    /\ owner' = [owner EXCEPT ![u] = 0]
    /\ claimAge' = [claimAge EXCEPT ![u] = Old]
    /\ rxAge' = [rxAge EXCEPT ![u] = 0]
    /\ grace' = [grace EXCEPT ![u] = 0]
    /\ ring' = [ring EXCEPT ![u] = {}]
    /\ UNCHANGED <<world, now, shown, drawn, replaying, resync, net, counts>>

\* One turn of the loop: step, adopt the owner's keyframe for this step, hand
\* off when the walker is well inside another strip and the sim is live.
Keyframe(u, q) == {e \in ring[u] : e.step = q}

Adopt(u, q, p) ==
    IF Owns(u) THEN x' = [x EXCEPT ![u] = p] /\ UNCHANGED ring
    ELSE /\ x' = [x EXCEPT ![u] = IF Keyframe(u, q) = {} THEN p
                                  ELSE (CHOOSE e \in Keyframe(u, q) : TRUE).x]
         /\ ring' = [ring EXCEPT ![u] = {e \in @ : e.step > q}]

\* The frame after a seizure: the steps owed are skipped, the pose stays.
Resync(u) ==
    /\ u \in (shown \cap anchored \cap resync) \ drawn
    /\ resync' = resync \ {u}
    /\ steps' = [steps EXCEPT ![u] = now]
    /\ replaying' = [replaying EXCEPT ![u] = FALSE]
    /\ rxAge' = [rxAge EXCEPT ![u] = 0]
    /\ UNCHANGED <<world, now, shown, anchored, drawn, x, owner, claimAge, grace, ring, net, counts>>

HandsOff(u, p, live) == N > 1 /\ Owns(u) /\ live /\ Firm(p) /\ StripOf(p) # u

Step(u) ==
    /\ u \in (shown \cap anchored) \ resync /\ steps[u] < now
    /\ LET q == steps[u]
           live == now - q <= LiveLag
       IN
         /\ replaying' = [replaying EXCEPT ![u] = ~live]
         /\ Adopt(u, q, Move(x[u], q))
         /\ IF HandsOff(u, Move(x[u], q), live)
            THEN /\ owner' = [owner EXCEPT ![u] = StripOf(Move(x[u], q))]
                 /\ claimAge' = [claimAge EXCEPT ![u] = 0]
                 /\ grace' = [grace EXCEPT ![u] = Grace]
            ELSE UNCHANGED <<owner, claimAge, grace>>
         /\ steps' = [steps EXCEPT ![u] = q + 1]
    /\ UNCHANGED <<world, now, shown, anchored, drawn, rxAge, resync, net, counts>>

\* Mutant of Ahead: the horizon is not cut to the ring.
AheadUncut(s) ==
    IF s + Lookahead < Win THEN Lookahead ELSE IF Win > s + 2 THEN Win - s - 2 ELSE 0

\* How far ahead the owner promises: within the ring, and within the window.
Ahead(s) ==
    LET k == IF Lookahead < RingMax - 2 THEN Lookahead ELSE RingMax - 2
    IN IF s + k < Win THEN k ELSE IF Win > s + 2 THEN Win - s - 2 ELSE 0

\* The shadow sim counts the step before it makes it, so it makes the moves of
\* the steps after s, and names its end by the last of them.
Shadow(s, k, p) ==
    LET run[i \in 0 .. k] == IF i = 0 THEN p ELSE Move(run[i - 1], s + i) IN run[k]

Beacon(u) ==
    LET s == steps[u] k == Ahead(steps[u])
    IN [from |-> u, owner |-> owner[u], step |-> s + k, x |-> Shadow(s, k, x[u]),
        age |-> 0, old |-> FALSE]

Talks(u) == Owns(u) \/ grace[u] > 0

Seizes(u) ==
    /\ ~replaying[u] /\ ~Owns(u) /\ rxAge[u] > Silence
    /\ Firm(x[u]) /\ StripOf(x[u]) = u

\* The end of the frame: the beacon, then the seizure of a silent owner's walker.
Draw(u) ==
    /\ u \in (shown \cap anchored) \ (drawn \cup resync) /\ steps[u] = now
    /\ drawn' = drawn \cup {u}
    /\ net' = IF N > 1 /\ Talks(u) /\ Ahead(steps[u]) > 0 /\ ~replaying[u]
              THEN net \cup {Beacon(u)} ELSE net
    /\ IF N > 1 /\ Seizes(u)
       THEN /\ owner' = [owner EXCEPT ![u] = u]
            /\ claimAge' = [claimAge EXCEPT ![u] = 0]
            /\ resync' = resync \cup {u}
       ELSE UNCHANGED <<owner, claimAge, resync>>
    /\ UNCHANGED <<world, now, shown, anchored, sim, rxAge, grace, ring, counts>>

-----------------------------------------------------------------------------
(* The receive task: whm_ui_wkb_rx.                                        *)

\* Mutant of Ranks: a unit that owns does not listen to claims.
RanksUnlessOwner(u, m) == ~replaying[u] /\ ~Owns(u) /\ m.age <= claimAge[u]

\* A claim counts if it was sent after the one last accepted; in one tick
\* either may be the later.
Ranks(u, m) == ~replaying[u] /\ m.age <= claimAge[u]

Claim(u, m) ==
    /\ owner' = [owner EXCEPT ![u] = m.owner]
    /\ claimAge' = [claimAge EXCEPT ![u] = m.age]
    /\ grace' = [grace EXCEPT ![u] =
         IF Owns(u) /\ m.owner # u THEN Grace
         ELSE IF ~Owns(u) /\ m.owner # u THEN 0 ELSE @]

\* Mutant of InCorridor: there is none.
AnyStep(u, m) == TRUE

\* A keyframe must lie in the corridor and in the future of this sim.
InCorridor(u, m) == m.step + Past >= steps[u] /\ m.step <= steps[u] + Future

Oldest(r) == CHOOSE e \in r : \A f \in r : e.step <= f.step

\* Mutant of Banked: a slot of the same step is not used again.
BankedBeside(r, e) ==
    {e} \cup IF Cardinality(r) = RingMax THEN r \ {Oldest(r)} ELSE r

Banked(r, e) ==
    LET others == {f \in r : f.step # e.step}
    IN {e} \cup IF others = r /\ Cardinality(r) = RingMax THEN r \ {Oldest(r)} ELSE others

\* What is banked is judged by the ownership that the claim has left.
Bank(u, m) ==
    ring' = [ring EXCEPT ![u] =
      IF owner'[u] # u /\ InCorridor(u, m) /\ m.step > steps[u]
      THEN Banked(@, [step |-> m.step, x |-> m.x, old |-> m.old]) ELSE @]

Receive(u, m) ==
    /\ m.from # u
    /\ rxAge' = [rxAge EXCEPT ![u] = 0]
    /\ \/ Ranks(u, m) /\ Claim(u, m)
       \/ (~Ranks(u, m) \/ m.age = claimAge[u]) /\ UNCHANGED <<owner, claimAge, grace>>
    /\ Bank(u, m)

\* A beacon reaches every unit, or some of them and is lost to the others; with
\* two units it has one receiver.
Deliver(m) ==
    /\ m \in net
    /\ net' = net \ {m}
    /\ \E u \in Unit : Receive(u, m)
    /\ UNCHANGED <<world, now, shown, anchored, drawn, sim, resync, counts>>

Lose(m) ==
    /\ m \in net /\ faults < MaxFault
    /\ net' = net \ {m}
    /\ faults' = faults + 1
    /\ UNCHANGED <<world, now, shown, anchored, drawn, sim, book, ring, leaves, dual>>

-----------------------------------------------------------------------------
(* Another screen, and the walker again: whm_ui_pattern_set.               *)

Leave(u) ==
    /\ u \in shown /\ leaves < MaxLeave
    /\ shown' = shown \ {u}
    /\ leaves' = leaves + 1
    /\ UNCHANGED <<world, now, anchored, drawn, sim, book, ring, net, faults, dual>>

Enter(u) ==
    /\ u \notin shown
    /\ shown' = shown \cup {u}
    /\ anchored' = anchored \ {u}
    /\ drawn' = drawn \ {u}
    /\ UNCHANGED <<world, now, sim, book, ring, net, counts>>

-----------------------------------------------------------------------------
(* Time.  Every unit that shows the walker has drawn, and no beacon is as  *)
(* old as a beacon can get.                                                *)

Older(age, cap) == [u \in Unit |-> IF age[u] < cap THEN age[u] + 1 ELSE age[u]]

AllDrawn == shown \subseteq drawn \cap anchored

Ages ==
    /\ claimAge' = Older(claimAge, Old) /\ rxAge' = Older(rxAge, Silence + 1)
    /\ grace' = [u \in Unit |-> IF grace[u] > 0 THEN grace[u] - 1 ELSE 0]
    /\ dual' = IF shown # Unit \/ \E u \in Unit : ~Owns(u) THEN 0
               ELSE IF Ahead(now) > 0 THEN dual + 1 ELSE dual

NextTick ==
    /\ AllDrawn /\ \A m \in net : m.age < Delay
    /\ faults' = faults + Cardinality({m \in net : m.age = 0}) /\ faults' <= MaxFault
    /\ drawn' = {}
    /\ Ages
    /\ IF now + 1 < Win
       THEN /\ now' = now + 1
            /\ net' = {[m EXCEPT !.age = @ + 1] : m \in net}
            /\ UNCHANGED <<world, anchored, ring>>
       ELSE /\ now' = 0 /\ world' \in World /\ anchored' = {}
            /\ net' = {[m EXCEPT !.age = @ + 1, !.old = TRUE] : m \in net}
            /\ ring' = [u \in Unit |-> {[e EXCEPT !.old = TRUE] : e \in ring[u]}]
    /\ UNCHANGED <<shown, sim, owner, resync, leaves>>

-----------------------------------------------------------------------------
WalkerNext ==
    \/ \E u \in Unit : Rollover(u) \/ Resync(u) \/ Step(u) \/ Draw(u) \/ Leave(u) \/ Enter(u)
    \/ \E m \in net : Deliver(m) \/ Lose(m)
    \/ NextTick

WalkerSpec == WalkerInit /\ [][WalkerNext]_walkerVars

-----------------------------------------------------------------------------
(* Properties.                                                             *)

Live(u) == u \in shown \cap anchored /\ steps[u] = now

\* Every variable keeps its type: rings hold at most WKF_N keyframes of distinct
\* steps, ages and grace stay within their ranges (the declarations of s_wk,
\* s_wko and s_wkf).
WalkerTypeOK ==
    /\ world \in World /\ now \in 0 .. Win - 1
    /\ shown \subseteq Unit /\ anchored \subseteq Unit /\ drawn \subseteq Unit
    /\ steps \in [Unit -> 0 .. Win - 1] /\ x \in [Unit -> Int]
    /\ replaying \in [Unit -> BOOLEAN] /\ owner \in [Unit -> Unit]
    /\ claimAge \in [Unit -> 0 .. Old] /\ rxAge \in [Unit -> 0 .. Silence + 1]
    /\ grace \in [Unit -> 0 .. Grace] /\ resync \subseteq Unit
    /\ \A u \in Unit : /\ Cardinality(ring[u]) <= RingMax
                       /\ \A e, f \in ring[u] : e.step = f.step => e = f
    /\ \A m \in net : m.from \in Unit /\ m.owner \in Unit /\ m.x \in Int /\ m.age \in 0 .. Delay
    /\ faults \in 0 .. MaxFault /\ leaves \in 0 .. MaxLeave /\ dual \in Nat

\* While every panel shows the walker, some panel sends his beacons: the comment of the
\* demotion grace (src/main/ui.c:2379) calls silence structurally impossible.  It is not:
\* after claims have crossed, a second late claim of the same sender passes for the
\* successor's and ends the grace of the unit that the first one demoted.
SomeoneTalks == AllDrawn /\ shown = Unit => \E u \in Unit : Talks(u)

\* Two panels that both hold themselves for the owner, after a hand-off, a seizure or a
\* stay of one of them at another screen, do so no longer than one tick and a tick more
\* for each beacon lost or late (arbitration by send time in whm_ui_wkb_rx); the last two
\* ticks of a window, in which nobody sends, do not count.
TwoOwnersBrief == dual <= faults + 1

\* No panel holds a keyframe of the window before: its small steps would be taken
\* for those of this window (rollover hygiene and corridor of src/main/ui.c).
OwnWindow == \A u \in shown \cap anchored : \A e \in ring[u] : ~e.old

\* A panel that is at most two steps behind loses a promise only when its step comes,
\* never to the promises that follow (the near horizon of pat_walker: the ring holds
\* two frames more than an owner looks ahead).
PromisesKept ==
    [][ \A u \in Unit :
          u \in shown \cap anchored /\ u \in anchored' /\ now - steps[u] <= 2
          => {e.step : e \in {f \in ring[u] : f.step > steps'[u]}}
               \subseteq {e.step : e \in ring'[u]} ]_walkerVars
=============================================================================
