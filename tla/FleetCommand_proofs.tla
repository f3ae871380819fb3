------------------------- MODULE FleetCommand_proofs -------------------------
(***************************************************************************)
(* Fleet commands for any fleet, consoles, bursts and disturbances: the    *)
(* order in which a receiver runs what one sender signed, that nothing     *)
(* signed is run twice, and that only a full queue loses what was reported *)
(* as queued.                                                              *)
(***************************************************************************)
EXTENDS FleetCommand, FiniteSetTheorems, SequenceTheorems, WellFoundedInduction, TLAPS

---------------------------------------------------------------------------
(* What the properties need of the fleet. *)

\* Every unit of the fleet gets a slot for its nonces at every other.
PeersFit == IsFiniteSet(Unit) /\ Cardinality(Unit) <= PeerMax

\* The access point's clock does not restart where a unit has forgotten the nonces.
ClockOrMemory == Fragile = {} \/ "reset" \notin Troubles \/ MaxDisturb = 1

---------------------------------------------------------------------------
(* The inductive invariant. *)

Known == DOMAIN cmd
Send == [at : Steps, cmd : Cmd \cup {None}, seq : Nat, shots : 0 .. Burst - 1]

CmdTyped ==
    /\ cmd \in Seq(Commands) /\ Len(cmd) <= MaxCmd
    /\ \A c \in Known : cmd[c].signed <=> cmd[c].from \in Unit

TaskTyped ==
    /\ task \in [Console -> Send]
    /\ \A k \in Console : task[k].at # "idle" => task[k].cmd \in Known

QueueTyped ==
    /\ fq \in [Unit -> Seq(Known)] /\ ran \in [Unit -> Seq(Known)]
    /\ queued \in [Unit -> SUBSET Known] /\ dropped \in [Unit -> SUBSET Known]
    /\ running \in [Unit -> Cmd \cup {None}]
    /\ \A n \in Unit : Len(fq[n]) <= QueueMax /\ Range(fq[n]) \subseteq queued[n]

InboxTyped == inbox \in [Unit -> Seq(Known)] /\ \A n \in Unit : ~up[n] => inbox[n] = <<>>

SeenTyped ==
    /\ seen \in [Unit -> Seq((Unit \cup {Guest}) \X Nat)]
    /\ \A n \in Unit : Len(seen[n]) <= SeenMax

Slots(n) == {s \in Unit : rt[n][s] # NoSlot}

NoncesTyped ==
    /\ rt \in [Unit -> [Unit -> Nat]]
    /\ \A n \in Unit : IsFiniteSet(Slots(n)) /\ Cardinality(Slots(n)) <= PeerMax

WorldTyped ==
    /\ tsf \in 1 .. MaxTime /\ seqno \in [Unit -> Nat] /\ up \in [Unit -> BOOLEAN]
    /\ pins \in [Unit -> SUBSET Unit] /\ disturb \in 0 .. MaxDisturb

Typed ==
    /\ CmdTyped /\ TaskTyped /\ QueueTyped /\ InboxTyped /\ SeenTyped /\ NoncesTyped
    /\ WorldTyped

\* Each send is of a command of its own, which gets its nonce before the first shot.
Senders ==
    /\ \A k \in Console : task[k].at # "idle" =>
         /\ cmd[task[k].cmd].from = Home[k] /\ cmd[task[k].cmd].signed
         /\ cmd[task[k].cmd].nonce = 0 <=> task[k].at # "bursting"
    /\ \A k, l \in Console :
         k # l /\ task[k].at # "idle" /\ task[l].at # "idle" => task[k].cmd # task[l].cmd

\* What a unit has queued or run, and what may still reach it.
Taken(n) == queued[n] \cup Range(ran[n])
Fired == {c \in Known : \E k \in Console : task[k].at = "bursting" /\ task[k].cmd = c}
Pending(n) == Range(inbox[n]) \cup Fired

\* Only sealed commands of others leave their sender.
Sealed ==
    \A n \in Unit :
        /\ \A c \in Range(inbox[n]) : cmd[c].signed => cmd[c].nonce # 0
        /\ \A c \in Taken(n) : cmd[c].signed /\ cmd[c].from # n => cmd[c].nonce # 0

Base == Typed /\ Senders /\ Sealed

\* The nonces given out in one tick are counted from the first.
InTick(t) == {c \in Known : cmd[c].nonce \div MaxCmd = t}
Counted ==
    \A c \in Known : LET t == cmd[c].nonce \div MaxCmd IN
        t # 0 => cmd[c].nonce < t * MaxCmd + Cardinality(InTick(t))

\* Either a unit remembers the nonces of all it took, or no nonce is ahead of the clock.
Rivals(n, a, b) ==
    cmd[a].signed /\ cmd[b].signed /\ cmd[a].from = cmd[b].from /\ cmd[a].from # n

Remembered ==
    \A n \in Unit : \A d \in Taken(n) :
        cmd[d].signed /\ cmd[d].from # n => cmd[d].nonce < rt[n][cmd[d].from]

Monotone == \A c \in Known : cmd[c].nonce \div MaxCmd <= tsf

Clocked ==
    /\ Remembered \/ Monotone
    /\ Fragile = {} => Remembered
    /\ "reset" \notin Troubles => Monotone
    /\ disturb = 0 => Remembered /\ Monotone

\* What may still reach a unit is not older than what it took, or will be refused.
Fresh ==
    \A n \in Unit : up[n] => \A c \in Pending(n), d \in Taken(n) :
        Rivals(n, c, d) => cmd[d].nonce <= cmd[c].nonce \/ cmd[c].nonce < rt[n][cmd[c].from]

InOrder ==
    \A n \in Unit : \A i, j \in DOMAIN fq[n] :
        i < j /\ Rivals(n, fq[n][i], fq[n][j]) => cmd[fq[n][i]].nonce <= cmd[fq[n][j]].nonce

NotOvertaken ==
    \A n \in Unit : \A a \in Range(fq[n]), b \in Range(ran[n]) :
        Rivals(n, a, b) => ~(cmd[a].nonce < cmd[b].nonce /\ cmd[a].at <= cmd[b].at)

Order == Counted /\ Clocked /\ Fresh /\ InOrder /\ NotOvertaken /\ OrderKept

\* A command is queued at home after it was stamped, and nowhere before.
Stamped == \A k \in Console : task[k].at = "stamped" => task[k].cmd \notin Taken(Home[k])

\* c is once in the queue or once in what was run.
OnceAt(n, c) ==
    /\ \A i, j \in DOMAIN fq[n] : fq[n][i] = c /\ fq[n][j] = c => i = j
    /\ \A i, j \in DOMAIN ran[n] : ran[n][i] = c /\ ran[n][j] = c => i = j
    /\ ~(c \in Range(fq[n]) /\ c \in Range(ran[n]))

\* What a unit took of others is below the nonce it expects next of
\* their sender, as long as it may still arrive.
Answered ==
    \A n \in Unit : up[n] => \A c \in Taken(n) \cap Pending(n) :
        cmd[c].signed /\ cmd[c].from # n => cmd[c].nonce < rt[n][cmd[c].from]

SignedDistinct == \A n \in Unit : \A c \in Known : cmd[c].signed => OnceAt(n, c)

SignedOnce == Stamped /\ Answered /\ SignedDistinct

NoGuests == "inject" \notin Troubles => \A c \in Known : cmd[c].signed

Inv ==
    /\ Base /\ NoGuests
    /\ PeersFit => SignedOnce
    /\ PeersFit /\ ClockOrMemory => Order
    /\ PeersFit /\ "inject" \notin Troubles => QueuedIsKept

---------------------------------------------------------------------------
(* Sequences and sets. *)

\* What a proof uses of the constants.
LEMMA Sizes ==
    /\ Burst \in Nat \ {0} /\ MaxCmd \in Nat \ {0} /\ Lead \in Nat \ {0}
    /\ QueueMax \in Nat \ {0} /\ SeenMax \in Nat \ {0} /\ PeerMax \in Nat \ {0}
    /\ LastSend \in Nat \ {0} /\ MaxDisturb \in Nat /\ MaxTime \in Nat /\ MaxTime >= 2
    /\ Unit \subseteq Nat \ {0} /\ Home \in [Console -> Unit] /\ Guest \notin Unit
BY UnitAssumption, ConsoleAssumption, SizeAssumption, BoundAssumption DEF MaxTime

LEMMA KnownIs ==
    ASSUME CmdTyped
    PROVE  /\ Known = 1 .. Len(cmd) /\ Known \subseteq Cmd /\ Len(cmd) \in Nat
           /\ IsFiniteSet(Known) /\ Cardinality(Known) = Len(cmd)
           /\ \A c \in Known : cmd[c] \in Commands
<1>1. cmd \in Seq(Commands) /\ Len(cmd) \in Nat /\ Known = 1 .. Len(cmd) /\ Len(cmd) <= MaxCmd
  BY DEF CmdTyped, Known
<1>2. Known \subseteq Cmd
  BY <1>1, Sizes DEF Cmd
<1>3. IsFiniteSet(Known) /\ Cardinality(Known) = Len(cmd)
  BY SMTT(30), <1>1, FS_Interval
<1>4. \A c \in Known : cmd[c] \in Commands
  BY <1>1
<1> QED BY <1>1, <1>2, <1>3, <1>4

\* Appending, taking the first, taking one out: lengths and elements.
LEMMA Appended ==
    ASSUME NEW S, NEW s \in Seq(S), NEW e \in S
    PROVE  /\ Append(s, e) \in Seq(S) /\ Len(Append(s, e)) = Len(s) + 1
           /\ Range(Append(s, e)) = Range(s) \cup {e}
           /\ \A i \in DOMAIN s : Append(s, e)[i] = s[i]
           /\ Append(s, e)[Len(s) + 1] = e
           /\ DOMAIN Append(s, e) = DOMAIN s \cup {Len(s) + 1}
<1>1. /\ Append(s, e) \in Seq(S) /\ Len(Append(s, e)) = Len(s) + 1
      /\ \A i \in 1 .. Len(s) : Append(s, e)[i] = s[i]
      /\ Append(s, e)[Len(s) + 1] = e
      /\ DOMAIN s = 1 .. Len(s) /\ Len(s) \in Nat
      /\ DOMAIN Append(s, e) = 1 .. Len(s) + 1
  BY AppendProperties
<1>2. DOMAIN Append(s, e) = DOMAIN s \cup {Len(s) + 1}
  BY <1>1
<1>3. Range(Append(s, e)) = Range(s) \cup {e}
  BY <1>1, <1>2 DEF Range
<1> QED BY <1>1, <1>2, <1>3

LEMMA Tailed ==
    ASSUME NEW S, NEW s \in Seq(S), s # <<>>
    PROVE  /\ Tail(s) \in Seq(S) /\ Len(Tail(s)) = Len(s) - 1 /\ Head(s) \in S
           /\ Head(s) \in Range(s) /\ Range(Tail(s)) \subseteq Range(s)
<1>1. /\ Tail(s) \in Seq(S) /\ Len(Tail(s)) = Len(s) - 1 /\ Head(s) \in S
      /\ Len(s) \in Nat /\ Len(s) # 0 /\ Head(s) = s[1]
      /\ \A i \in 1 .. Len(Tail(s)) : Tail(s)[i] = s[i + 1]
      /\ DOMAIN s = 1 .. Len(s) /\ DOMAIN Tail(s) = 1 .. Len(Tail(s))
  BY HeadTailProperties
<1>2. 1 \in DOMAIN s /\ \A i \in DOMAIN Tail(s) : i + 1 \in DOMAIN s
  BY <1>1
<1> QED BY <1>1, <1>2 DEF Range

\* What RemoveAt leaves, and in which order.
LEMMA Removed ==
    ASSUME NEW S, NEW s \in Seq(S), NEW i \in DOMAIN s
    PROVE  LET t == RemoveAt(s, i) IN
           /\ t \in Seq(S) /\ Len(t) = Len(s) - 1
           /\ \A j \in DOMAIN t : t[j] = s[IF j < i THEN j ELSE j + 1]
           /\ \A j \in DOMAIN t : (IF j < i THEN j ELSE j + 1) \in DOMAIN s \ {i}
           /\ \A j \in DOMAIN s \ {i} : \E l \in DOMAIN t : t[l] = s[j]
<1> DEFINE a == SubSeq(s, 1, i - 1)
           b == SubSeq(s, i + 1, Len(s))
           t == RemoveAt(s, i)
<1>1. Len(s) \in Nat /\ DOMAIN s = 1 .. Len(s) /\ i \in 1 .. Len(s)
  OBVIOUS
<1>2. /\ a \in Seq(S) /\ Len(a) = i - 1 /\ \A j \in 1 .. i - 1 : a[j] = s[j]
  <2>1. CASE i = 1
    BY <1>1, <2>1
  <2>2. CASE i # 1
    BY <1>1, <2>2
  <2> QED BY <2>1, <2>2
<1>3. /\ b \in Seq(S) /\ Len(b) = Len(s) - i /\ \A j \in 1 .. Len(s) - i : b[j] = s[j + i]
  <2>1. CASE i = Len(s)
    BY <1>1, <2>1, SMTT(30)
  <2>2. CASE i # Len(s)
    BY <1>1, <2>2, SMTT(30)
  <2> QED BY <2>1, <2>2
<1>4. t = a \o b
  BY DEF RemoveAt
<1> HIDE DEF a, b, t
<1>5. /\ t \in Seq(S) /\ Len(t) = Len(s) - 1 /\ DOMAIN t = 1 .. Len(s) - 1
      /\ \A j \in 1 .. Len(s) - 1 : t[j] = IF j <= i - 1 THEN a[j] ELSE b[j - (i - 1)]
  <2>1. /\ t \in Seq(S) /\ Len(t) = Len(a) + Len(b)
        /\ \A j \in 1 .. Len(a) + Len(b) : t[j] = IF j <= Len(a) THEN a[j] ELSE b[j - Len(a)]
    BY <1>2, <1>3, <1>4, ConcatProperties
  <2>2. Len(a) + Len(b) = Len(s) - 1
    BY <1>1, <1>2, <1>3
  <2>3. DOMAIN t = 1 .. Len(t)
    BY <2>1
  <2> QED BY <1>2, <2>1, <2>2, <2>3
<1>6. ASSUME NEW j \in DOMAIN t
      PROVE  /\ t[j] = s[IF j < i THEN j ELSE j + 1]
             /\ (IF j < i THEN j ELSE j + 1) \in DOMAIN s \ {i}
  <2>1. CASE j < i
    BY <1>1, <1>2, <1>5, <2>1
  <2>2. CASE ~(j < i)
    <3>1. j - (i - 1) \in 1 .. Len(s) - i /\ j - (i - 1) + i = j + 1
      BY <1>1, <1>5, <2>2
    <3>2. t[j] = b[j - (i - 1)] /\ b[j - (i - 1)] = s[j + 1]
      BY SMTT(30), <1>1, <1>3, <1>5, <2>2, <3>1
    <3> QED BY <1>1, <1>5, <2>2, <3>2
  <2> QED BY <2>1, <2>2
<1>7. ASSUME NEW j \in DOMAIN s \ {i} PROVE \E l \in DOMAIN t : t[l] = s[j]
  <2>1. CASE j < i
    BY <1>1, <1>5, <1>6, <2>1
  <2>2. CASE ~(j < i)
    <3>1. j - 1 \in DOMAIN t /\ ~(j - 1 < i) /\ (j - 1) + 1 = j
      BY <1>1, <1>5, <2>2
    <3>2. t[j - 1] = s[j]
      BY <1>6, <3>1
    <3> QED BY <3>1, <3>2
  <2> QED BY <2>1, <2>2
<1> QED BY <1>5, <1>6, <1>7 DEF t

---------------------------------------------------------------------------
(* Which steps change what. *)

Stamps == \E k \in Console, t \in Target : Stamp(k, t)
Defers == \E k \in Console : DeferOwn(k)
Loads == \E k \in Console : LoadSeq(k)
Seals == \E k \in Console : Seal(k)
Shoots == \E k \in Console, R \in SUBSET Unit : Shot(k, R)
Receives == \E n \in Unit : Receive(n)
Pops == \E n \in Unit : PopDue(n)
Injects == \E n \in Unit, R \in SUBSET Unit : Inject(n, R)
Fails == \E n \in Unit : PowerLoss(n)
Boots == \E n \in Unit : Boot(n)
Rests ==
    \/ \E n \in Unit : Finish(n)
    \/ \E n, s \in Unit : Ident(n, s) \/ Forget(n, s)
    \/ Tick \/ TsfReset \/ UNCHANGED vars

LEMMA EveryStep ==
    ASSUME [Next]_vars
    PROVE  \/ Stamps \/ Defers \/ Loads \/ Seals \/ Shoots \/ Receives
           \/ Pops \/ Injects \/ Fails \/ Boots \/ Rests
BY DEF Next, Proceed, Stamps, Defers, Loads, Seals, Shoots, Receives, Pops, Injects, Fails, Boots,
       Rests

LEMMA Frames ==
    ASSUME [Next]_vars
    PROVE  /\ UNCHANGED cmd \/ Stamps \/ Seals \/ Injects
           /\ UNCHANGED task \/ Stamps \/ Defers \/ Loads \/ Seals \/ Shoots \/ Fails
           /\ UNCHANGED inbox \/ Shoots \/ Receives \/ Injects \/ Fails
           /\ UNCHANGED <<fq, queued, dropped>> \/ Defers \/ Receives \/ Pops \/ Fails
           /\ UNCHANGED ran \/ Pops
           /\ UNCHANGED <<rt, seen>> \/ Receives \/ Fails
           /\ UNCHANGED up \/ Fails \/ Boots
           /\ UNCHANGED disturb \/ Injects \/ Fails \/ Rests
           /\ UNCHANGED <<tsf, pins>> \/ Rests
           /\ UNCHANGED seqno \/ Seals
<1>1. CASE Stamps
  BY <1>1 DEF Stamps, Stamp, air, queue
<1>2. CASE Defers
  BY <1>2 DEF Defers, DeferOwn, Defer, air, queue
<1>3. CASE Loads
  BY <1>3 DEF Loads, LoadSeq, air, queue
<1>4. CASE Seals
  BY <1>4 DEF Seals, Seal, air, queue
<1>5. CASE Shoots
  BY <1>5 DEF Shoots, Shot, queue
<1>6. CASE Receives
  BY <1>6 DEF Receives, Receive, Defer, queue
<1>7. CASE Pops
  BY <1>7 DEF Pops, PopDue, air
<1>8. CASE Injects
  BY <1>8 DEF Injects, Inject, queue
<1>9. CASE Fails
  BY <1>9 DEF Fails, PowerLoss
<1>10. CASE Boots
  BY <1>10 DEF Boots, Boot, air, queue
<1>11. CASE Rests
  BY <1>11 DEF Rests, Finish, Ident, Forget, Tick, TsfReset, Disturb, air, queue, vars
<1> QED BY EveryStep, <1>1, <1>2, <1>3, <1>4, <1>5, <1>6, <1>7, <1>8, <1>9, <1>10, <1>11

---------------------------------------------------------------------------
(* What a step does to the commands. *)

\* A new command.
LEMMA NewCommand ==
    ASSUME CmdTyped, NEW r \in Commands, New \in Cmd, r.signed <=> r.from \in Unit,
           cmd' = Append(cmd, r)
    PROVE  /\ CmdTyped' /\ Known' = Known \cup {New} /\ New \notin Known
           /\ \A c \in Known : cmd'[c] = cmd[c]
           /\ cmd'[New] = r
<1>1. cmd \in Seq(Commands) /\ Known = 1 .. Len(cmd) /\ Len(cmd) \in Nat
  BY KnownIs DEF CmdTyped
<1>2. /\ cmd' \in Seq(Commands) /\ Len(cmd') = Len(cmd) + 1 /\ DOMAIN cmd' = Known \cup {New}
      /\ \A c \in Known : cmd'[c] = cmd[c]
      /\ cmd'[New] = r
  BY <1>1, Appended DEF New, Known
<1>3. New \notin Known
  BY <1>1 DEF New
<1>4. Len(cmd') <= MaxCmd
  BY <1>1, <1>2, Sizes DEF New, Cmd
<1>5. \A c \in Known' : cmd'[c].signed <=> cmd'[c].from \in Unit
  BY <1>2 DEF CmdTyped, Known
<1> QED BY <1>2, <1>3, <1>4, <1>5 DEF CmdTyped, Known

\* The counter of nonces within a tick.
LEMMA Ticks ==
    \A t \in Nat : \A v \in Nat :
        /\ v \div MaxCmd = t => t * MaxCmd <= v /\ v < t * MaxCmd + MaxCmd
        /\ t * MaxCmd <= v /\ v < t * MaxCmd + MaxCmd => v \div MaxCmd = t
        /\ v \div MaxCmd \in Nat
        /\ v \div MaxCmd < t => v < t * MaxCmd
BY Sizes, SMTT(30)

LEMMA StampStep ==
    ASSUME Base, NEW k \in Console, NEW t \in Target, Stamp(k, t)
    PROVE  /\ CmdTyped' /\ Known' = Known \cup {New} /\ New \notin Known /\ New \in Cmd
           /\ \A c \in Known : cmd'[c] = cmd[c]
           /\ cmd'[New].from = Home[k] /\ cmd'[New].signed /\ cmd'[New].nonce = 0
           /\ task[k].at = "idle" /\ task'[k].at = "stamped" /\ task'[k].cmd = New
           /\ task'[k] \in Send
           /\ \A l \in Console \ {k} : task'[l] = task[l]
<1> DEFINE r == [from |-> Home[k], target |-> t, at |-> tsf + Lead, seq |-> 0, nonce |-> 0,
                 signed |-> TRUE]
<1>1. t \in Unit \cup {Everyone} /\ Home[k] \in Unit /\ tsf + Lead \in Nat
  BY TargetAssumption, Sizes DEF Base, Typed, WorldTyped, Everyone
<1>2. /\ r \in Commands /\ r.from = Home[k] /\ r.signed /\ r.nonce = 0
      /\ cmd' = Append(cmd, r) /\ New \in Cmd /\ CmdTyped
  BY <1>1 DEF Commands, Stamp, MayStart, Base, Typed
<1> HIDE DEF r
<1>3. /\ CmdTyped' /\ Known' = Known \cup {New} /\ New \notin Known
      /\ \A c \in Known : cmd'[c] = cmd[c]
      /\ cmd'[New] = r
  BY <1>1, <1>2, NewCommand
<1>4. /\ task[k].at = "idle" /\ task \in [Console -> Send]
      /\ task' = [task EXCEPT ![k] = [Idle EXCEPT !.at = "stamped", !.cmd = New]]
  BY DEF Stamp, At, Base, Typed, TaskTyped
<1>5. /\ task'[k] = [Idle EXCEPT !.at = "stamped", !.cmd = New]
      /\ \A l \in Console \ {k} : task'[l] = task[l]
  BY <1>4
<1>6. task'[k] \in Send /\ task'[k].at = "stamped" /\ task'[k].cmd = New
  <2>1. task'[k] = [at |-> "stamped", cmd |-> New, seq |-> 0, shots |-> 0]
    BY <1>5 DEF Idle
  <2>2. New \in Cmd \cup {None} /\ 0 \in 0 .. Burst - 1 /\ "stamped" \in Steps
    BY <1>2, Sizes DEF Steps
  <2> QED BY <2>1, <2>2 DEF Send
<1> QED BY <1>2, <1>3, <1>4, <1>5, <1>6

LEMMA InjectStep ==
    ASSUME Base, NEW n \in Unit, NEW R \in SUBSET Unit, Inject(n, R)
    PROVE  /\ CmdTyped' /\ Known \subseteq Known'
           /\ \A c \in Known : cmd'[c] = cmd[c]
           /\ \A c \in Known' \ Known : ~cmd'[c].signed /\ cmd'[c].from = Guest /\ cmd'[c].nonce = 0
           /\ \E c \in Known' : ~cmd'[c].signed /\ Arrive(c, {n}, R)
           /\ "inject" \in Troubles /\ disturb' = disturb + 1 /\ disturb < MaxDisturb
           /\ up[n] /\ \A m \in R : up[m]
<1>1. /\ disturb' = disturb + 1 /\ disturb < MaxDisturb /\ "inject" \in Troubles
      /\ up[n] /\ \A m \in R : up[m]
  BY DEF Inject, Disturb, Reaches
<1>2. ASSUME MayStart, NEW r, cmd' = Append(cmd, r), Arrive(New, {n}, R),
             r = [from |-> Guest, target |-> Everyone, at |-> tsf + Lead, seq |-> New,
                  nonce |-> 0, signed |-> FALSE]
      PROVE  /\ CmdTyped' /\ Known \subseteq Known'
             /\ \A c \in Known : cmd'[c] = cmd[c]
             /\ \A c \in Known' \ Known : ~cmd'[c].signed /\ cmd'[c].from = Guest /\ cmd'[c].nonce = 0
             /\ \E c \in Known' : ~cmd'[c].signed /\ Arrive(c, {n}, R)
  <2>1. tsf + Lead \in Nat /\ New \in Nat
    BY KnownIs, Sizes DEF Base, Typed, WorldTyped, New
  <2>2. r \in Commands /\ r.from = Guest /\ ~r.signed /\ r.nonce = 0 /\ New \in Cmd /\ CmdTyped
    BY <1>2, <2>1 DEF Commands, MayStart, Base, Typed
  <2>3. /\ CmdTyped' /\ Known' = Known \cup {New} /\ New \notin Known
        /\ \A c \in Known : cmd'[c] = cmd[c]
        /\ cmd'[New] = r
    BY <1>2, <2>2, NewCommand, Sizes
  <2> QED BY <1>2, <2>2, <2>3
<1>3. ASSUME NEW c \in DOMAIN cmd, ~cmd[c].signed, Arrive(c, {n}, R), UNCHANGED cmd
      PROVE  /\ CmdTyped' /\ Known \subseteq Known'
             /\ \A d \in Known : cmd'[d] = cmd[d]
             /\ Known' \ Known = {}
             /\ c \in Known' /\ ~cmd'[c].signed /\ Arrive(c, {n}, R)
  BY <1>3 DEF Base, Typed, CmdTyped, Known
<1> QED BY <1>1, <1>2, <1>3 DEF Inject

\* A nonce is in its tick, and above all that ticks up to this one gave out.
LEMMA SealStep ==
    ASSUME Base, NEW k \in Console, Seal(k)
    PROVE  LET s == task[k].cmd IN
           /\ CmdTyped' /\ Known' = Known /\ s \in Known
           /\ \A c \in Known \ {s} : cmd'[c] = cmd[c]
           /\ cmd'[s].from = cmd[s].from /\ cmd'[s].target = cmd[s].target
           /\ cmd'[s].at = cmd[s].at /\ cmd'[s].signed = cmd[s].signed
           /\ cmd[s].from = Home[k] /\ cmd[s].signed /\ cmd[s].nonce = 0
           /\ cmd'[s].nonce = tsf * MaxCmd + Cardinality(InTick(tsf))
           /\ cmd'[s].nonce \div MaxCmd = tsf /\ cmd'[s].nonce # 0
           /\ IsFiniteSet(InTick(tsf)) /\ s \notin InTick(tsf)
           /\ task[k].at = "loaded" /\ task'[k].at = "bursting" /\ task'[k].cmd = s
           /\ task'[k] \in Send
           /\ \A l \in Console \ {k} : task'[l] = task[l]
<1> DEFINE s == task[k].cmd
           v == tsf * MaxCmd + Cardinality(InTick(tsf))
           r == [cmd[s] EXCEPT !.seq = task[k].seq, !.nonce = v]
<1>1. /\ task \in [Console -> Send] /\ task[k] \in Send /\ task[k].at = "loaded" /\ s \in Known
      /\ cmd[s].from = Home[k] /\ cmd[s].signed /\ cmd[s].nonce = 0
  BY DEF Seal, At, Base, Typed, TaskTyped, Senders
<1>2. cmd \in Seq(Commands) /\ CmdTyped /\ cmd[s] \in Commands /\ s \in 1 .. Len(cmd)
  BY <1>1, KnownIs DEF Base, Typed, CmdTyped
<1>3. tsf \in Nat /\ tsf >= 1
  BY DEF Base, Typed, WorldTyped
<1>4. s \notin InTick(tsf)
  <2>1. 0 \div MaxCmd = 0
    BY Sizes
  <2> QED BY <1>1, <1>3, <2>1 DEF InTick
<1>5. IsFiniteSet(InTick(tsf)) /\ Cardinality(InTick(tsf)) \in Nat
      /\ Cardinality(InTick(tsf)) < MaxCmd
  <2>1. InTick(tsf) \subseteq Known \ {s}
    BY <1>4 DEF InTick
  <2>2. /\ IsFiniteSet(Known \ {s}) /\ Cardinality(Known \ {s}) = Len(cmd) - 1
    <3>1. IsFiniteSet(Known) /\ Cardinality(Known) = Len(cmd)
      BY <1>2, KnownIs
    <3>2. \A x \in Known : /\ IsFiniteSet(Known \ {x})
                          /\ Cardinality(Known \ {x}) = Cardinality(Known) - 1
      BY <3>1, FS_RemoveElement
    <3> QED BY <1>1, <3>1, <3>2
  <2>3. /\ IsFiniteSet(InTick(tsf)) /\ Cardinality(InTick(tsf)) <= Len(cmd) - 1
    BY <2>1, <2>2, FS_Subset
  <2>4. Cardinality(InTick(tsf)) \in Nat /\ Len(cmd) \in Nat /\ Len(cmd) <= MaxCmd
    BY <1>2, <2>3, FS_CardinalityType DEF CmdTyped
  <2> QED BY <2>3, <2>4, Sizes
<1>6. v \in Nat /\ tsf * MaxCmd \in Nat /\ v # 0 /\ v \div MaxCmd = tsf
  <2>1. tsf * MaxCmd \in Nat /\ tsf * MaxCmd >= 1
    BY <1>3, Sizes, SMTT(30)
  <2>2. v \in Nat /\ tsf * MaxCmd <= v /\ v < tsf * MaxCmd + MaxCmd /\ v # 0
    BY <1>5, <2>1, Sizes
  <2> HIDE DEF v
  <2> QED BY <1>3, <2>1, <2>2, Ticks
<1>7. cmd' = [cmd EXCEPT ![s] = r]
  BY DEF Seal, Nonce, InTick, Known
<1> HIDE DEF v
<1>8. /\ r \in Commands /\ r.from = cmd[s].from /\ r.target = cmd[s].target /\ r.at = cmd[s].at
      /\ r.signed = cmd[s].signed /\ r.nonce = v
  BY <1>1, <1>2, <1>6 DEF Commands, Send
<1> HIDE DEF r
<1>9. /\ cmd' \in Seq(Commands) /\ Len(cmd') = Len(cmd) /\ DOMAIN cmd' = DOMAIN cmd
      /\ cmd'[s] = r /\ \A c \in Known \ {s} : cmd'[c] = cmd[c]
  BY <1>2, <1>7, <1>8, ExceptSeq DEF Known
<1>10. CmdTyped' /\ Known' = Known
  <2>1. \A c \in Known : cmd'[c].signed <=> cmd'[c].from \in Unit
    BY <1>2, <1>8, <1>9 DEF CmdTyped
  <2> QED BY <1>2, <1>9, <2>1 DEF CmdTyped, Known
<1>11. task'[k] = [task[k] EXCEPT !.at = "bursting"] /\ \A l \in Console \ {k} : task'[l] = task[l]
  BY <1>1 DEF Seal
<1>12. task'[k] \in Send /\ task'[k].at = "bursting" /\ task'[k].cmd = s
  BY <1>1, <1>11 DEF Send, Steps
<1> QED BY <1>1, <1>4, <1>5, <1>6, <1>8, <1>9, <1>10, <1>11, <1>12 DEF v

\* What was known stays, and only its nonce and its sequence number change, once.
LEMMA KnownStep ==
    ASSUME Base, [Next]_vars
    PROVE  /\ CmdTyped' /\ Known \subseteq Known'
           /\ \A c \in Known :
                /\ cmd'[c].from = cmd[c].from /\ cmd'[c].at = cmd[c].at
                /\ cmd'[c].signed = cmd[c].signed
                /\ cmd[c].nonce # 0 \/ ~cmd[c].signed => cmd'[c] = cmd[c]
<1>1. CASE Stamps
  BY <1>1, StampStep DEF Stamps
<1>2. CASE Seals
  <2>1. PICK k \in Console : Seal(k)
    BY <1>2 DEF Seals
  <2> DEFINE s == task[k].cmd
  <2>2. /\ CmdTyped' /\ Known' = Known /\ s \in Known
        /\ \A c \in Known \ {s} : cmd'[c] = cmd[c]
        /\ cmd'[s].from = cmd[s].from /\ cmd'[s].at = cmd[s].at
        /\ cmd'[s].signed = cmd[s].signed /\ cmd[s].signed /\ cmd[s].nonce = 0
    BY <2>1, SealStep
  <2> HIDE DEF s
  <2> QED BY <2>2
<1>3. CASE Injects
  BY <1>3, InjectStep DEF Injects
<1>4. CASE UNCHANGED cmd
  BY <1>4 DEF Base, Typed, CmdTyped, Known
<1> QED BY <1>1, <1>2, <1>3, <1>4, Frames

---------------------------------------------------------------------------
(* What a step does to the queues. *)

\* A set of numbers has a least one.
LEMMA Least ==
    ASSUME NEW T \in SUBSET Nat, T # {} PROVE \E x \in T : \A y \in T : x <= y
<1> DEFINE R == OpToRel(<, Nat)
<1>1. IsWellFoundedOn(R, Nat)
  BY NatLessThanWellFounded
<1>2. R = {ss \in Nat \X Nat : ss[1] < ss[2]}
  BY DEF OpToRel
<1> HIDE DEF R
<1>3. PICK x \in T : \A y \in T : <<y, x>> \notin R
  BY <1>1, WFMin
<1>4. ASSUME NEW y \in T PROVE x <= y
  <2>1. <<y, x>> \in Nat \X Nat /\ <<y, x>>[1] = y /\ <<y, x>>[2] = x
    OBVIOUS
  <2>2. ~(y < x)
    BY <1>2, <1>3, <2>1
  <2> QED BY <2>2
<1> QED BY <1>4

\* whm_sync_pop_due finds the first line that is due.
LEMMA FirstDueIs ==
    ASSUME Base, NEW n \in Unit, FirstDue(n) # 0
    PROVE  /\ FirstDue(n) \in DOMAIN fq[n] /\ cmd[fq[n][FirstDue(n)]].at <= tsf
           /\ \A j \in DOMAIN fq[n] : j < FirstDue(n) => ~(cmd[fq[n][j]].at <= tsf)
<1> DEFINE I == {i \in 1 .. Len(fq[n]) : cmd[fq[n][i]].at <= tsf}
<1>1. FirstDue(n) = IF I # {} THEN Min(I) ELSE 0
  BY SMTT(30) DEF FirstDue, SelectInSeq
<1>2. fq[n] \in Seq(Known) /\ DOMAIN fq[n] = 1 .. Len(fq[n]) /\ Len(fq[n]) \in Nat
  BY DEF Base, Typed, QueueTyped
<1>3. I \in SUBSET Nat /\ I # {}
  BY <1>1, <1>2
<1> HIDE DEF I
<1>4. Min(I) \in I /\ \A y \in I : Min(I) <= y
  <2>1. \E x \in I : \A y \in I : x <= y
    BY <1>3, Least
  <2> QED BY <2>1 DEF Min
<1>5. FirstDue(n) = Min(I)
  BY <1>1, <1>3
<1>6. ASSUME NEW j \in DOMAIN fq[n], j < FirstDue(n) PROVE j \notin I
  <2>1. j \in Nat /\ j < Min(I)
    BY <1>2, <1>5, <1>6
  <2>2. Min(I) \in Nat
    BY <1>3, <1>4
  <2> QED BY <1>4, <2>1, <2>2
<1> QED BY <1>2, <1>4, <1>5, <1>6 DEF I

LEMMA PopStep ==
    ASSUME Base, NEW n \in Unit, PopDue(n)
    PROVE  \E i \in DOMAIN fq[n] :
             /\ cmd[fq[n][i]].at <= tsf
             /\ \A j \in DOMAIN fq[n] : j < i => ~(cmd[fq[n][j]].at <= tsf)
             /\ running' = [running EXCEPT ![n] = fq[n][i]]
             /\ ran'[n] = Append(ran[n], fq[n][i]) /\ fq'[n] = RemoveAt(fq[n], i)
             /\ \A m \in Unit \ {n} : ran'[m] = ran[m] /\ fq'[m] = fq[m]
             /\ ran' = [ran EXCEPT ![n] = Append(ran[n], fq[n][i])]
             /\ fq' = [fq EXCEPT ![n] = RemoveAt(fq[n], i)]
             /\ queued' = queued /\ dropped' = dropped
<1>1. /\ FirstDue(n) # 0 /\ queued' = queued /\ dropped' = dropped
      /\ running' = [running EXCEPT ![n] = fq[n][FirstDue(n)]]
      /\ ran' = [ran EXCEPT ![n] = Append(ran[n], fq[n][FirstDue(n)])]
      /\ fq' = [fq EXCEPT ![n] = RemoveAt(fq[n], FirstDue(n))]
  BY DEF PopDue
<1>2. n \in DOMAIN ran /\ n \in DOMAIN fq
  BY DEF Base, Typed, QueueTyped
<1>3. PICK i \in DOMAIN fq[n] :
        /\ i = FirstDue(n) /\ cmd[fq[n][i]].at <= tsf
        /\ \A j \in DOMAIN fq[n] : j < i => ~(cmd[fq[n][j]].at <= tsf)
  BY <1>1, FirstDueIs
<1>4. /\ running' = [running EXCEPT ![n] = fq[n][i]]
      /\ ran' = [ran EXCEPT ![n] = Append(ran[n], fq[n][i])]
      /\ fq' = [fq EXCEPT ![n] = RemoveAt(fq[n], i)]
  BY <1>1, <1>3
<1>5. /\ ran'[n] = Append(ran[n], fq[n][i]) /\ fq'[n] = RemoveAt(fq[n], i)
      /\ \A m \in Unit \ {n} : ran'[m] = ran[m] /\ fq'[m] = fq[m]
  BY <1>2, <1>4
<1> QED BY <1>1, <1>3, <1>4, <1>5

\* A line is queued, or printed as queued and dropped.
LEMMA DeferStep ==
    ASSUME QueueTyped, NEW n \in Unit, NEW c \in Known, Defer(n, c)
    PROVE  /\ fq' \in [Unit -> Seq(Known)] /\ queued' \in [Unit -> SUBSET Known]
           /\ dropped' \in [Unit -> SUBSET Known]
           /\ queued'[n] = queued[n] \cup {c}
           /\ \/ /\ Len(fq[n]) < QueueMax /\ fq'[n] = Append(fq[n], c)
                 /\ dropped'[n] = dropped[n]
              \/ /\ Len(fq[n]) = QueueMax /\ fq'[n] = fq[n]
                 /\ dropped'[n] = dropped[n] \cup {c}
           /\ \A m \in Unit \ {n} :
                fq'[m] = fq[m] /\ queued'[m] = queued[m] /\ dropped'[m] = dropped[m]
           /\ \A m \in Unit : Len(fq'[m]) <= QueueMax /\ Range(fq'[m]) \subseteq queued'[m]
           /\ running' = running /\ ran' = ran
<1>1. /\ fq \in [Unit -> Seq(Known)] /\ queued \in [Unit -> SUBSET Known]
      /\ dropped \in [Unit -> SUBSET Known]
      /\ \A m \in Unit : Len(fq[m]) <= QueueMax /\ Range(fq[m]) \subseteq queued[m]
  BY DEF QueueTyped
<1>2. queued' = [queued EXCEPT ![n] = queued[n] \cup {c}] /\ running' = running /\ ran' = ran
  BY DEF Defer
<1>3. /\ queued' \in [Unit -> SUBSET Known] /\ queued'[n] = queued[n] \cup {c}
      /\ \A m \in Unit \ {n} : queued'[m] = queued[m]
  BY <1>1, <1>2
<1>4. CASE Len(fq[n]) < QueueMax
  <2>1. fq' = [fq EXCEPT ![n] = Append(fq[n], c)] /\ dropped' = dropped
    BY <1>4, <1>1, Sizes DEF Defer
  <2>2. /\ Append(fq[n], c) \in Seq(Known) /\ Len(Append(fq[n], c)) = Len(fq[n]) + 1
        /\ Range(Append(fq[n], c)) = Range(fq[n]) \cup {c}
    BY <1>1, Appended
  <2>3. /\ fq' \in [Unit -> Seq(Known)] /\ fq'[n] = Append(fq[n], c)
        /\ \A m \in Unit \ {n} : fq'[m] = fq[m]
    BY <1>1, <2>1, <2>2
  <2>4. Len(fq[n]) + 1 <= QueueMax
    BY <1>1, <1>4, Sizes
  <2>5. ASSUME NEW m \in Unit PROVE Len(fq'[m]) <= QueueMax /\ Range(fq'[m]) \subseteq queued'[m]
    <3>1. CASE m = n
      BY <1>1, <1>3, <2>2, <2>3, <2>4, <3>1
    <3>2. CASE m # n
      BY <1>1, <1>3, <2>3, <3>2
    <3> QED BY <3>1, <3>2
  <2> QED BY <1>1, <1>2, <1>3, <1>4, <2>1, <2>3, <2>5
<1>5. CASE Len(fq[n]) = QueueMax
  <2>1. fq' = fq /\ dropped' = [dropped EXCEPT ![n] = dropped[n] \cup {c}]
    BY <1>5, Sizes DEF Defer
  <2>2. /\ dropped' \in [Unit -> SUBSET Known] /\ dropped'[n] = dropped[n] \cup {c}
        /\ \A m \in Unit \ {n} : dropped'[m] = dropped[m]
    BY <1>1, <2>1
  <2>3. \A m \in Unit : queued[m] \subseteq queued'[m]
    BY <1>3
  <2> QED BY <1>1, <1>2, <1>3, <1>5, <2>1, <2>2, <2>3
<1> QED BY <1>4, <1>5 DEF Defer

LEMMA DeferOwnStep ==
    ASSUME Base, NEW k \in Console, DeferOwn(k)
    PROVE  LET c == task[k].cmd IN
           /\ c \in Known /\ cmd[c].from = Home[k] /\ Home[k] \in Unit
           /\ Defer(Home[k], c) \/ UNCHANGED <<fq, queued, dropped>>
           /\ task[k].at = "stamped" /\ task'[k].at = "deferred" /\ task'[k].cmd = c
           /\ task'[k] \in Send
           /\ \A l \in Console \ {k} : task'[l] = task[l]
<1>1. task \in [Console -> Send] /\ task[k].at = "stamped" /\ task[k].cmd \in Known
  BY DEF DeferOwn, At, Base, Typed, TaskTyped
<1>2. task'[k] = [task[k] EXCEPT !.at = "deferred"] /\ \A l \in Console \ {k} : task'[l] = task[l]
  BY <1>1 DEF DeferOwn
<1>3. task'[k] \in Send /\ task'[k].at = "deferred" /\ task'[k].cmd = task[k].cmd
  BY <1>1, <1>2 DEF Send, Steps
<1>4. cmd[task[k].cmd].from = Home[k] /\ Home[k] \in Unit
  BY <1>1, Sizes DEF Base, Senders
<1> QED BY <1>1, <1>2, <1>3, <1>4 DEF DeferOwn, queue

\* A datagram is filtered, and queued if it passes.
LEMMA ReceiveStep ==
    ASSUME Base, NEW n \in Unit, Receive(n)
    PROVE  \E c \in Known :
             /\ c \in Range(inbox[n]) /\ up[n]
             /\ inbox' \in [Unit -> Seq(Known)] /\ Range(inbox'[n]) \subseteq Range(inbox[n])
             /\ \A m \in Unit \ {n} : inbox'[m] = inbox[m]
             /\ NoteNonce(n, c)
             /\ \/ Takes(n, c) /\ NoteSeen(n, c) /\ Defer(n, c)
                \/ UNCHANGED <<seen, fq, queued, dropped>>
<1>1. /\ inbox \in [Unit -> Seq(Known)] /\ inbox[n] # <<>> /\ up[n]
      /\ inbox' = [inbox EXCEPT ![n] = Tail(inbox[n])]
  BY DEF Receive, Base, Typed, InboxTyped
<1>2. PICK c \in Known : c = Head(inbox[n])
  BY <1>1, Tailed
<1>3. c \in Range(inbox[n]) /\ Tail(inbox[n]) \in Seq(Known)
      /\ Range(Tail(inbox[n])) \subseteq Range(inbox[n])
  BY <1>1, <1>2, Tailed
<1>4. NoteNonce(n, c) /\ ((Takes(n, c) /\ NoteSeen(n, c) /\ Defer(n, c)) \/ UNCHANGED <<seen, queue>>)
  BY <1>2 DEF Receive
<1> QED BY <1>1, <1>3, <1>4 DEF queue

\* A datagram comes over loopback, L, or over the air, R.
LEMMA Copies ==
    ASSUME NEW n, NEW T
    PROVE  /\ Cardinality({n} \cap T) \in Nat
           /\ n \notin T => Cardinality({n} \cap T) = 0
<1>1. IsFiniteSet({n} \cap T)
  <2>1. IsFiniteSet({n})
    BY FS_Singleton
  <2> QED BY <2>1, FS_Subset
<1>2. n \notin T => {n} \cap T = {}
  OBVIOUS
<1> QED BY <1>1, <1>2, FS_CardinalityType, FS_EmptySet

LEMMA Extended ==
    ASSUME NEW K, NEW c \in K, NEW s \in Seq(K), NEW x \in Seq(K), \A i \in 1 .. Len(x) : x[i] = c
    PROVE  /\ s \o x \in Seq(K) /\ Range(s \o x) \subseteq Range(s) \cup {c}
           /\ Len(x) = 0 => s \o x = s
<1>1. /\ s \o x \in Seq(K) /\ Len(s \o x) = Len(s) + Len(x)
      /\ \A i \in 1 .. Len(s) + Len(x) : (s \o x)[i] = IF i <= Len(s) THEN s[i] ELSE x[i - Len(s)]
  BY ConcatProperties
<1>2. ASSUME NEW i \in 1 .. Len(s) + Len(x) PROVE (s \o x)[i] \in Range(s) \cup {c}
  <2>1. CASE i <= Len(s)
    BY <1>1, <2>1 DEF Range
  <2>2. CASE ~(i <= Len(s))
    BY <1>1, <2>2
  <2> QED BY <2>1, <2>2
<1> QED BY <1>1, <1>2 DEF Range

LEMMA ArriveStep ==
    ASSUME NEW c \in Known', \A n \in Unit : inbox[n] \in Seq(Known'), NEW L, NEW R,
           Arrive(c, L, R)
    PROVE  /\ inbox' \in [Unit -> Seq(Known')]
           /\ \A n \in Unit : Range(inbox'[n]) \subseteq Range(inbox[n]) \cup {c}
           /\ \A n \in Unit \ (L \cup R) : inbox'[n] = inbox[n]
<1>1. ASSUME NEW n \in Unit
      PROVE  /\ inbox'[n] \in Seq(Known') /\ Range(inbox'[n]) \subseteq Range(inbox[n]) \cup {c}
             /\ n \notin L \cup R => inbox'[n] = inbox[n]
  <2> DEFINE s == inbox[n]
             a == [i \in 1 .. Cardinality({n} \cap L) |-> c]
             b == [i \in 1 .. Cardinality({n} \cap R) |-> c]
             t == s \o a
  <2>1. inbox'[n] = t \o b
    BY DEF Arrive
  <2>2. s \in Seq(Known')
    OBVIOUS
  <2>3. a \in Seq(Known') /\ (\A i \in 1 .. Len(a) : a[i] = c) /\ (n \notin L => Len(a) = 0)
    <3> DEFINE m == Cardinality({n} \cap L)
    <3>1. m \in Nat /\ (n \notin L => m = 0)
      BY Copies
    <3> HIDE DEF m
    <3>2. [i \in 1 .. m |-> c] \in Seq(Known') /\ Len([i \in 1 .. m |-> c]) = m
      BY <3>1
    <3> QED BY <3>1, <3>2 DEF m
  <2>4. b \in Seq(Known') /\ (\A i \in 1 .. Len(b) : b[i] = c) /\ (n \notin R => Len(b) = 0)
    <3> DEFINE m == Cardinality({n} \cap R)
    <3>1. m \in Nat /\ (n \notin R => m = 0)
      BY Copies
    <3> HIDE DEF m
    <3>2. [i \in 1 .. m |-> c] \in Seq(Known') /\ Len([i \in 1 .. m |-> c]) = m
      BY <3>1
    <3> QED BY <3>1, <3>2 DEF m
  <2> HIDE DEF s, a, b
  <2>5. t \in Seq(Known') /\ Range(t) \subseteq Range(s) \cup {c} /\ (n \notin L => t = s)
    BY <2>2, <2>3, Extended
  <2> HIDE DEF t
  <2>6. t \o b \in Seq(Known') /\ Range(t \o b) \subseteq Range(t) \cup {c} /\ (n \notin R => t \o b = t)
    BY <2>4, <2>5, Extended
  <2> QED BY <2>1, <2>5, <2>6 DEF s
<1>2. inbox' \in [Unit -> Seq(Known')]
  BY <1>1 DEF Arrive
<1> QED BY <1>1, <1>2

LEMMA ShotStep ==
    ASSUME Base, NEW k \in Console, NEW R \in SUBSET Unit, Shot(k, R)
    PROVE  LET c == task[k].cmd IN
           /\ c \in Fired /\ Arrive(c, {}, R) /\ up[Home[k]] /\ \A n \in R : up[n]
           /\ task[k].at = "bursting" /\ task'[k] \in Send
           /\ task'[k].at = "idle" \/ (task'[k].at = "bursting" /\ task'[k].cmd = c)
           /\ task' = [task EXCEPT ![k] = task'[k]]
<1>0. task' = IF task[k].shots + 1 = Burst THEN [task EXCEPT ![k] = Idle]
              ELSE [task EXCEPT ![k].shots = task[k].shots + 1]
  BY DEF Shot
<1>1. /\ task \in [Console -> Send] /\ task[k].at = "bursting" /\ task[k].cmd \in Known
      /\ up[Home[k]] /\ Arrive(task[k].cmd, {}, R) /\ \A n \in R : up[n]
  <2>1. Reaches(Home[k], R) => \A n \in R : up[n]
    BY DEF Reaches
  <2> QED BY <2>1 DEF Shot, At, Base, Typed, TaskTyped
<1>2. task' = [task EXCEPT ![k] = task'[k]]
  <2>1. CASE task[k].shots + 1 = Burst
    BY <1>0, <1>1, <2>1
  <2>2. CASE task[k].shots + 1 # Burst
    BY <1>0, <1>1, <2>2
  <2> QED BY <2>1, <2>2
<1>3. CASE task[k].shots + 1 = Burst
  <2>1. task'[k] = Idle
    BY <1>0, <1>1, <1>3
  <2>2. Idle \in Send /\ Idle.at = "idle"
    BY Sizes DEF Idle, Send, Steps
  <2> QED BY <1>1, <1>2, <2>1, <2>2 DEF Fired
<1>4. CASE task[k].shots + 1 # Burst
  <2>1. task[k].shots + 1 \in 0 .. Burst - 1
    BY <1>1, <1>4, Sizes DEF Send
  <2>2. task'[k] = [task[k] EXCEPT !.shots = task[k].shots + 1]
    BY <1>0, <1>1, <1>4
  <2>3. task'[k] \in Send /\ task'[k].at = "bursting" /\ task'[k].cmd = task[k].cmd
    BY <1>1, <2>1, <2>2 DEF Send
  <2> QED BY <1>1, <1>2, <2>3 DEF Fired
<1> QED BY <1>3, <1>4

---------------------------------------------------------------------------
(* Who sends what. *)

LEMMA TaskMove ==
    ASSUME Base, UNCHANGED cmd, NEW k \in Console, NEW t \in Send,
           task' = [task EXCEPT ![k] = t],
           \/ t.at = "idle"
           \/ /\ t.cmd = task[k].cmd /\ task[k].at # "idle"
              /\ t.at = "bursting" <=> task[k].at = "bursting"
    PROVE  TaskTyped' /\ Senders'
<1>1. /\ task' \in [Console -> Send] /\ task'[k] = t
      /\ \A l \in Console \ {k} : task'[l] = task[l]
  BY DEF Base, Typed, TaskTyped
<1>2. Known' = Known /\ \A c : cmd'[c] = cmd[c]
  BY DEF Known
<1>3. TaskTyped'
  BY <1>1, <1>2 DEF Base, Typed, TaskTyped
<1>4. ASSUME NEW l \in Console, task'[l].at # "idle"
      PROVE  /\ task'[l].cmd = task[l].cmd /\ task[l].at # "idle"
             /\ task'[l].at = "bursting" <=> task[l].at = "bursting"
  BY <1>1, <1>4
<1>5. Senders'
  BY <1>2, <1>4 DEF Base, Senders
<1> QED BY <1>3, <1>5

LEMMA SendersStep ==
    ASSUME Base, [Next]_vars PROVE TaskTyped' /\ Senders'
<1>0. /\ task \in [Console -> Send] /\ Known \subseteq Known' /\ CmdTyped
      /\ \A l \in Console : task[l].at # "idle" => task[l].cmd \in Known
  BY KnownStep DEF Base, Typed, TaskTyped
<1>1. ASSUME NEW k \in Console, NEW t \in Target, Stamp(k, t) PROVE TaskTyped' /\ Senders'
  <2>1. /\ Known' = Known \cup {New} /\ New \notin Known
        /\ \A c \in Known : cmd'[c] = cmd[c]
        /\ cmd'[New].from = Home[k] /\ cmd'[New].signed /\ cmd'[New].nonce = 0
        /\ task'[k].at = "stamped" /\ task'[k].cmd = New /\ task'[k] \in Send
        /\ \A l \in Console \ {k} : task'[l] = task[l]
    BY <1>1, StampStep
  <2>2. task' \in [Console -> Send]
    <3>1. task' = [task EXCEPT ![k] = task'[k]]
      BY <1>0, <1>1 DEF Stamp
    <3> QED BY <1>0, <2>1, <3>1
  <2>3. TaskTyped'
    BY <1>0, <2>1, <2>2 DEF TaskTyped
  <2>4. Senders'
    <3>1. ASSUME NEW l \in Console, task'[l].at # "idle"
          PROVE  /\ cmd'[task'[l].cmd].from = Home[l] /\ cmd'[task'[l].cmd].signed
                 /\ cmd'[task'[l].cmd].nonce = 0 <=> task'[l].at # "bursting"
      BY <1>0, <2>1, <3>1 DEF Base, Senders
    <3>2. ASSUME NEW l \in Console, NEW m \in Console, l # m, task'[l].at # "idle",
                 task'[m].at # "idle"
          PROVE  task'[l].cmd # task'[m].cmd
      BY <1>0, <2>1, <3>2 DEF Base, Senders
    <3> QED BY <3>1, <3>2 DEF Senders
  <2> QED BY <2>3, <2>4
<1>2. ASSUME NEW k \in Console, DeferOwn(k) \/ LoadSeq(k) PROVE TaskTyped' /\ Senders'
  <2> DEFINE t == task'[k]
  <2>1. CASE DeferOwn(k)
    <3>1. /\ task[k].at = "stamped" /\ t.at = "deferred" /\ t.cmd = task[k].cmd /\ t \in Send
          /\ UNCHANGED cmd
      BY <2>1, DeferOwnStep DEF DeferOwn
    <3>2. task' = [task EXCEPT ![k] = t]
      BY <1>0, <2>1 DEF DeferOwn
    <3> QED BY <3>1, <3>2, TaskMove
  <2>2. CASE LoadSeq(k)
    <3>0. task' = [task EXCEPT ![k] = [task[k] EXCEPT !.at = "loaded", !.seq = seqno[Home[k]] + 1]]
      BY <1>0, <2>2 DEF LoadSeq
    <3>1. /\ task[k].at = "deferred" /\ UNCHANGED cmd /\ task[k] \in Send
          /\ t = [task[k] EXCEPT !.at = "loaded", !.seq = seqno[Home[k]] + 1]
          /\ task' = [task EXCEPT ![k] = t]
      BY <1>0, <2>2, <3>0 DEF LoadSeq, At
    <3>2. seqno[Home[k]] + 1 \in Nat
      <4>1. seqno \in [Unit -> Nat] /\ Home[k] \in Unit
        BY Sizes DEF Base, Typed, WorldTyped
      <4> QED BY <4>1
    <3>3. t \in Send /\ t.at = "loaded" /\ t.cmd = task[k].cmd
      BY <3>1, <3>2 DEF Send, Steps
    <3> QED BY <3>1, <3>3, TaskMove
  <2> QED BY <1>2, <2>1, <2>2
<1>3. ASSUME NEW k \in Console, Seal(k) PROVE TaskTyped' /\ Senders'
  <2>1. /\ Known' = Known /\ \A c \in Known \ {task[k].cmd} : cmd'[c] = cmd[c]
        /\ cmd'[task[k].cmd].from = cmd[task[k].cmd].from
        /\ cmd'[task[k].cmd].signed = cmd[task[k].cmd].signed
        /\ cmd'[task[k].cmd].nonce # 0
        /\ task[k].at = "loaded" /\ task'[k].at = "bursting" /\ task'[k].cmd = task[k].cmd
        /\ task'[k] \in Send
        /\ \A l \in Console \ {k} : task'[l] = task[l]
    BY <1>3, SealStep
  <2>2. task' \in [Console -> Send]
    <3>1. task' = [task EXCEPT ![k] = task'[k]]
      BY <1>0, <1>3 DEF Seal
    <3> QED BY <1>0, <2>1, <3>1
  <2>3. TaskTyped'
    BY <1>0, <2>1, <2>2 DEF TaskTyped
  <2>4. Senders'
    <3>1. ASSUME NEW l \in Console, task'[l].at # "idle"
          PROVE  /\ cmd'[task'[l].cmd].from = Home[l] /\ cmd'[task'[l].cmd].signed
                 /\ cmd'[task'[l].cmd].nonce = 0 <=> task'[l].at # "bursting"
      BY <1>0, <2>1, <3>1 DEF Base, Senders
    <3>2. ASSUME NEW l \in Console, NEW m \in Console, l # m, task'[l].at # "idle",
                 task'[m].at # "idle"
          PROVE  task'[l].cmd # task'[m].cmd
      BY <1>0, <2>1, <3>2 DEF Base, Senders
    <3> QED BY <3>1, <3>2 DEF Senders
  <2> QED BY <2>3, <2>4
<1>4. ASSUME NEW k \in Console, NEW R \in SUBSET Unit, Shot(k, R) PROVE TaskTyped' /\ Senders'
  <2>1. UNCHANGED cmd
    BY <1>4 DEF Shot
  <2> QED BY <1>4, <2>1, ShotStep, TaskMove
<1>5. ASSUME NEW n \in Unit, PowerLoss(n) PROVE TaskTyped' /\ Senders'
  <2>1. UNCHANGED cmd /\ task' = [k \in Console |-> IF Home[k] = n THEN Idle ELSE task[k]]
    BY <1>5 DEF PowerLoss
  <2>2. Idle \in Send /\ Idle.at = "idle"
    BY Sizes DEF Idle, Send, Steps
  <2>3. Known' = Known /\ \A c : cmd'[c] = cmd[c]
    BY <2>1 DEF Known
  <2>4. task' \in [Console -> Send] /\ \A k \in Console : task'[k].at # "idle" => task'[k] = task[k]
    BY <1>0, <2>1, <2>2
  <2>5. TaskTyped'
    BY <1>0, <2>3, <2>4 DEF TaskTyped
  <2>6. Senders'
    BY <2>3, <2>4 DEF Base, Senders
  <2> QED BY <2>5, <2>6
<1>6. CASE UNCHANGED task
  <2>1. \A c \in Known : /\ cmd'[c].from = cmd[c].from /\ cmd'[c].signed = cmd[c].signed
                         /\ cmd[c].nonce # 0 => cmd'[c].nonce = cmd[c].nonce
    BY KnownStep
  <2>2. CASE UNCHANGED cmd
    BY <1>0, <1>6, <2>2 DEF Base, Typed, TaskTyped, Senders
  <2>3. CASE Injects
    <3>1. \A c \in Known : cmd'[c] = cmd[c]
      BY <2>3, InjectStep DEF Injects
    <3> QED BY <1>0, <1>6, <3>1 DEF Base, Typed, TaskTyped, Senders
  <2>4. CASE Stamps \/ Seals
    BY <1>1, <1>3, <2>4 DEF Stamps, Seals
  <2> QED BY <2>2, <2>3, <2>4, Frames
<1> QED BY <1>1, <1>2, <1>3, <1>4, <1>5, <1>6, Frames DEF Stamps, Defers, Loads, Seals, Shoots, Fails

---------------------------------------------------------------------------
(* What may reach a unit, and what it takes. *)

LEMMA SeqMono ==
    ASSUME NEW A, NEW B, A \subseteq B, NEW s \in Seq(A) PROVE s \in Seq(B)
<1>1. s \in [1 .. Len(s) -> A] /\ Len(s) \in Nat
  OBVIOUS
<1>2. s \in [1 .. Len(s) -> B]
  BY <1>1
<1> QED BY <1>1, <1>2

\* A unit loses power.
LEMMA FailStep ==
    ASSUME Base, NEW n \in Unit, PowerLoss(n)
    PROVE  /\ up'[n] = FALSE /\ inbox'[n] = <<>> /\ seen'[n] = <<>> /\ fq'[n] = <<>>
           /\ queued'[n] = {} /\ dropped'[n] = {} /\ running'[n] = None
           /\ \A s \in Unit : rt'[n][s] = NoSlot
           /\ \A m \in Unit \ {n} :
                /\ up'[m] = up[m] /\ inbox'[m] = inbox[m] /\ seen'[m] = seen[m]
                /\ fq'[m] = fq[m] /\ queued'[m] = queued[m] /\ rt'[m] = rt[m]
                /\ running'[m] = running[m] /\ dropped'[m] = dropped[m]
           /\ up' \in [Unit -> BOOLEAN] /\ inbox' \in [Unit -> Seq(Known)]
           /\ seen' \in [Unit -> Seq((Unit \cup {Guest}) \X Nat)]
           /\ fq' \in [Unit -> Seq(Known)] /\ queued' \in [Unit -> SUBSET Known]
           /\ dropped' \in [Unit -> SUBSET Known]
           /\ rt' \in [Unit -> [Unit -> Nat]] /\ running' \in [Unit -> Cmd \cup {None}]
           /\ UNCHANGED <<tsf, cmd, ran>> /\ disturb' = disturb + 1 /\ disturb < MaxDisturb
           /\ up[n] /\ n \in Fragile
<1>1. /\ up \in [Unit -> BOOLEAN] /\ inbox \in [Unit -> Seq(Known)]
      /\ seen \in [Unit -> Seq((Unit \cup {Guest}) \X Nat)]
      /\ fq \in [Unit -> Seq(Known)] /\ queued \in [Unit -> SUBSET Known]
      /\ dropped \in [Unit -> SUBSET Known]
      /\ rt \in [Unit -> [Unit -> Nat]] /\ running \in [Unit -> Cmd \cup {None}]
  BY DEF Base, Typed, WorldTyped, InboxTyped, SeenTyped, QueueTyped, NoncesTyped
<1>2. /\ up' = [up EXCEPT ![n] = FALSE] /\ inbox' = [inbox EXCEPT ![n] = <<>>]
      /\ seen' = [seen EXCEPT ![n] = <<>>] /\ fq' = [fq EXCEPT ![n] = <<>>]
      /\ dropped' = [dropped EXCEPT ![n] = {}]
      /\ queued' = [queued EXCEPT ![n] = {}] /\ running' = [running EXCEPT ![n] = None]
      /\ rt' = [rt EXCEPT ![n] = [s \in Unit |-> NoSlot]]
      /\ UNCHANGED <<tsf, cmd, ran>> /\ disturb' = disturb + 1 /\ disturb < MaxDisturb
      /\ up[n] /\ n \in Fragile
  BY DEF PowerLoss, Disturb
<1>3. /\ up' \in [Unit -> BOOLEAN] /\ inbox' \in [Unit -> Seq(Known)]
      /\ up'[n] = FALSE /\ inbox'[n] = <<>>
      /\ \A m \in Unit \ {n} : up'[m] = up[m] /\ inbox'[m] = inbox[m]
  BY <1>1, <1>2
<1>4. /\ seen' \in [Unit -> Seq((Unit \cup {Guest}) \X Nat)] /\ fq' \in [Unit -> Seq(Known)]
      /\ seen'[n] = <<>> /\ fq'[n] = <<>>
      /\ \A m \in Unit \ {n} : seen'[m] = seen[m] /\ fq'[m] = fq[m]
  <2>1. /\ seen' \in [Unit -> Seq((Unit \cup {Guest}) \X Nat)] /\ seen'[n] = <<>>
        /\ \A m \in Unit \ {n} : seen'[m] = seen[m]
    <3> DEFINE K == (Unit \cup {Guest}) \X Nat
    <3>1. seen \in [Unit -> Seq(K)] /\ <<>> \in Seq(K)
      BY <1>1
    <3> HIDE DEF K
    <3>2. seen' \in [Unit -> Seq(K)] /\ seen'[n] = <<>> /\ \A m \in Unit \ {n} : seen'[m] = seen[m]
      BY <1>2, <3>1
    <3> QED BY <3>2 DEF K
  <2>2. /\ fq' \in [Unit -> Seq(Known)] /\ fq'[n] = <<>>
        /\ \A m \in Unit \ {n} : fq'[m] = fq[m]
    BY <1>1, <1>2
  <2> QED BY <2>1, <2>2
<1>5. /\ queued' \in [Unit -> SUBSET Known] /\ running' \in [Unit -> Cmd \cup {None}]
      /\ dropped' \in [Unit -> SUBSET Known]
      /\ queued'[n] = {} /\ dropped'[n] = {} /\ running'[n] = None
      /\ \A m \in Unit \ {n} :
           queued'[m] = queued[m] /\ dropped'[m] = dropped[m] /\ running'[m] = running[m]
  BY <1>1, <1>2
<1>6. [s \in Unit |-> NoSlot] \in [Unit -> Nat]
  BY DEF NoSlot
<1>7. /\ rt' \in [Unit -> [Unit -> Nat]] /\ rt'[n] = [s \in Unit |-> NoSlot]
      /\ \A m \in Unit \ {n} : rt'[m] = rt[m]
  BY <1>1, <1>2, <1>6
<1> QED BY <1>2, <1>3, <1>4, <1>5, <1>7

\* Receive queues lose what is read and gain shots and injections.
LEMMA InboxStep ==
    ASSUME Base, [Next]_vars
    PROVE  /\ InboxTyped'
           /\ \A n \in Unit : \A c \in Range(inbox'[n]) :
                \/ c \in Range(inbox[n])
                \/ up[n] /\ c \in Fired /\ Shoots
                \/ up[n] /\ c \in Known' /\ ~cmd'[c].signed /\ Injects
<1>0. /\ inbox \in [Unit -> Seq(Known)] /\ \A n \in Unit : ~up[n] => inbox[n] = <<>>
      /\ up \in [Unit -> BOOLEAN] /\ Known \subseteq Known'
  BY KnownStep DEF Base, Typed, InboxTyped, WorldTyped
<1>1. CASE UNCHANGED inbox
  <2>1. \A n \in Unit : inbox[n] \in Seq(Known')
    BY <1>0, SeqMono
  <2>2. inbox' \in [Unit -> Seq(Known')]
    BY <1>0, <1>1, <2>1
  <2>3. ASSUME NEW n \in Unit, ~up'[n] PROVE inbox'[n] = <<>>
    <3>1. CASE Fails
      BY <1>1, <2>3, <3>1, <1>0, FailStep DEF Fails
    <3>2. CASE Boots
      BY <1>0, <1>1, <2>3, <3>2 DEF Boots, Boot
    <3>3. CASE UNCHANGED up
      BY <1>0, <1>1, <2>3, <3>3
    <3> QED BY <3>1, <3>2, <3>3, Frames
  <2> QED BY <1>1, <2>2, <2>3 DEF InboxTyped
<1>2. CASE Shoots
  <2>1. PICK k \in Console, R \in SUBSET Unit : Shot(k, R)
    BY <1>2 DEF Shoots
  <2>2. PICK c \in Fired : Arrive(c, {}, R) /\ \A n \in R : up[n]
    BY <2>1, ShotStep
  <2>3. c \in Known /\ UNCHANGED <<cmd, up>>
    BY <2>1 DEF Fired, Shot
  <2>4. /\ inbox' \in [Unit -> Seq(Known)]
        /\ \A n \in Unit : Range(inbox'[n]) \subseteq Range(inbox[n]) \cup {c}
        /\ \A n \in Unit \ R : inbox'[n] = inbox[n]
    <3>1. {} \cup R = R /\ Known' = Known
      BY <2>3 DEF Known
    <3>2. c \in Known' /\ \A n \in Unit : inbox[n] \in Seq(Known')
      BY <1>0, <2>3, <3>1
    <3>3. Arrive(c, {}, R)
      BY <2>2
    <3>4. inbox' \in [Unit -> Seq(Known')]
      BY <3>2, <3>3, ArriveStep
    <3>5. \A n \in Unit : Range(inbox'[n]) \subseteq Range(inbox[n]) \cup {c}
      BY <3>2, <3>3, ArriveStep
    <3>6. \A n \in Unit \ ({} \cup R) : inbox'[n] = inbox[n]
      BY <3>2, <3>3, ArriveStep
    <3> QED BY <3>1, <3>4, <3>5, <3>6
  <2> QED BY <1>0, <1>2, <2>2, <2>3, <2>4 DEF InboxTyped, Known
<1>3. CASE Receives
  <2>1. PICK n \in Unit : Receive(n)
    BY <1>3 DEF Receives
  <2>2. /\ inbox' \in [Unit -> Seq(Known)] /\ Range(inbox'[n]) \subseteq Range(inbox[n]) /\ up[n]
        /\ \A m \in Unit \ {n} : inbox'[m] = inbox[m]
    BY <2>1, ReceiveStep
  <2>3. UNCHANGED <<cmd, up>>
    BY <2>1 DEF Receive
  <2> QED BY <1>0, <2>2, <2>3 DEF InboxTyped, Known
<1>4. CASE Injects
  <2>1. PICK n \in Unit, R \in SUBSET Unit : Inject(n, R)
    BY <1>4 DEF Injects
  <2>2. PICK c \in Known' : ~cmd'[c].signed /\ Arrive(c, {n}, R)
    BY <2>1, InjectStep
  <2>3. up[n] /\ (\A m \in R : up[m]) /\ UNCHANGED up
    BY <2>1, InjectStep DEF Inject
  <2>4. /\ inbox' \in [Unit -> Seq(Known')]
        /\ \A m \in Unit : Range(inbox'[m]) \subseteq Range(inbox[m]) \cup {c}
        /\ \A m \in Unit \ ({n} \cup R) : inbox'[m] = inbox[m]
    <3>1. \A m \in Unit : inbox[m] \in Seq(Known')
      BY <1>0, SeqMono
    <3>3. Arrive(c, {n}, R)
      BY <2>2
    <3>4. inbox' \in [Unit -> Seq(Known')]
      BY <3>1, <3>3, ArriveStep
    <3>5. \A m \in Unit : Range(inbox'[m]) \subseteq Range(inbox[m]) \cup {c}
      BY <3>1, <3>3, ArriveStep
    <3>6. \A m \in Unit \ ({n} \cup R) : inbox'[m] = inbox[m]
      BY <3>1, <3>3, ArriveStep
    <3> QED BY <3>4, <3>5, <3>6
  <2> QED BY <1>0, <1>4, <2>2, <2>3, <2>4 DEF InboxTyped
<1>5. CASE Fails
  <2>1. PICK n \in Unit : PowerLoss(n)
    BY <1>5 DEF Fails
  <2>2. Known' = Known
    BY <2>1 DEF PowerLoss, Known
  <2>3. Range(<<>>) = {}
    BY DEF Range
  <2>4. /\ inbox' \in [Unit -> Seq(Known)] /\ inbox'[n] = <<>>
        /\ \A m \in Unit \ {n} : up'[m] = up[m] /\ inbox'[m] = inbox[m]
    BY <1>0, <2>1, FailStep
  <2>5. \A m \in Unit : Range(inbox'[m]) \subseteq Range(inbox[m])
    BY <2>3, <2>4
  <2>6. \A m \in Unit : ~up'[m] => inbox'[m] = <<>>
    BY <1>0, <2>4
  <2> QED BY <2>2, <2>4, <2>5, <2>6 DEF InboxTyped
<1> QED BY <1>1, <1>2, <1>3, <1>4, <1>5, Frames

\* The executor's queue takes own commands from its consoles, others from the receiver.
LEMMA QueueStep ==
    ASSUME Base, [Next]_vars
    PROVE  /\ QueueTyped'
           /\ \A n \in Unit : \A c \in Taken(n)' :
                \/ c \in Taken(n)
                \/ c \in Known /\ cmd[c].from = n /\ Defers
                \/ c \in Range(inbox[n]) /\ Takes(n, c) /\ up[n] /\ Receive(n)
<1>0. /\ fq \in [Unit -> Seq(Known)] /\ ran \in [Unit -> Seq(Known)]
      /\ queued \in [Unit -> SUBSET Known] /\ dropped \in [Unit -> SUBSET Known]
      /\ running \in [Unit -> Cmd \cup {None}]
      /\ \A n \in Unit : Len(fq[n]) <= QueueMax /\ Range(fq[n]) \subseteq queued[n]
      /\ Known \subseteq Known' /\ Known \subseteq Cmd /\ QueueTyped
  BY KnownStep, KnownIs DEF Base, Typed, QueueTyped
<1>1. \A n \in Unit : fq[n] \in Seq(Known') /\ ran[n] \in Seq(Known')
  BY <1>0, SeqMono
<1>2. CASE UNCHANGED <<fq, queued, dropped, ran>>
  <2>1. running' \in [Unit -> Cmd \cup {None}]
    <3>1. CASE Fails
      BY <3>1, FailStep DEF Fails
    <3>2. CASE UNCHANGED running
      BY <1>0, <3>2
    <3>3. CASE \E n \in Unit : Finish(n)
      BY <1>0, <3>3 DEF Finish
    <3>4. CASE Defers
      BY <1>0, <3>4 DEF Defers, DeferOwn, Defer, queue
    <3>5. CASE Receives
      BY <1>0, <3>5 DEF Receives, Receive, Defer, queue
    <3>6. CASE Pops
      <4>1. PICK n \in Unit : PopDue(n)
        BY <3>6 DEF Pops
      <4>2. PICK i \in DOMAIN fq[n] : running' = [running EXCEPT ![n] = fq[n][i]]
        BY <4>1, PopStep
      <4>3. fq[n][i] \in Cmd
        BY <1>0, <4>1
      <4> QED BY <1>0, <4>2, <4>3
    <3> QED BY <3>1, <3>2, <3>3, <3>4, <3>5, <3>6, EveryStep
            DEF Stamps, Stamp, Loads, LoadSeq, Seals, Seal, Shoots, Shot, Injects, Inject, Boots,
                Boot, Rests, Ident, Forget, Tick, TsfReset, queue, vars
  <2>2. /\ fq' \in [Unit -> Seq(Known')] /\ ran' \in [Unit -> Seq(Known')]
        /\ queued' \in [Unit -> SUBSET Known'] /\ dropped' \in [Unit -> SUBSET Known']
    BY <1>0, <1>1, <1>2
  <2> QED BY <1>0, <1>2, <2>1, <2>2 DEF QueueTyped, Taken
<1>3. CASE Defers
  <2>1. PICK k \in Console : DeferOwn(k)
    BY <1>3 DEF Defers
  <2>2. UNCHANGED <<cmd, running, ran>>
    BY <2>1 DEF DeferOwn, Defer, queue
  <2> DEFINE n == Home[k]
             c == task[k].cmd
  <2>3. c \in Known /\ cmd[c].from = n /\ n \in Unit /\ (Defer(n, c) \/ UNCHANGED <<fq, queued, dropped>>)
    BY <2>1, DeferOwnStep
  <2>4. CASE UNCHANGED <<fq, queued, dropped>>
    BY <1>2, <2>2, <2>4
  <2>5. CASE Defer(n, c)
    <3> HIDE DEF n, c
    <3>1. /\ fq' \in [Unit -> Seq(Known)] /\ queued' \in [Unit -> SUBSET Known]
          /\ dropped' \in [Unit -> SUBSET Known]
          /\ queued'[n] = queued[n] \cup {c}
          /\ \A m \in Unit \ {n} : queued'[m] = queued[m]
          /\ \A m \in Unit : Len(fq'[m]) <= QueueMax /\ Range(fq'[m]) \subseteq queued'[m]
      BY <1>0, <2>3, <2>5, DeferStep
    <3> QED BY <1>0, <1>3, <2>2, <2>3, <3>1 DEF QueueTyped, Taken, Known
  <2> QED BY <2>3, <2>4, <2>5
<1>4. CASE Receives
  <2>1. PICK n \in Unit : Receive(n)
    BY <1>4 DEF Receives
  <2>2. UNCHANGED <<cmd, running, ran>>
    BY <2>1 DEF Receive, Defer, queue
  <2>3. PICK c \in Known : /\ c \in Range(inbox[n]) /\ up[n]
                           /\ \/ Takes(n, c) /\ Defer(n, c)
                              \/ UNCHANGED <<fq, queued, dropped>>
    BY <2>1, ReceiveStep
  <2>4. CASE UNCHANGED <<fq, queued, dropped>>
    BY <1>2, <2>2, <2>4
  <2>5. CASE Takes(n, c) /\ Defer(n, c)
    <3>1. /\ fq' \in [Unit -> Seq(Known)] /\ queued' \in [Unit -> SUBSET Known]
          /\ dropped' \in [Unit -> SUBSET Known]
          /\ queued'[n] = queued[n] \cup {c}
          /\ \A m \in Unit \ {n} : queued'[m] = queued[m]
          /\ \A m \in Unit : Len(fq'[m]) <= QueueMax /\ Range(fq'[m]) \subseteq queued'[m]
      BY <1>0, <2>3, <2>5, DeferStep
    <3> QED BY <1>0, <2>1, <2>2, <2>3, <2>5, <3>1 DEF QueueTyped, Taken, Known
  <2> QED BY <2>3, <2>4, <2>5
<1>5. CASE Pops
  <2>1. PICK n \in Unit : PopDue(n)
    BY <1>5 DEF Pops
  <2>2. PICK i \in DOMAIN fq[n] :
          /\ running' = [running EXCEPT ![n] = fq[n][i]]
          /\ ran' = [ran EXCEPT ![n] = Append(ran[n], fq[n][i])]
          /\ fq' = [fq EXCEPT ![n] = RemoveAt(fq[n], i)]
          /\ queued' = queued /\ dropped' = dropped
    BY <2>1, PopStep
  <2>3. fq[n][i] \in Known /\ fq[n][i] \in queued[n]
    BY <1>0, <2>1, <2>2 DEF Range
  <2>4. /\ Append(ran[n], fq[n][i]) \in Seq(Known)
        /\ Range(Append(ran[n], fq[n][i])) = Range(ran[n]) \cup {fq[n][i]}
    BY <1>0, <2>3, Appended
  <2>5. /\ RemoveAt(fq[n], i) \in Seq(Known) /\ Len(RemoveAt(fq[n], i)) <= QueueMax
        /\ Range(RemoveAt(fq[n], i)) \subseteq Range(fq[n])
    <3> DEFINE t == RemoveAt(fq[n], i)
    <3>1. /\ t \in Seq(Known) /\ Len(t) = Len(fq[n]) - 1
          /\ \A j \in DOMAIN t : t[j] = fq[n][IF j < i THEN j ELSE j + 1]
          /\ \A j \in DOMAIN t : (IF j < i THEN j ELSE j + 1) \in DOMAIN fq[n] \ {i}
      BY SMTT(30), <1>0, <2>2, Removed
    <3> HIDE DEF t
    <3>2. Range(t) \subseteq Range(fq[n])
      BY <3>1 DEF Range
    <3>3. Len(t) <= QueueMax
      BY <1>0, <3>1, Sizes
    <3> QED BY <3>1, <3>2, <3>3 DEF t
  <2>6. UNCHANGED cmd /\ Known' = Known
    BY <2>1 DEF PopDue, Known
  <2>7. /\ running' \in [Unit -> Cmd \cup {None}] /\ ran' \in [Unit -> Seq(Known)]
        /\ fq' \in [Unit -> Seq(Known)]
    BY <1>0, <2>2, <2>3, <2>4, <2>5
  <2>8. /\ ran'[n] = Append(ran[n], fq[n][i]) /\ fq'[n] = RemoveAt(fq[n], i)
        /\ \A m \in Unit \ {n} : ran'[m] = ran[m] /\ fq'[m] = fq[m]
    BY <1>0, <2>2
  <2>9. \A m \in Unit : Len(fq'[m]) <= QueueMax /\ Range(fq'[m]) \subseteq queued'[m]
    BY <1>0, <2>2, <2>5, <2>8
  <2>10. QueueTyped'
    BY <1>0, <2>2, <2>6, <2>7, <2>9 DEF QueueTyped
  <2>11. \A m \in Unit : Taken(m)' \subseteq Taken(m)
    BY <2>2, <2>3, <2>4, <2>8 DEF Taken
  <2> QED BY <2>10, <2>11
<1>6. CASE Fails
  <2>1. PICK n \in Unit : PowerLoss(n)
    BY <1>6 DEF Fails
  <2>2. /\ fq'[n] = <<>> /\ queued'[n] = {} /\ UNCHANGED <<ran, cmd>>
        /\ fq' \in [Unit -> Seq(Known)] /\ queued' \in [Unit -> SUBSET Known]
        /\ running' \in [Unit -> Cmd \cup {None}] /\ dropped' \in [Unit -> SUBSET Known]
        /\ \A m \in Unit \ {n} : fq'[m] = fq[m] /\ queued'[m] = queued[m]
    BY <2>1, FailStep
  <2>3. Range(<<>>) = {} /\ Len(<<>>) <= QueueMax
    BY Sizes DEF Range
  <2> QED BY <1>0, <2>2, <2>3 DEF QueueTyped, Taken, Known
<1> QED BY <1>2, <1>3, <1>4, <1>5, <1>6, Frames

\* The nonce kept of a sender only grows, and the slots are never more than there are.
LEMMA NonceStep ==
    ASSUME Base, NEW n \in Unit, NEW c \in Known, NoteNonce(n, c)
    PROVE  /\ rt' \in [Unit -> [Unit -> Nat]]
           /\ \A m \in Unit \ {n} : rt'[m] = rt[m]
           /\ \A s \in Unit : rt[n][s] <= rt'[n][s]
           /\ \A s \in Unit : s # cmd[c].from => rt'[n][s] = rt[n][s]
           /\ Checked(n, c) /\ ~Stale(n, c) =>
                cmd[c].from \in Unit /\ rt'[n][cmd[c].from] = cmd[c].nonce + 1
           /\ IsFiniteSet(Slots(n)') /\ Cardinality(Slots(n)') <= PeerMax
<1>1. /\ rt \in [Unit -> [Unit -> Nat]] /\ rt[n] \in [Unit -> Nat]
      /\ IsFiniteSet(Slots(n)) /\ Cardinality(Slots(n)) <= PeerMax
  BY DEF Base, Typed, NoncesTyped
<1>2. cmd[c] \in Commands /\ (cmd[c].signed <=> cmd[c].from \in Unit)
  BY KnownIs DEF Base, Typed, CmdTyped
<1>3. cmd[c].nonce \in Nat
  BY <1>2 DEF Commands
<1>4. CASE ~Checked(n, c)
  <2>1. rt' = rt
    BY <1>4 DEF NoteNonce
  <2>2. Slots(n)' = Slots(n)
    BY <2>1 DEF Slots
  <2>3. \A s \in Unit : rt[n][s] <= rt[n][s]
    BY <1>1
  <2> QED BY <1>1, <1>4, <2>1, <2>2, <2>3
<1>5. CASE Checked(n, c)
  <2> DEFINE f == cmd[c].from
             v == IF ~Stale(n, c) THEN cmd[c].nonce + 1 ELSE IF rt[n][f] = NoSlot THEN 1 ELSE rt[n][f]
  <2>1. f \in Unit /\ Slotted(n, f)
    BY <1>2, <1>5 DEF Checked
  <2>2. rt' = [rt EXCEPT ![n][f] = v]
    BY <1>5 DEF NoteNonce
  <2>3. v \in Nat /\ rt[n][f] <= v
    <3>1. CASE ~Stale(n, c)
      <4>1. ~(cmd[c].nonce < rt[n][f])
        BY <3>1 DEF Stale
      <4> QED BY <1>1, <1>3, <2>1, <3>1, <4>1
    <3>2. CASE Stale(n, c)
      BY <1>1, <2>1, <3>2 DEF NoSlot
    <3> QED BY <3>1, <3>2
  <2>4. Checked(n, c) /\ ~Stale(n, c) => v = cmd[c].nonce + 1
    OBVIOUS
  <2> HIDE DEF v
  <2>5. [rt[n] EXCEPT ![f] = v] \in [Unit -> Nat]
    BY <1>1, <2>1, <2>3
  <2>6. /\ rt' \in [Unit -> [Unit -> Nat]] /\ \A m \in Unit \ {n} : rt'[m] = rt[m]
    BY <1>1, <2>2, <2>5, Zenon
  <2>7. rt'[n] = [rt[n] EXCEPT ![f] = v]
    BY <1>1, <2>2, Zenon
  <2>8. /\ \A s \in Unit : s # f => rt'[n][s] = rt[n][s]
        /\ rt'[n][f] = v
    BY <1>1, <2>1, <2>7
  <2>9. \A s \in Unit : rt[n][s] <= rt'[n][s]
    BY <1>1, <2>1, <2>3, <2>8
  <2>10. Slots(n)' \subseteq Slots(n) \cup {f}
    BY <2>8 DEF Slots
  <2>11. IsFiniteSet(Slots(n)') /\ Cardinality(Slots(n)') <= PeerMax
    <3>1. CASE f \in Slots(n)
      <4>1. Slots(n)' \subseteq Slots(n)
        BY <2>10, <3>1
      <4>2. /\ IsFiniteSet(Slots(n)') /\ Cardinality(Slots(n)') <= Cardinality(Slots(n))
        BY <1>1, <4>1, FS_Subset
      <4>3. Cardinality(Slots(n)') \in Nat /\ Cardinality(Slots(n)) \in Nat
        BY <1>1, <4>2, FS_CardinalityType
      <4> QED BY <1>1, <4>2, <4>3, Sizes
    <3>2. CASE f \notin Slots(n)
      <4>1. Cardinality(Slots(n)) < PeerMax
        BY <2>1, <3>2 DEF Slotted, Slots
      <4>2. \A x : /\ IsFiniteSet(Slots(n) \cup {x})
                   /\ x \notin Slots(n) => Cardinality(Slots(n) \cup {x}) = Cardinality(Slots(n)) + 1
        BY <1>1, FS_AddElement
      <4>3. /\ IsFiniteSet(Slots(n) \cup {f})
            /\ Cardinality(Slots(n) \cup {f}) = Cardinality(Slots(n)) + 1
        BY <3>2, <4>2
      <4>4. /\ IsFiniteSet(Slots(n)') /\ Cardinality(Slots(n)') <= Cardinality(Slots(n) \cup {f})
        BY <2>10, <4>3, FS_Subset
      <4>5. Cardinality(Slots(n)') \in Nat /\ Cardinality(Slots(n)) \in Nat
        BY <1>1, <4>4, FS_CardinalityType
      <4> QED BY <4>1, <4>3, <4>4, <4>5, Sizes
    <3> QED BY <3>1, <3>2
  <2> QED BY <2>1, <2>4, <2>6, <2>8, <2>9, <2>11
<1> QED BY <1>4, <1>5

\* The ring keeps its size.
LEMMA SeenStep ==
    ASSUME Base, NEW n \in Unit, NEW c \in Known, NoteSeen(n, c)
    PROVE  /\ seen' \in [Unit -> Seq((Unit \cup {Guest}) \X Nat)]
           /\ \A m \in Unit \ {n} : seen'[m] = seen[m]
           /\ Len(seen'[n]) <= SeenMax /\ Len(seen'[n]) <= Len(seen[n]) + 1
           /\ Len(seen[n]) < SeenMax => Range(seen'[n]) = Range(seen[n]) \cup {SeenKey(c)}
<1> DEFINE K == (Unit \cup {Guest}) \X Nat
           s == Append(seen[n], SeenKey(c))
           t == IF Len(s) > SeenMax THEN Tail(s) ELSE s
<1>1. cmd[c] \in Commands
  BY KnownIs DEF Base, Typed
<1>2. SeenKey(c) \in K
  BY <1>1 DEF SeenKey, Commands
<1>3. seen \in [Unit -> Seq(K)] /\ Len(seen[n]) <= SeenMax
  BY DEF Base, Typed, SeenTyped
<1>4. seen' = [seen EXCEPT ![n] = t]
  BY DEF NoteSeen
<1> HIDE DEF K
<1>5. /\ s \in Seq(K) /\ Len(s) = Len(seen[n]) + 1 /\ Range(s) = Range(seen[n]) \cup {SeenKey(c)}
  BY <1>2, <1>3, Appended
<1>6. Len(seen[n]) \in Nat
  BY <1>3
<1> HIDE DEF s
<1>7. /\ t \in Seq(K) /\ Len(t) <= SeenMax /\ Len(t) <= Len(seen[n]) + 1
      /\ Len(seen[n]) < SeenMax => t = s
  <2>1. CASE Len(s) > SeenMax
    <3>1. s # <<>>
      BY <1>5, <1>6
    <3>2. Tail(s) \in Seq(K) /\ Len(Tail(s)) = Len(s) - 1
      BY <1>5, <3>1, Tailed
    <3> QED BY <1>3, <1>5, <1>6, <2>1, <3>2, Sizes
  <2>2. CASE ~(Len(s) > SeenMax)
    BY <1>3, <1>5, <1>6, <2>2, Sizes
  <2> QED BY <2>1, <2>2
<1> HIDE DEF t
<1>8. seen' \in [Unit -> Seq(K)] /\ seen'[n] = t /\ \A m \in Unit \ {n} : seen'[m] = seen[m]
  BY <1>3, <1>4, <1>7
<1> QED BY <1>5, <1>7, <1>8 DEF K

LEMMA SeenTypedStep ==
    ASSUME Base, [Next]_vars PROVE SeenTyped' /\ NoncesTyped'
<1>0. SeenTyped /\ NoncesTyped
  BY DEF Base, Typed
<1>1. CASE UNCHANGED <<rt, seen>>
  BY <1>0, <1>1 DEF SeenTyped, NoncesTyped, Slots
<1>2. CASE Receives
  <2>1. PICK n \in Unit : Receive(n)
    BY <1>2 DEF Receives
  <2>2. PICK c \in Known : NoteNonce(n, c) /\ (NoteSeen(n, c) \/ UNCHANGED seen)
    BY <2>1, ReceiveStep
  <2>3. SeenTyped'
    <3>1. CASE NoteSeen(n, c)
      BY <1>0, <2>2, <3>1, SeenStep DEF SeenTyped
    <3>2. CASE UNCHANGED seen
      BY <1>0, <3>2 DEF SeenTyped
    <3> QED BY <2>2, <3>1, <3>2
  <2>4. NoncesTyped'
    <3>1. /\ rt' \in [Unit -> [Unit -> Nat]] /\ \A m \in Unit \ {n} : rt'[m] = rt[m]
          /\ IsFiniteSet(Slots(n)') /\ Cardinality(Slots(n)') <= PeerMax
      BY <2>2, NonceStep
    <3>2. \A m \in Unit \ {n} : Slots(m)' = Slots(m)
      BY <3>1 DEF Slots
    <3> QED BY <1>0, <3>1, <3>2 DEF NoncesTyped
  <2> QED BY <2>3, <2>4
<1>3. CASE Fails
  <2>1. PICK n \in Unit : PowerLoss(n)
    BY <1>3 DEF Fails
  <2>2. /\ seen'[n] = <<>> /\ \A s \in Unit : rt'[n][s] = NoSlot
        /\ \A m \in Unit \ {n} : seen'[m] = seen[m] /\ rt'[m] = rt[m]
        /\ seen' \in [Unit -> Seq((Unit \cup {Guest}) \X Nat)] /\ rt' \in [Unit -> [Unit -> Nat]]
    BY <2>1, FailStep
  <2>3. Slots(n)' = {} /\ \A m \in Unit \ {n} : Slots(m)' = Slots(m)
    BY <2>2 DEF Slots
  <2>4. IsFiniteSet({}) /\ Cardinality({}) = 0 /\ Len(<<>>) = 0
    BY FS_EmptySet
  <2>5. 0 <= PeerMax /\ 0 <= SeenMax
    BY Sizes
  <2>6. SeenTyped'
    <3>1. \A m \in Unit : Len(seen'[m]) <= SeenMax
      BY <1>0, <2>2, <2>4, <2>5 DEF SeenTyped
    <3> QED BY <2>2, <3>1 DEF SeenTyped
  <2>7. NoncesTyped'
    <3>1. \A m \in Unit : IsFiniteSet(Slots(m)') /\ Cardinality(Slots(m)') <= PeerMax
      BY <1>0, <2>3, <2>4, <2>5 DEF NoncesTyped
    <3> QED BY <2>2, <3>1 DEF NoncesTyped
  <2> QED BY <2>6, <2>7
<1> QED BY <1>1, <1>2, <1>3, Frames

LEMMA WorldTypedStep ==
    ASSUME Base, [Next]_vars PROVE WorldTyped'
<1>0. WorldTyped
  BY DEF Base, Typed
<1>1. seqno' \in [Unit -> Nat]
  <2>1. CASE Seals
    <3>1. PICK k \in Console : Seal(k)
      BY <2>1 DEF Seals
    <3>2. task[k] \in Send /\ seqno' = [seqno EXCEPT ![Home[k]] = task[k].seq]
      BY <3>1 DEF Seal, Base, Typed, TaskTyped
    <3> QED BY <1>0, <3>2 DEF WorldTyped, Send
  <2>2. CASE UNCHANGED seqno
    BY <1>0, <2>2 DEF WorldTyped
  <2> QED BY <2>1, <2>2, Frames
<1>2. up' \in [Unit -> BOOLEAN]
  <2>1. CASE Fails
    BY <2>1, FailStep DEF Fails
  <2>2. CASE Boots
    BY <1>0, <2>2 DEF WorldTyped, Boots, Boot
  <2>3. CASE UNCHANGED up
    BY <1>0, <2>3 DEF WorldTyped
  <2> QED BY <2>1, <2>2, <2>3, Frames
<1>3. tsf' \in 1 .. MaxTime
  BY <1>0, Frames, Sizes
  DEF WorldTyped, Rests, Finish, Ident, Forget, Tick, TsfReset, air, queue, vars
<1>4. pins' \in [Unit -> SUBSET Unit]
  <2>1. CASE \E n, s \in Unit : Ident(n, s)
    BY <1>0, <2>1 DEF WorldTyped, Ident
  <2>2. CASE \E n, s \in Unit : Forget(n, s)
    BY <1>0, <2>2 DEF WorldTyped, Forget
  <2>3. CASE UNCHANGED pins
    BY <1>0, <2>3 DEF WorldTyped
  <2> QED BY <2>1, <2>2, <2>3, Frames DEF Rests, Finish, Tick, TsfReset, air, vars
<1>5. disturb' \in 0 .. MaxDisturb
  <2>1. CASE UNCHANGED disturb
    BY <1>0, <2>1 DEF WorldTyped
  <2>2. CASE disturb < MaxDisturb /\ disturb' = disturb + 1
    BY <1>0, <2>2, Sizes DEF WorldTyped
  <2> QED BY <2>1, <2>2, Frames
          DEF Injects, Inject, Fails, PowerLoss, Rests, Finish, Ident, Forget, Tick, TsfReset,
              Disturb, vars
<1> QED BY <1>1, <1>2, <1>3, <1>4, <1>5 DEF WorldTyped

\* What may reach a unit is what could before, a new injection, or a command just sealed.
LEMMA PendingStep ==
    ASSUME Base, [Next]_vars
    PROVE  \A n \in Unit : \A c \in Pending(n)' :
             \/ c \in Pending(n)
             \/ c \in Known' /\ ~cmd'[c].signed /\ Injects /\ up[n]
             \/ \E k \in Console : c = task[k].cmd /\ Seal(k)
<1>1. ASSUME NEW n \in Unit, NEW c \in Range(inbox'[n])
      PROVE  c \in Pending(n) \/ (c \in Known' /\ ~cmd'[c].signed /\ Injects /\ up[n])
  BY InboxStep DEF Pending
<1>2. ASSUME NEW c, NEW l \in Console, task'[l].at = "bursting", task'[l].cmd = c
      PROVE  c \in Fired \/ \E k \in Console : c = task[k].cmd /\ Seal(k)
  <2>1. CASE task[l].at = "bursting" /\ task[l].cmd = c
    BY <2>1 DEF Fired, Base, Typed, TaskTyped
  <2>2. CASE ~(task[l].at = "bursting" /\ task[l].cmd = c)
    <3>1. ~UNCHANGED task
      BY <1>2, <2>2
    <3>2. CASE Stamps
      <4>1. PICK k \in Console, t \in Target : Stamp(k, t)
        BY <3>2 DEF Stamps
      <4>2. task'[k].at = "stamped" /\ \A m \in Console \ {k} : task'[m] = task[m]
        BY <4>1, StampStep
      <4> QED BY <1>2, <2>2, <4>2
    <3>3. CASE Defers
      <4>1. PICK k \in Console : DeferOwn(k)
        BY <3>3 DEF Defers
      <4>2. task'[k].at = "deferred" /\ \A m \in Console \ {k} : task'[m] = task[m]
        BY <4>1, DeferOwnStep
      <4> QED BY <1>2, <2>2, <4>2
    <3>4. CASE Loads
      <4>1. PICK k \in Console : LoadSeq(k)
        BY <3>4 DEF Loads
      <4>2. /\ task'[k] = [task[k] EXCEPT !.at = "loaded", !.seq = seqno[Home[k]] + 1]
            /\ task[k] \in Send
            /\ \A m \in Console \ {k} : task'[m] = task[m]
        BY <4>1 DEF LoadSeq, Base, Typed, TaskTyped
      <4>3. task'[k].at = "loaded"
        BY <4>2 DEF Send
      <4> QED BY <1>2, <2>2, <4>2, <4>3
    <3>5. CASE Seals
      <4>1. PICK k \in Console : Seal(k)
        BY <3>5 DEF Seals
      <4>2. task'[k].cmd = task[k].cmd /\ \A m \in Console \ {k} : task'[m] = task[m]
        BY <4>1, SealStep
      <4> QED BY <1>2, <2>2, <4>1, <4>2
    <3>6. CASE Shoots
      <4>1. PICK k \in Console, R \in SUBSET Unit : Shot(k, R)
        BY <3>6 DEF Shoots
      <4>2. /\ task[k].at = "bursting"
            /\ task'[k].at = "idle" \/ (task'[k].at = "bursting" /\ task'[k].cmd = task[k].cmd)
            /\ task' = [task EXCEPT ![k] = task'[k]]
        BY <4>1, ShotStep
      <4>3. \A m \in Console \ {k} : task'[m] = task[m]
        BY <4>2 DEF Base, Typed, TaskTyped
      <4> QED BY <1>2, <2>2, <4>2, <4>3
    <3>7. CASE Fails
      <4>1. PICK n \in Unit : PowerLoss(n)
        BY <3>7 DEF Fails
      <4>2. task' = [k \in Console |-> IF Home[k] = n THEN Idle ELSE task[k]]
        BY <4>1 DEF PowerLoss
      <4>3. task'[l] = Idle \/ task'[l] = task[l]
        BY <4>2
      <4> QED BY <1>2, <2>2, <4>3 DEF Idle
    <3> QED BY <3>1, <3>2, <3>3, <3>4, <3>5, <3>6, <3>7, Frames
  <2> QED BY <2>1, <2>2
<1> QED BY <1>1, <1>2 DEF Pending, Fired

\* What a unit took or may get is a command that keeps its nonce.
LEMMA KeptNonces ==
    ASSUME Base, [Next]_vars, NEW n \in Unit
    PROVE  /\ \A c \in Pending(n) : c \in Known /\ cmd'[c] = cmd[c] /\ (cmd[c].signed => cmd[c].nonce # 0)
           /\ \A d \in Taken(n) :
                /\ d \in Known /\ cmd'[d].from = cmd[d].from /\ cmd'[d].signed = cmd[d].signed
                /\ cmd'[d].at = cmd[d].at
                /\ cmd[d].signed /\ cmd[d].from # n => cmd'[d] = cmd[d] /\ cmd[d].nonce # 0
<1>1. \A c \in Known :
        /\ cmd'[c].from = cmd[c].from /\ cmd'[c].at = cmd[c].at /\ cmd'[c].signed = cmd[c].signed
        /\ cmd[c].nonce # 0 \/ ~cmd[c].signed => cmd'[c] = cmd[c]
  BY KnownStep
<1>2. \A c \in Pending(n) : c \in Known /\ (cmd[c].signed => cmd[c].nonce # 0)
  <2>1. \A c \in Range(inbox[n]) : c \in Known /\ (cmd[c].signed => cmd[c].nonce # 0)
    BY DEF Base, Typed, InboxTyped, Sealed, Range
  <2>2. \A c \in Fired : c \in Known /\ (cmd[c].signed => cmd[c].nonce # 0)
    BY DEF Fired, Base, Senders
  <2> QED BY <2>1, <2>2 DEF Pending
<1>3. \A d \in Taken(n) : d \in Known /\ (cmd[d].signed /\ cmd[d].from # n => cmd[d].nonce # 0)
  BY DEF Taken, Base, Typed, QueueTyped, Sealed, Range
<1> QED BY <1>1, <1>2, <1>3

LEMMA SealedStep ==
    ASSUME Base, [Next]_vars PROVE Sealed'
<1> SUFFICES ASSUME NEW n \in Unit
             PROVE  /\ \A c \in Range(inbox'[n]) : cmd'[c].signed => cmd'[c].nonce # 0
                    /\ \A c \in Taken(n)' : cmd'[c].signed /\ cmd'[c].from # n => cmd'[c].nonce # 0
  BY DEF Sealed
<1>1. \A c \in Pending(n) : cmd'[c].signed => cmd'[c].nonce # 0
  BY KeptNonces
<1>2. ASSUME NEW c \in Range(inbox'[n]) PROVE cmd'[c].signed => cmd'[c].nonce # 0
  BY <1>1, InboxStep DEF Pending
<1>3. ASSUME NEW c \in Taken(n)' PROVE cmd'[c].signed /\ cmd'[c].from # n => cmd'[c].nonce # 0
  <2>1. CASE c \in Taken(n)
    BY <2>1, KeptNonces
  <2>2. CASE c \in Known /\ cmd[c].from = n
    BY <2>2, KnownStep
  <2>3. CASE c \in Range(inbox[n])
    BY <1>1, <2>3 DEF Pending
  <2> QED BY <2>1, <2>2, <2>3, QueueStep
<1> QED BY <1>2, <1>3

LEMMA BaseStep ==
    ASSUME Base, [Next]_vars PROVE Base'
<1>1. CmdTyped'
  BY KnownStep
<1>2. TaskTyped' /\ Senders'
  BY SendersStep
<1>3. QueueTyped'
  BY QueueStep
<1>4. InboxTyped'
  BY InboxStep
<1>5. SeenTyped' /\ NoncesTyped'
  BY SeenTypedStep
<1>6. WorldTyped'
  BY WorldTypedStep
<1>7. Sealed'
  BY SealedStep
<1> QED BY <1>1, <1>2, <1>3, <1>4, <1>5, <1>6, <1>7 DEF Base, Typed

LEMMA BaseTypeOK ==
    ASSUME Base PROVE TypeOK
<1>1. /\ cmd \in Seq(Commands) /\ Len(cmd) <= MaxCmd /\ Known \subseteq Cmd
  BY KnownIs DEF Base, Typed, CmdTyped
<1>2. task \in [Console -> [at : Steps, cmd : Cmd \cup {None}, seq : Nat, shots : 0 .. Burst - 1]]
  BY DEF Base, Typed, TaskTyped, Send
<1>3. \A n \in Unit : /\ inbox[n] \in Seq(Known) /\ fq[n] \in Seq(Known) /\ ran[n] \in Seq(Known)
                      /\ queued[n] \in SUBSET Known /\ dropped[n] \in SUBSET Known
  BY DEF Base, Typed, InboxTyped, QueueTyped
<1>4. \A n \in Unit : /\ inbox[n] \in Seq(Cmd) /\ fq[n] \in Seq(Cmd) /\ ran[n] \in Seq(Cmd)
                      /\ queued[n] \in SUBSET Cmd /\ dropped[n] \in SUBSET Cmd
  BY <1>1, <1>3, SeqMono
<1>5. /\ inbox \in [Unit -> Seq(Cmd)] /\ fq \in [Unit -> Seq(Cmd)] /\ ran \in [Unit -> Seq(Cmd)]
      /\ queued \in [Unit -> SUBSET Cmd] /\ dropped \in [Unit -> SUBSET Cmd]
      /\ running \in [Unit -> Cmd \cup {None}]
  BY <1>4 DEF Base, Typed, InboxTyped, QueueTyped
<1>6. /\ rt \in [Unit -> [Unit -> Nat]]
      /\ \A n \in Unit : Cardinality({s \in Unit : rt[n][s] # NoSlot}) <= PeerMax
  BY DEF Base, Typed, NoncesTyped, Slots
<1>7. /\ seen \in [Unit -> Seq((Unit \cup {Guest}) \X Nat)]
      /\ \A n \in Unit : Len(seen[n]) <= SeenMax /\ Len(fq[n]) <= QueueMax
  BY DEF Base, Typed, SeenTyped, QueueTyped
<1> QED BY <1>1, <1>2, <1>5, <1>6, <1>7 DEF TypeOK, Base, Typed, WorldTyped

---------------------------------------------------------------------------
(* The order in which a receiver runs what one sender signed. *)

LEMMA CountedStep ==
    ASSUME Base, Counted, [Next]_vars PROVE Counted'
<1>0. CmdTyped /\ IsFiniteSet(Known) /\ \A c \in Known : cmd[c].nonce \in Nat
  <2>1. CmdTyped
    BY DEF Base, Typed
  <2> QED BY <2>1, KnownIs DEF Commands
<1>1. 0 \div MaxCmd = 0
  BY Sizes
<1>2. CASE UNCHANGED cmd
  BY <1>2 DEF Counted, InTick, Known
<1>3. CASE Stamps \/ Injects
  <2>1. /\ Known \subseteq Known' /\ \A c \in Known : cmd'[c] = cmd[c]
        /\ \A c \in Known' \ Known : cmd'[c].nonce = 0
    <3>1. CASE Stamps
      BY <3>1, StampStep DEF Stamps
    <3>2. CASE Injects
      BY <3>2, InjectStep DEF Injects
    <3> QED BY <1>3, <3>1, <3>2
  <2>2. ASSUME NEW t, t # 0
        PROVE  {d \in Known' : cmd'[d].nonce \div MaxCmd = t} = InTick(t)
    BY <1>1, <2>1, <2>2 DEF InTick
  <2>3. ASSUME NEW c \in Known', cmd'[c].nonce \div MaxCmd # 0
        PROVE  LET t == cmd'[c].nonce \div MaxCmd IN
               cmd'[c].nonce < t * MaxCmd + Cardinality({d \in Known' : cmd'[d].nonce \div MaxCmd = t})
    <3> DEFINE t == cmd'[c].nonce \div MaxCmd
    <3>1. c \in Known /\ cmd'[c] = cmd[c]
      BY <1>1, <2>1, <2>3
    <3>2. {d \in Known' : cmd'[d].nonce \div MaxCmd = t} = InTick(t)
      BY <2>2, <2>3
    <3>3. cmd[c].nonce < t * MaxCmd + Cardinality(InTick(t))
      BY <2>3, <3>1 DEF Counted
    <3> QED BY <3>1, <3>2, <3>3
  <2> QED BY <2>3 DEF Counted, InTick
<1>4. CASE Seals
  <2>1. PICK k \in Console : Seal(k)
    BY <1>4 DEF Seals
  <2> DEFINE s == task[k].cmd
             v == tsf * MaxCmd + Cardinality(InTick(tsf))
  <2>2. /\ Known' = Known /\ s \in Known
        /\ \A c \in Known \ {s} : cmd'[c] = cmd[c]
        /\ cmd[s].nonce = 0 /\ cmd'[s].nonce = v /\ v \div MaxCmd = tsf
        /\ IsFiniteSet(InTick(tsf)) /\ s \notin InTick(tsf)
    BY <2>1, SealStep
  <2>3. tsf \in Nat /\ tsf >= 1 /\ tsf * MaxCmd \in Nat
    BY Sizes, SMTT(30) DEF Base, Typed, WorldTyped
  <2> HIDE DEF v, s
  <2>4. ASSUME NEW t, t # 0, t # tsf PROVE InTick(t)' = InTick(t)
    BY <1>1, <2>2, <2>4 DEF InTick
  <2>5. InTick(tsf)' = {c \in Known' : cmd'[c].nonce \div MaxCmd = tsf'}
    BY DEF InTick
  <2>6. tsf' = tsf
    BY <2>1 DEF Seal
  <2>7. {c \in Known' : cmd'[c].nonce \div MaxCmd = tsf} = InTick(tsf) \cup {s}
    BY <2>2 DEF InTick
  <2>8. Cardinality(InTick(tsf) \cup {s}) = Cardinality(InTick(tsf)) + 1
    <3>1. \A x : x \notin InTick(tsf) => Cardinality(InTick(tsf) \cup {x}) = Cardinality(InTick(tsf)) + 1
      BY <2>2, FS_AddElement
    <3> QED BY <2>2, <3>1
  <2>9. Cardinality(InTick(tsf)) \in Nat
    BY <2>2, FS_CardinalityType
  <2>10. ASSUME NEW c \in Known', cmd'[c].nonce \div MaxCmd # 0
         PROVE  LET t == cmd'[c].nonce \div MaxCmd IN
                cmd'[c].nonce < t * MaxCmd + Cardinality({d \in Known' : cmd'[d].nonce \div MaxCmd = t})
    <3> DEFINE t == cmd'[c].nonce \div MaxCmd
    <3>1. CASE c = s
      <4>1. cmd'[c].nonce = v /\ t = tsf
        BY <2>2, <3>1
      <4>2. v < tsf * MaxCmd + Cardinality(InTick(tsf) \cup {s})
        BY <2>3, <2>8, <2>9 DEF v
      <4> QED BY <2>7, <4>1, <4>2
    <3>2. CASE c # s /\ t = tsf
      <4>1. c \in Known /\ cmd'[c] = cmd[c]
        BY <2>2, <3>2
      <4>2. cmd[c].nonce < tsf * MaxCmd + Cardinality(InTick(tsf))
        BY <2>10, <3>2, <4>1 DEF Counted
      <4>3. cmd[c].nonce < tsf * MaxCmd + Cardinality(InTick(tsf) \cup {s})
        BY <1>0, <2>3, <2>8, <2>9, <4>1, <4>2
      <4> QED BY <2>7, <3>2, <4>1, <4>3
    <3>3. CASE c # s /\ t # tsf
      <4>1. c \in Known /\ cmd'[c] = cmd[c]
        BY <2>2, <3>3
      <4>2. cmd[c].nonce < t * MaxCmd + Cardinality(InTick(t))
        BY <2>10, <4>1 DEF Counted
      <4>3. {d \in Known' : cmd'[d].nonce \div MaxCmd = t} = InTick(t)
        BY <1>1, <2>2, <2>10, <3>3 DEF InTick
      <4> QED BY <4>1, <4>2, <4>3
    <3> QED BY <3>1, <3>2, <3>3
  <2> QED BY <2>10 DEF Counted, InTick
<1> QED BY <1>2, <1>3, <1>4, Frames

\* What a receiver takes from a sender it remembers was checked against its nonces.
LEMMA Accepted ==
    ASSUME Base, PeersFit, NEW n \in Unit, NEW c \in Known, Takes(n, c), cmd[c].signed
    PROVE  Checked(n, c) /\ ~Stale(n, c) /\ ~(cmd[c].nonce < rt[n][cmd[c].from])
<1>1. cmd[c].from \in Unit
  BY DEF Base, Typed, CmdTyped
<1>2. Pinned(n, c) /\ ~(Checked(n, c) /\ Stale(n, c))
  BY DEF Takes, Refused
<1>3. Slotted(n, cmd[c].from)
  <2> DEFINE f == cmd[c].from
  <2>1. CASE rt[n][f] # NoSlot
    BY <2>1 DEF Slotted
  <2>2. CASE rt[n][f] = NoSlot
    <3>1. Slots(n) \subseteq Unit \ {f}
      BY <2>2 DEF Slots
    <3>2. \A x \in Unit : /\ IsFiniteSet(Unit \ {x})
                         /\ Cardinality(Unit \ {x}) = Cardinality(Unit) - 1
      BY FS_RemoveElement DEF PeersFit
    <3>3. IsFiniteSet(Unit \ {f}) /\ Cardinality(Unit \ {f}) = Cardinality(Unit) - 1
      BY <1>1, <3>2
    <3>4. IsFiniteSet(Slots(n)) /\ Cardinality(Slots(n)) <= Cardinality(Unit \ {f})
      BY <3>1, <3>3, FS_Subset
    <3>5. Cardinality(Slots(n)) \in Nat /\ Cardinality(Unit) \in Nat
      BY <3>4, FS_CardinalityType DEF PeersFit
    <3>6. Cardinality(Slots(n)) < PeerMax
      BY <3>3, <3>4, <3>5, Sizes DEF PeersFit
    <3> QED BY <3>6 DEF Slotted, Slots
  <2> QED BY <2>1, <2>2
<1>4. Checked(n, c)
  BY <1>2, <1>3 DEF Checked
<1> QED BY <1>2, <1>4 DEF Stale

\* What may reach a unit that has power now reaches one that had it before.
LEMMA WasUp ==
    ASSUME Base, [Next]_vars, NEW n \in Unit, NEW c \in Pending(n), up'[n] PROVE up[n]
<1>1. CASE Boots
  <2>1. PICK m \in Unit : Boot(m)
    BY <1>1 DEF Boots
  <2>2. \A k \in Console : task[k].at # "bursting"
    BY <2>1 DEF Boot
  <2>3. Fired = {}
    BY <2>2 DEF Fired
  <2>4. inbox[n] # <<>>
    BY <2>3 DEF Pending, Range
  <2> QED BY <2>4 DEF Base, Typed, InboxTyped
<1>2. CASE Fails
  BY <1>2, FailStep DEF Fails
<1>3. CASE UNCHANGED up
  BY <1>3
<1> QED BY <1>1, <1>2, <1>3, Frames

\* Nonces a unit expects only rise while it has power.
LEMMA SlotsGrow ==
    ASSUME Base, [Next]_vars, NEW n \in Unit, NEW s \in Unit, up'[n] \/ ~Fails
    PROVE  rt[n][s] \in Nat /\ rt'[n][s] \in Nat /\ rt[n][s] <= rt'[n][s]
<1>0. rt[n][s] \in Nat
  BY DEF Base, Typed, NoncesTyped
<1>1. CASE UNCHANGED rt
  BY <1>0, <1>1
<1>2. CASE Receives
  <2>1. PICK m \in Unit : Receive(m)
    BY <1>2 DEF Receives
  <2>2. PICK c \in Known : NoteNonce(m, c)
    BY <2>1, ReceiveStep
  <2>3. /\ rt' \in [Unit -> [Unit -> Nat]]
        /\ \A l \in Unit \ {m} : rt'[l] = rt[l]
        /\ \A x \in Unit : rt[m][x] <= rt'[m][x]
    BY <2>1, <2>2, NonceStep
  <2>4. rt'[n][s] \in Nat
    BY <2>3
  <2> QED BY <1>0, <2>3, <2>4
<1>3. CASE Fails
  <2>1. PICK m \in Unit : PowerLoss(m)
    BY <1>3 DEF Fails
  <2>2. m # n /\ rt'[n] = rt[n]
    BY <1>3, <2>1, FailStep
  <2> QED BY <1>0, <2>2
<1> QED BY <1>1, <1>2, <1>3, Frames

\* A signed command newly taken leaves its nonce behind.
LEMMA TakesNotes ==
    ASSUME Base, PeersFit, NEW n \in Unit, Receive(n), NEW d \in Range(inbox[n]), Takes(n, d),
           d \notin Taken(n), d \in Taken(n)', d \in Known, cmd[d].signed
    PROVE  cmd[d].from \in Unit /\ rt'[n][cmd[d].from] = cmd[d].nonce + 1
<1>1. PICK c \in Known : /\ NoteNonce(n, c)
                         /\ \/ Takes(n, c) /\ Defer(n, c)
                            \/ UNCHANGED <<fq, queued, dropped>>
  BY ReceiveStep
<1>2. UNCHANGED ran
  BY DEF Receive, Defer, queue
<1>3. c = d
  <2>1. CASE UNCHANGED <<fq, queued, dropped>>
    BY <1>2, <2>1 DEF Taken
  <2>2. CASE Defer(n, c)
    <3>1. queued'[n] = queued[n] \cup {c}
      BY <2>2, DeferStep DEF Base, Typed
    <3> QED BY <1>2, <3>1 DEF Taken
  <2> QED BY <1>1, <2>1, <2>2
<1>4. Checked(n, d) /\ ~Stale(n, d)
  BY Accepted
<1> QED BY <1>1, <1>3, <1>4, NonceStep

\* Memory is lost with power alone, the clock goes back with the access point alone.
LEMMA RememberedStep ==
    ASSUME Base, PeersFit, Remembered, [Next]_vars, ~Fails PROVE Remembered'
<1>1. ASSUME NEW n \in Unit, NEW d \in Taken(n)', cmd'[d].signed, cmd'[d].from # n
      PROVE  cmd'[d].nonce < rt'[n][cmd'[d].from]
  <2>1. CASE d \in Taken(n)
    <3>1. /\ d \in Known /\ cmd'[d] = cmd[d] /\ cmd[d].signed /\ cmd[d].from # n
      BY <1>1, <2>1, KeptNonces
    <3>2. cmd[d].from \in Unit /\ cmd[d].nonce \in Nat
      BY <3>1, KnownIs DEF Base, Typed, CmdTyped, Commands
    <3>3. cmd[d].nonce < rt[n][cmd[d].from]
      BY <2>1, <3>1 DEF Remembered
    <3>4. /\ rt[n][cmd[d].from] \in Nat /\ rt'[n][cmd[d].from] \in Nat
          /\ rt[n][cmd[d].from] <= rt'[n][cmd[d].from]
      BY <3>2, SlotsGrow
    <3>5. cmd[d].nonce < rt'[n][cmd[d].from]
      BY <3>2, <3>3, <3>4
    <3> QED BY <3>1, <3>5
  <2>2. CASE d \in Known /\ cmd[d].from = n
    BY <1>1, <2>2, KnownStep
  <2>3. CASE d \in Range(inbox[n]) /\ Takes(n, d) /\ Receive(n) /\ d \notin Taken(n)
    <3>1. d \in Known /\ cmd'[d] = cmd[d]
      BY <2>3, KeptNonces DEF Pending
    <3>2. cmd[d].from \in Unit /\ rt'[n][cmd[d].from] = cmd[d].nonce + 1
      BY <1>1, <2>3, <3>1, TakesNotes
    <3>3. cmd[d].nonce \in Nat
      BY <3>1, KnownIs DEF Base, Typed, Commands
    <3> QED BY <3>1, <3>2, <3>3
  <2> QED BY <2>1, <2>2, <2>3, QueueStep
<1> QED BY <1>1 DEF Remembered

LEMMA MonotoneStep ==
    ASSUME Base, Monotone, [Next]_vars, ~TsfReset PROVE Monotone'
<1>0. tsf \in Nat /\ tsf' \in Nat /\ tsf <= tsf'
  <2>1. tsf \in Nat /\ tsf' \in Nat
    BY WorldTypedStep, Sizes DEF Base, Typed, WorldTyped
  <2>2. tsf' = tsf \/ tsf' = tsf + 1
    BY Frames DEF Rests, Finish, Ident, Forget, Tick, air, queue, vars
  <2> QED BY <2>1, <2>2
<1>1. ASSUME NEW c \in Known' PROVE cmd'[c].nonce \div MaxCmd \in Nat /\ cmd'[c].nonce \div MaxCmd <= tsf
  <2>1. CASE c \in Known /\ cmd'[c] = cmd[c]
    <3>1. cmd[c].nonce \in Nat
      BY <2>1, KnownIs DEF Base, Typed, Commands
    <3> QED BY <2>1, <3>1, Ticks DEF Monotone
  <2>2. CASE cmd'[c].nonce = 0
    <3>1. 0 \div MaxCmd = 0
      BY Sizes
    <3> QED BY <1>0, <2>2, <3>1
  <2>3. CASE cmd'[c].nonce \div MaxCmd = tsf
    BY <1>0, <2>3
  <2>4. CASE UNCHANGED cmd
    BY <2>1, <2>4 DEF Known
  <2>5. CASE Stamps
    BY <2>1, <2>2, <2>5, StampStep DEF Stamps
  <2>6. CASE Injects
    BY <2>1, <2>2, <2>6, InjectStep DEF Injects
  <2>7. CASE Seals
    <3>1. PICK k \in Console : Seal(k)
      BY <2>7 DEF Seals
    <3>2. /\ Known' = Known /\ \A d \in Known \ {task[k].cmd} : cmd'[d] = cmd[d]
          /\ cmd'[task[k].cmd].nonce = tsf * MaxCmd + Cardinality(InTick(tsf))
          /\ (tsf * MaxCmd + Cardinality(InTick(tsf))) \div MaxCmd = tsf
      BY <3>1, SealStep
    <3>3. c = task[k].cmd \/ cmd'[c] = cmd[c]
      BY <3>2
    <3> QED BY <2>1, <2>3, <3>2, <3>3
  <2> QED BY <2>4, <2>5, <2>6, <2>7, Frames
<1>2. ASSUME NEW c \in Known' PROVE cmd'[c].nonce \div MaxCmd <= tsf'
  BY <1>0, <1>1
<1> QED BY <1>2 DEF Monotone

LEMMA ClockedStep ==
    ASSUME Base, PeersFit, ClockOrMemory, Clocked, [Next]_vars PROVE Clocked'
<1>0. disturb \in Nat
  BY Sizes DEF Base, Typed, WorldTyped
<1>1. CASE Fails
  <2>1. /\ Fragile # {} /\ UNCHANGED <<tsf, cmd>> /\ disturb' = disturb + 1 /\ disturb < MaxDisturb
    BY <1>1, FailStep DEF Fails
  <2>2. Monotone
    <3>1. CASE "reset" \notin Troubles
      BY <3>1 DEF Clocked
    <3>2. CASE MaxDisturb = 1
      <4>1. disturb = 0
        BY <1>0, <2>1, <3>2
      <4> QED BY <4>1 DEF Clocked
    <3> QED BY <2>1, <3>1, <3>2 DEF ClockOrMemory
  <2>3. Monotone'
    BY <2>1, <2>2 DEF Monotone, Known
  <2>4. disturb' # 0
    BY <1>0, <2>1
  <2> QED BY <2>1, <2>3, <2>4 DEF Clocked
<1>2. CASE TsfReset
  <2>1. "reset" \in Troubles /\ disturb' = disturb + 1 /\ disturb < MaxDisturb
    BY <1>2 DEF TsfReset, Disturb
  <2>2. Remembered
    <3>1. CASE Fragile = {}
      BY <3>1 DEF Clocked
    <3>2. CASE MaxDisturb = 1
      <4>1. disturb = 0
        BY <1>0, <2>1, <3>2
      <4> QED BY <4>1 DEF Clocked
    <3> QED BY <2>1, <3>1, <3>2 DEF ClockOrMemory
  <2>3. UNCHANGED <<queued, ran, cmd, rt>>
    BY <1>2 DEF TsfReset, air, queue
  <2>4. Remembered'
    BY <2>2, <2>3 DEF Remembered, Taken
  <2>5. disturb' # 0
    BY <1>0, <2>1
  <2> QED BY <2>1, <2>4, <2>5 DEF Clocked
<1>3. CASE ~Fails /\ ~TsfReset
  <2>1. /\ Remembered => Remembered'
        /\ Monotone => Monotone'
    BY <1>3, RememberedStep, MonotoneStep
  <2>2. disturb' = 0 => disturb = 0
    <3>1. disturb' = disturb \/ disturb' = disturb + 1
      BY <1>3, Frames
      DEF Injects, Inject, Rests, Finish, Ident, Forget, Tick, Disturb, vars
    <3> QED BY <1>0, <3>1
  <2> QED BY <2>1, <2>2 DEF Clocked
<1> QED BY <1>1, <1>2, <1>3

\* Two of what a unit took or may get are rivals as long as they are there.
LEMMA RivalsKept ==
    ASSUME Base, [Next]_vars, NEW n \in Unit,
           NEW a \in Taken(n) \cup Pending(n), NEW b \in Taken(n) \cup Pending(n),
           Rivals(n, a, b)'
    PROVE  Rivals(n, a, b) /\ cmd'[a] = cmd[a] /\ cmd'[b] = cmd[b] /\ cmd[a].from \in Unit
<1>1. /\ cmd'[a].signed = cmd[a].signed /\ cmd'[b].signed = cmd[b].signed
      /\ cmd'[a].from = cmd[a].from /\ cmd'[b].from = cmd[b].from
      /\ cmd[a].signed /\ cmd[a].from # n => cmd'[a] = cmd[a]
      /\ cmd[b].signed /\ cmd[b].from # n => cmd'[b] = cmd[b]
      /\ a \in Known
  BY KeptNonces
<1>2. Rivals(n, a, b)
  BY <1>1 DEF Rivals
<1> QED BY <1>1, <1>2 DEF Rivals, Base, Typed, CmdTyped

\* The nonce of a command is a number.
LEMMA NonceIs ==
    ASSUME Base PROVE \A c \in Known : cmd[c].nonce \in Nat /\ cmd[c].at \in Nat
BY KnownIs DEF Base, Typed, Commands

LEMMA FreshStep ==
    ASSUME Base, PeersFit, Counted, Clocked, Fresh, [Next]_vars PROVE Fresh'
<1> SUFFICES ASSUME NEW n \in Unit, up'[n], NEW c \in Pending(n)', NEW d \in Taken(n)',
                    Rivals(n, c, d)'
             PROVE  cmd'[d].nonce <= cmd'[c].nonce \/ cmd'[c].nonce < rt'[n][cmd'[c].from]
  BY DEF Fresh
<1>0. rt \in [Unit -> [Unit -> Nat]] /\ up \in [Unit -> BOOLEAN]
  BY DEF Base, Typed, NoncesTyped, WorldTyped
<1>1. CASE c \in Pending(n) /\ d \in Taken(n)
  <2>1. /\ Rivals(n, c, d) /\ cmd'[c] = cmd[c] /\ cmd'[d] = cmd[d] /\ cmd[c].from \in Unit
    BY <1>1, RivalsKept
  <2>2. c \in Known /\ d \in Known
    BY <1>1, KeptNonces
  <2>3. up[n]
    BY <1>1, WasUp
  <2>4. cmd[d].nonce <= cmd[c].nonce \/ cmd[c].nonce < rt[n][cmd[c].from]
    BY <1>1, <2>1, <2>3 DEF Fresh
  <2>5. rt'[n][cmd[c].from] \in Nat /\ rt[n][cmd[c].from] <= rt'[n][cmd[c].from]
    BY <2>1, SlotsGrow
  <2>6. cmd[c].nonce \in Nat /\ rt[n][cmd[c].from] \in Nat
    BY <1>0, <2>1, <2>2, NonceIs
  <2> QED BY <2>1, <2>4, <2>5, <2>6
<1>2. CASE ~cmd'[c].signed
  BY <1>2 DEF Rivals
<1>3. ASSUME NEW k \in Console, c = task[k].cmd, Seal(k)
      PROVE  cmd'[d].nonce <= cmd'[c].nonce \/ cmd'[c].nonce < rt'[n][cmd'[c].from]
  <2>1. UNCHANGED <<queued, ran, rt>>
    BY <1>3 DEF Seal, air, queue
  <2>2. d \in Taken(n)
    BY <2>1 DEF Taken
  <2>3. /\ c \in Known /\ cmd'[c].from = cmd[c].from
        /\ cmd'[c].nonce = tsf * MaxCmd + Cardinality(InTick(tsf))
        /\ IsFiniteSet(InTick(tsf)) /\ cmd[c].from = Home[k]
    BY <1>3, SealStep
  <2>4. /\ d \in Known /\ cmd'[d] = cmd[d] /\ cmd[d].nonce # 0 /\ cmd[d].signed
        /\ cmd[d].from # n /\ cmd[d].from = cmd[c].from
    BY <2>2, <2>3, KeptNonces DEF Rivals
  <2>5. cmd[c].from \in Unit /\ cmd[d].nonce \in Nat
    BY <2>3, <2>4, NonceIs, Sizes
  <2>6. Cardinality(InTick(tsf)) \in Nat /\ tsf \in Nat /\ tsf * MaxCmd \in Nat
    BY <2>3, FS_CardinalityType, Sizes, SMTT(30) DEF Base, Typed, WorldTyped
  <2>7. CASE Monotone
    <3>1. cmd[d].nonce \div MaxCmd <= tsf /\ cmd[d].nonce \div MaxCmd \in Nat
      BY <2>4, <2>5, <2>7, Ticks DEF Monotone
    <3>2. CASE cmd[d].nonce \div MaxCmd = tsf
      <4>1. tsf # 0
        BY DEF Base, Typed, WorldTyped
      <4>2. cmd[d].nonce < tsf * MaxCmd + Cardinality(InTick(tsf))
        BY <2>4, <3>2, <4>1 DEF Counted
      <4> QED BY <2>3, <2>4, <2>5, <2>6, <4>2
    <3>3. CASE cmd[d].nonce \div MaxCmd # tsf
      <4>1. cmd[d].nonce \div MaxCmd < tsf
        BY <2>6, <3>1, <3>3
      <4>2. cmd[d].nonce < tsf * MaxCmd
        BY <2>5, <2>6, <4>1, Ticks
      <4> QED BY <2>3, <2>4, <2>5, <2>6, <4>2
    <3> QED BY <3>2, <3>3
  <2>8. CASE Remembered
    <3>1. cmd[d].nonce < rt[n][cmd[c].from]
      BY <2>2, <2>4, <2>8 DEF Remembered
    <3>2. rt[n][cmd[c].from] \in Nat /\ cmd'[c].nonce \in Nat
      BY <1>0, <2>3, <2>5, <2>6
    <3> QED BY <2>1, <2>3, <2>4, <2>5, <3>1, <3>2
  <2> QED BY <2>7, <2>8 DEF Clocked
<1>4. ASSUME c \in Pending(n), d \notin Taken(n), d \in Range(inbox[n]), Takes(n, d), Receive(n)
      PROVE  cmd'[d].nonce <= cmd'[c].nonce \/ cmd'[c].nonce < rt'[n][cmd'[c].from]
  <2>1. d \in Pending(n)
    BY <1>4 DEF Pending
  <2>2. /\ Rivals(n, c, d) /\ cmd'[c] = cmd[c] /\ cmd'[d] = cmd[d] /\ c \in Known /\ d \in Known
    BY <1>4, <2>1, RivalsKept, KeptNonces
  <2>3. cmd[c].nonce \in Nat /\ cmd[d].nonce \in Nat
    BY <2>2, NonceIs
  <2>4. rt'[n][cmd[d].from] = cmd[d].nonce + 1
    BY <1>4, <2>2, TakesNotes DEF Rivals
  <2> QED BY <2>2, <2>3, <2>4 DEF Rivals
<1>5. ASSUME d \in Known, cmd[d].from = n PROVE FALSE
  BY <1>5, KnownStep DEF Rivals
<1>6. CASE c \in Pending(n)
  BY <1>1, <1>4, <1>5, <1>6, QueueStep
<1> QED BY <1>2, <1>3, <1>6, PendingStep

\* What a step does to a unit's queue and to what it ran.
Asks(n, c) ==
    \/ cmd[c].from = n /\ \E k \in Console : DeferOwn(k) /\ task[k].cmd = c
    \/ c \in Range(inbox[n]) /\ Takes(n, c) /\ up[n]

Joins(n, c) == fq'[n] = Append(fq[n], c) /\ ran'[n] = ran[n] /\ Asks(n, c)

Leaves(n, i) ==
    /\ fq'[n] = RemoveAt(fq[n], i) /\ ran'[n] = Append(ran[n], fq[n][i])
    /\ cmd[fq[n][i]].at <= tsf
    /\ \A j \in DOMAIN fq[n] : j < i => ~(cmd[fq[n][j]].at <= tsf)

LEMMA Moves ==
    ASSUME Base, [Next]_vars, NEW n \in Unit
    PROVE  \/ fq'[n] = fq[n] /\ ran'[n] = ran[n]
           \/ fq'[n] = <<>> /\ ran'[n] = ran[n]
           \/ \E c \in Known : Joins(n, c)
           \/ \E i \in DOMAIN fq[n] : Leaves(n, i)
<1>1. CASE Defers
  <2>1. PICK k \in Console : DeferOwn(k)
    BY <1>1 DEF Defers
  <2>2. UNCHANGED ran
    BY <2>1 DEF DeferOwn, Defer, queue
  <2> DEFINE m == Home[k]
             c == task[k].cmd
  <2>3. /\ c \in Known /\ cmd[c].from = m /\ m \in Unit /\ (Defer(m, c) \/ UNCHANGED fq)
        /\ \E l \in Console : DeferOwn(l) /\ task[l].cmd = c
    <3>1. c \in Known /\ cmd[c].from = m /\ m \in Unit /\ (Defer(m, c) \/ UNCHANGED fq)
      BY <2>1, DeferOwnStep
    <3> QED BY <2>1, <3>1
  <2> HIDE DEF m, c
  <2>4. CASE Defer(m, c)
    <3>1. /\ fq'[m] = Append(fq[m], c) \/ fq'[m] = fq[m]
          /\ \A l \in Unit \ {m} : fq'[l] = fq[l]
      BY <2>3, <2>4, DeferStep DEF Base, Typed
    <3> QED BY <2>2, <2>3, <3>1 DEF Joins, Asks
  <2> QED BY <2>2, <2>3, <2>4
<1>2. CASE Receives
  <2>1. PICK m \in Unit : Receive(m)
    BY <1>2 DEF Receives
  <2>2. UNCHANGED ran
    BY <2>1 DEF Receive, Defer, queue
  <2>3. PICK c \in Known : /\ c \in Range(inbox[m]) /\ up[m]
                           /\ \/ Takes(m, c) /\ Defer(m, c)
                              \/ UNCHANGED <<fq, queued, dropped>>
    BY <2>1, ReceiveStep
  <2>4. CASE Takes(m, c) /\ Defer(m, c)
    <3>1. /\ fq'[m] = Append(fq[m], c) \/ fq'[m] = fq[m]
          /\ \A l \in Unit \ {m} : fq'[l] = fq[l]
      BY <2>3, <2>4, DeferStep DEF Base, Typed
    <3> QED BY <2>2, <2>3, <2>4, <3>1 DEF Joins, Asks
  <2> QED BY <2>2, <2>3, <2>4
<1>3. CASE Pops
  <2>1. PICK m \in Unit : PopDue(m)
    BY <1>3 DEF Pops
  <2>2. PICK i \in DOMAIN fq[m] :
             /\ cmd[fq[m][i]].at <= tsf
             /\ \A j \in DOMAIN fq[m] : j < i => ~(cmd[fq[m][j]].at <= tsf)
             /\ ran'[m] = Append(ran[m], fq[m][i]) /\ fq'[m] = RemoveAt(fq[m], i)
             /\ \A l \in Unit \ {m} : ran'[l] = ran[l] /\ fq'[l] = fq[l]
    BY <2>1, PopStep
  <2> QED BY <2>2 DEF Leaves
<1>4. CASE Fails
  BY <1>4, FailStep DEF Fails
<1>5. CASE UNCHANGED <<fq, ran>>
  BY <1>5
<1> QED BY <1>1, <1>2, <1>3, <1>4, <1>5, Frames

\* Elements of the queue and of what was run are taken.
LEMMA TakenIs ==
    ASSUME Base, NEW n \in Unit
    PROVE  /\ fq[n] \in Seq(Known) /\ ran[n] \in Seq(Known)
           /\ Range(fq[n]) \subseteq Taken(n) /\ Range(ran[n]) \subseteq Taken(n)
           /\ \A i \in DOMAIN fq[n] : fq[n][i] \in Taken(n) /\ fq[n][i] \in Known
           /\ \A i \in DOMAIN ran[n] : ran[n][i] \in Taken(n) /\ ran[n][i] \in Known
           /\ Taken(n) \subseteq Known
<1>1. /\ fq[n] \in Seq(Known) /\ ran[n] \in Seq(Known) /\ Range(fq[n]) \subseteq queued[n]
      /\ queued[n] \subseteq Known
  BY DEF Base, Typed, QueueTyped
<1>2. Range(fq[n]) \subseteq Taken(n) /\ Range(ran[n]) \subseteq Taken(n)
  BY <1>1 DEF Taken
<1>3. \A i \in DOMAIN fq[n] : fq[n][i] \in Range(fq[n]) /\ fq[n][i] \in Known
  BY <1>1 DEF Range
<1>4. \A i \in DOMAIN ran[n] : ran[n][i] \in Range(ran[n]) /\ ran[n][i] \in Known
  BY <1>1 DEF Range
<1>5. Taken(n) \subseteq Known
  BY <1>1, <1>4 DEF Taken, Range
<1> QED BY <1>1, <1>2, <1>3, <1>4, <1>5

\* What is once in the queue or once in what was run stays so, unless it joins again.
LEMMA OnceAtStep ==
    ASSUME Base, [Next]_vars, NEW n \in Unit, NEW c \in Known, OnceAt(n, c),
           c \in Taken(n) => ~Joins(n, c)
    PROVE  OnceAt(n, c)'
<1>0. /\ fq[n] \in Seq(Known) /\ ran[n] \in Seq(Known)
      /\ c \notin Taken(n) => c \notin Range(fq[n]) /\ c \notin Range(ran[n])
      /\ \A i, j \in DOMAIN fq[n] : fq[n][i] = c /\ fq[n][j] = c => i = j
      /\ \A i, j \in DOMAIN ran[n] : ran[n][i] = c /\ ran[n][j] = c => i = j
      /\ ~(c \in Range(fq[n]) /\ c \in Range(ran[n]))
  BY TakenIs DEF OnceAt
<1>1. ASSUME NEW s \in Seq(Known), NEW e \in Known, e = c => c \notin Range(s),
             \A i, j \in DOMAIN s : s[i] = c /\ s[j] = c => i = j
      PROVE  LET t == Append(s, e) IN
             /\ \A i, j \in DOMAIN t : t[i] = c /\ t[j] = c => i = j
             /\ Range(t) = Range(s) \cup {e}
  <2> DEFINE t == Append(s, e)
  <2>1. /\ \A i \in DOMAIN s : t[i] = s[i]
        /\ t[Len(s) + 1] = e
        /\ DOMAIN t = DOMAIN s \cup {Len(s) + 1}
        /\ Range(t) = Range(s) \cup {e}
    BY Appended
  <2>2. e = c => \A i \in DOMAIN s : s[i] # c
    BY <1>1 DEF Range
  <2> HIDE DEF t
  <2>3. ASSUME NEW i \in DOMAIN t, NEW j \in DOMAIN t, t[i] = c, t[j] = c PROVE i = j
    <3>1. CASE i \in DOMAIN s /\ j \in DOMAIN s
      BY <1>1, <2>1, <2>3, <3>1
    <3>2. CASE i \in DOMAIN s /\ j = Len(s) + 1
      BY <2>1, <2>2, <2>3, <3>2
    <3>3. CASE i = Len(s) + 1 /\ j \in DOMAIN s
      BY <2>1, <2>2, <2>3, <3>3
    <3> QED BY <2>1, <3>1, <3>2, <3>3
  <2> QED BY <2>1, <2>3 DEF t
<1>2. CASE fq'[n] = fq[n] /\ ran'[n] = ran[n]
  BY <1>0, <1>2 DEF OnceAt
<1>3. CASE fq'[n] = <<>> /\ ran'[n] = ran[n]
  BY <1>0, <1>3 DEF OnceAt, Range
<1>4. ASSUME NEW e \in Known, Joins(n, e) PROVE OnceAt(n, c)'
  <2> DEFINE t == Append(fq[n], e)
  <2>1. fq'[n] = t /\ ran'[n] = ran[n]
    BY <1>4 DEF Joins, Asks
  <2>2. e = c => c \notin Range(fq[n]) /\ c \notin Range(ran[n])
    BY <1>0, <1>4
  <2>3. /\ \A i, j \in DOMAIN t : t[i] = c /\ t[j] = c => i = j
        /\ Range(t) = Range(fq[n]) \cup {e}
    BY <1>0, <1>1, <2>2
  <2> HIDE DEF t
  <2> QED BY <1>0, <2>1, <2>2, <2>3 DEF OnceAt
<1>5. ASSUME NEW l \in DOMAIN fq[n], Leaves(n, l) PROVE OnceAt(n, c)'
  <2> DEFINE t == RemoveAt(fq[n], l)
             x == fq[n][l]
             p(y) == IF y < l THEN y ELSE y + 1
             r == Append(ran[n], x)
  <2>1. /\ t \in Seq(Known)
        /\ \A y \in DOMAIN t : t[y] = fq[n][p(y)]
        /\ \A y \in DOMAIN t : p(y) \in DOMAIN fq[n] \ {l}
    BY <1>0, Removed
  <2>2. fq'[n] = t /\ ran'[n] = r
    BY <1>5 DEF Leaves
  <2>3. x \in Range(fq[n]) /\ x \in Known /\ (x = c => c \notin Range(ran[n]))
    BY <1>0 DEF Range
  <2>4. /\ \A i, j \in DOMAIN r : r[i] = c /\ r[j] = c => i = j
        /\ Range(r) = Range(ran[n]) \cup {x}
    BY <1>0, <1>1, <2>3
  <2>5. l \in Nat /\ DOMAIN t \subseteq Nat
    <3> HIDE DEF t
    <3> QED BY <1>0, <2>1
  <2> HIDE DEF t, r
  <2>6. ASSUME NEW i \in DOMAIN t, NEW j \in DOMAIN t, t[i] = c, t[j] = c PROVE i = j
    <3>1. p(i) = p(j)
      BY <1>0, <2>1, <2>6
    <3>2. i \in Nat /\ j \in Nat
      BY <2>5
    <3> QED BY <2>5, <3>1, <3>2
  <2>7. c \in Range(t) => c \in Range(fq[n]) /\ x # c
    <3> HIDE DEF p
    <3> QED BY <1>0, <2>1 DEF Range
  <2>8. ~(c \in Range(t) /\ c \in Range(r))
    BY <1>0, <2>4, <2>7
  <2> QED BY <2>2, <2>4, <2>6, <2>8 DEF OnceAt
<1> QED BY <1>2, <1>3, <1>4, <1>5, Moves

\* A command that is new is nowhere yet.
LEMMA NewAtNone ==
    ASSUME Base, [Next]_vars, NEW n \in Unit, NEW c, c \notin Known PROVE OnceAt(n, c)'
<1>1. Base'
  BY BaseStep
<1>2. Taken(n)' \subseteq Known
  <2>1. Taken(n) \subseteq Known /\ Range(inbox[n]) \subseteq Known
    BY TakenIs DEF Base, Typed, InboxTyped, Range
  <2> QED BY <2>1, QueueStep
<1>3. Range(fq'[n]) \subseteq Taken(n)' /\ Range(ran'[n]) \subseteq Taken(n)'
  BY <1>1 DEF Taken, Base, Typed, QueueTyped
<1>4. c \notin Range(fq'[n]) /\ c \notin Range(ran'[n])
  BY <1>2, <1>3
<1> QED BY <1>4 DEF OnceAt, Range

\* What joins the queue is not older than its rivals there or among what was run.
LEMMA JoinsLast ==
    ASSUME Base, PeersFit, Fresh, NEW n \in Unit, NEW c \in Known, Joins(n, c),
           NEW d \in Taken(n), Rivals(n, c, d) \/ Rivals(n, d, c)
    PROVE  cmd[d].nonce <= cmd[c].nonce
<1>1. Rivals(n, c, d) /\ cmd[c].from # n /\ cmd[c].signed
  BY DEF Rivals
<1>2. c \in Range(inbox[n]) /\ Takes(n, c) /\ up[n]
  BY <1>1 DEF Joins, Asks
<1>3. ~(cmd[c].nonce < rt[n][cmd[c].from])
  BY <1>1, <1>2, Accepted
<1> QED BY <1>1, <1>2, <1>3 DEF Fresh, Pending

LEMMA InOrderStep ==
    ASSUME Base, PeersFit, Fresh, InOrder, [Next]_vars PROVE InOrder'
<1> SUFFICES ASSUME NEW n \in Unit, NEW i \in DOMAIN fq'[n], NEW j \in DOMAIN fq'[n], i < j,
                    NEW a, NEW b, a = fq'[n][i], b = fq'[n][j], Rivals(n, a, b)'
             PROVE  cmd'[a].nonce <= cmd'[b].nonce
  BY DEF InOrder, Rivals
<1>0. /\ fq[n] \in Seq(Known)
      /\ \A l \in DOMAIN fq[n] : fq[n][l] \in Taken(n)
  BY TakenIs
<1>1. ASSUME NEW x \in DOMAIN fq[n], NEW y \in DOMAIN fq[n], x < y, a = fq[n][x], b = fq[n][y]
      PROVE  cmd'[a].nonce <= cmd'[b].nonce
  <2>1. Rivals(n, a, b) /\ cmd'[a] = cmd[a] /\ cmd'[b] = cmd[b]
    BY <1>0, <1>1, RivalsKept
  <2> QED BY <1>1, <2>1 DEF InOrder
<1>2. CASE fq'[n] = fq[n]
  BY <1>1, <1>2
<1>3. CASE fq'[n] = <<>>
  BY <1>3
<1>4. ASSUME NEW c \in Known, Joins(n, c) PROVE cmd'[a].nonce <= cmd'[b].nonce
  <2>1. fq'[n] = Append(fq[n], c)
    BY <1>4 DEF Joins, Asks
  <2>2. /\ \A l \in DOMAIN fq[n] : Append(fq[n], c)[l] = fq[n][l]
        /\ Append(fq[n], c)[Len(fq[n]) + 1] = c
        /\ DOMAIN Append(fq[n], c) = DOMAIN fq[n] \cup {Len(fq[n]) + 1}
        /\ DOMAIN fq[n] = 1 .. Len(fq[n]) /\ Len(fq[n]) \in Nat
    BY <1>0, Appended
  <2>3. i \in DOMAIN fq[n] /\ a = fq[n][i]
    BY <2>1, <2>2
  <2>4. CASE j \in DOMAIN fq[n]
    BY <1>1, <2>1, <2>2, <2>3, <2>4
  <2>5. CASE j = Len(fq[n]) + 1
    <3>1. b = c /\ a \in Taken(n)
      BY <1>0, <2>1, <2>2, <2>3, <2>5
    <3>2. CASE cmd[c].from = n
      <4>1. cmd'[b].from = n /\ cmd'[a].from # n /\ cmd'[a].from = cmd'[b].from
        BY <3>1, <3>2, KnownStep DEF Rivals
      <4> QED BY <4>1
    <3>3. CASE c \in Range(inbox[n])
      <4>1. b \in Pending(n)
        BY <3>1, <3>3 DEF Pending
      <4>2. Rivals(n, a, b) /\ cmd'[a] = cmd[a] /\ cmd'[b] = cmd[b]
        BY <3>1, <4>1, RivalsKept
      <4>3. cmd[a].nonce <= cmd[b].nonce
        BY <1>4, <3>1, <4>2, JoinsLast
      <4> QED BY <4>2, <4>3
    <3> QED BY <1>4, <3>2, <3>3 DEF Joins, Asks
  <2> QED BY <2>1, <2>2, <2>4, <2>5
<1>5. ASSUME NEW l \in DOMAIN fq[n], Leaves(n, l) PROVE cmd'[a].nonce <= cmd'[b].nonce
  <2> DEFINE t == RemoveAt(fq[n], l)
             p(x) == IF x < l THEN x ELSE x + 1
  <2>1. /\ t \in Seq(Known)
        /\ \A x \in DOMAIN t : t[x] = fq[n][p(x)]
        /\ \A x \in DOMAIN t : p(x) \in DOMAIN fq[n] \ {l}
    BY <1>0, Removed
  <2>2. fq'[n] = t
    BY <1>5 DEF Leaves
  <2> HIDE DEF t
  <2>3. p(i) \in DOMAIN fq[n] /\ p(j) \in DOMAIN fq[n]
    BY <2>1, <2>2
  <2>4. p(i) < p(j)
    <3>1. l \in Nat /\ i \in Nat /\ j \in Nat
      BY <1>0, <2>1, <2>2
    <3> QED BY <3>1
  <2>5. a = fq[n][p(i)] /\ b = fq[n][p(j)]
    BY <2>1, <2>2
  <2> HIDE DEF p
  <2> QED BY <1>1, <2>3, <2>4, <2>5
<1> QED BY <1>2, <1>3, <1>4, <1>5, Moves

LEMMA NotOvertakenStep ==
    ASSUME Base, PeersFit, Fresh, InOrder, NotOvertaken, [Next]_vars PROVE NotOvertaken'
<1> SUFFICES ASSUME NEW n \in Unit, NEW a \in Range(fq'[n]), NEW b \in Range(ran'[n]),
                    Rivals(n, a, b)', cmd'[a].nonce < cmd'[b].nonce, cmd'[a].at <= cmd'[b].at
             PROVE  FALSE
  BY DEF NotOvertaken
<1>0. /\ fq[n] \in Seq(Known) /\ ran[n] \in Seq(Known)
      /\ Range(fq[n]) \subseteq Taken(n) /\ Range(ran[n]) \subseteq Taken(n) /\ Taken(n) \subseteq Known
      /\ \A l \in DOMAIN fq[n] : fq[n][l] \in Taken(n) /\ fq[n][l] \in Known
  BY TakenIs
<1>1. ASSUME a \in Taken(n), b \in Taken(n)
      PROVE  /\ Rivals(n, a, b) /\ cmd[a].nonce < cmd[b].nonce /\ cmd[a].at <= cmd[b].at
             /\ cmd[a].nonce \in Nat /\ cmd[b].nonce \in Nat /\ cmd[a].at \in Nat /\ cmd[b].at \in Nat
  <2>1. Rivals(n, a, b) /\ cmd'[a] = cmd[a] /\ cmd'[b] = cmd[b]
    BY <1>1, RivalsKept
  <2> QED BY <1>0, <1>1, <2>1, NonceIs
<1>2. CASE fq'[n] = fq[n] /\ ran'[n] = ran[n]
  BY <1>0, <1>1, <1>2 DEF NotOvertaken
<1>3. CASE fq'[n] = <<>>
  BY <1>3 DEF Range
<1>4. ASSUME NEW c \in Known, Joins(n, c) PROVE FALSE
  <2>1. fq'[n] = Append(fq[n], c) /\ ran'[n] = ran[n]
    BY <1>4 DEF Joins, Asks
  <2>2. Range(Append(fq[n], c)) = Range(fq[n]) \cup {c}
    BY <1>0, Appended
  <2>3. b \in Range(ran[n]) /\ b \in Taken(n)
    BY <1>0, <2>1
  <2>4. CASE a \in Range(fq[n])
    BY <1>0, <1>1, <2>3, <2>4 DEF NotOvertaken
  <2>5. CASE a = c
    <3>1. CASE cmd[c].from = n
      BY <2>5, <3>1, KnownStep DEF Rivals
    <3>2. CASE c \in Range(inbox[n])
      <4>1. c \in Pending(n)
        BY <3>2 DEF Pending
      <4>2. Rivals(n, a, b) /\ cmd'[a] = cmd[a] /\ cmd'[b] = cmd[b]
        BY <2>3, <2>5, <4>1, RivalsKept
      <4>3. cmd[b].nonce <= cmd[a].nonce
        BY <1>4, <2>3, <2>5, <4>2, JoinsLast
      <4>4. cmd[a].nonce \in Nat /\ cmd[b].nonce \in Nat
        BY <1>0, <2>3, <2>5, NonceIs
      <4> QED BY <4>2, <4>3, <4>4
    <3> QED BY <1>4, <3>1, <3>2 DEF Joins, Asks
  <2> QED BY <2>1, <2>2, <2>4, <2>5
<1>5. ASSUME NEW l \in DOMAIN fq[n], Leaves(n, l) PROVE FALSE
  <2> DEFINE t == RemoveAt(fq[n], l)
             x == fq[n][l]
             p(y) == IF y < l THEN y ELSE y + 1
  <2>1. /\ t \in Seq(Known)
        /\ \A y \in DOMAIN t : t[y] = fq[n][p(y)]
        /\ \A y \in DOMAIN t : p(y) \in DOMAIN fq[n] \ {l}
    BY <1>0, Removed
  <2>2. /\ fq'[n] = t /\ ran'[n] = Append(ran[n], x) /\ cmd[x].at <= tsf
        /\ \A j \in DOMAIN fq[n] : j < l => ~(cmd[fq[n][j]].at <= tsf)
    BY <1>5 DEF Leaves
  <2>3. PICK j \in DOMAIN fq[n] \ {l} : a = fq[n][j]
    <3> HIDE DEF t, p
    <3>1. PICK y \in DOMAIN t : a = t[y]
      BY <2>2 DEF Range
    <3> QED BY <2>1, <3>1
  <2>4. x \in Taken(n) /\ x \in Known /\ a \in Taken(n) /\ a \in Range(fq[n])
    BY <1>0, <2>3 DEF Range
  <2>5. b \in Range(ran[n]) \cup {x}
    BY <1>0, <2>2, <2>4, Appended
  <2>6. CASE b \in Range(ran[n])
    BY <1>0, <1>1, <2>4, <2>6 DEF NotOvertaken
  <2>7. CASE b = x
    <3>1. /\ Rivals(n, a, x) /\ cmd[a].nonce < cmd[x].nonce /\ cmd[a].at <= cmd[x].at
          /\ cmd[a].nonce \in Nat /\ cmd[x].nonce \in Nat /\ cmd[a].at \in Nat /\ cmd[x].at \in Nat
      BY <1>1, <2>4, <2>7
    <3>2. CASE j < l
      <4>1. ~(cmd[a].at <= tsf) /\ tsf \in Nat
        BY <2>2, <2>3, <3>2 DEF Base, Typed, WorldTyped
      <4> QED BY <2>2, <3>1, <4>1
    <3>3. CASE ~(j < l)
      <4>1. l < j
        BY <1>0, <2>3, <3>3
      <4>2. Rivals(n, x, a)
        BY <3>1 DEF Rivals
      <4>3. cmd[x].nonce <= cmd[a].nonce
        BY <2>3, <4>1, <4>2 DEF InOrder
      <4> QED BY <3>1, <4>3
    <3> QED BY <3>2, <3>3
  <2> QED BY <2>5, <2>6, <2>7
<1> QED BY <1>2, <1>3, <1>4, <1>5, Moves

LEMMA OrderKeptStep ==
    ASSUME Base, NotOvertaken, OrderKept, [Next]_vars PROVE OrderKept'
<1> SUFFICES ASSUME NEW n \in Unit, NEW i \in DOMAIN ran'[n], NEW j \in DOMAIN ran'[n],
                    NEW a, NEW b, a = ran'[n][i], b = ran'[n][j], Rivals(n, a, b)',
                    cmd'[a].nonce < cmd'[b].nonce, cmd'[a].at <= cmd'[b].at
             PROVE  i < j
  BY DEF OrderKept, Rivals
<1>0. /\ fq[n] \in Seq(Known) /\ ran[n] \in Seq(Known) /\ Taken(n) \subseteq Known
      /\ \A l \in DOMAIN fq[n] : fq[n][l] \in Taken(n)
      /\ \A l \in DOMAIN ran[n] : ran[n][l] \in Taken(n)
  BY TakenIs
<1>1. ASSUME a \in Taken(n), b \in Taken(n)
      PROVE  /\ Rivals(n, a, b) /\ cmd[a].nonce < cmd[b].nonce /\ cmd[a].at <= cmd[b].at
             /\ cmd[a].nonce \in Nat
  <2>1. Rivals(n, a, b) /\ cmd'[a] = cmd[a] /\ cmd'[b] = cmd[b]
    BY <1>1, RivalsKept
  <2> QED BY <1>0, <1>1, <2>1, NonceIs
<1>2. ASSUME i \in DOMAIN ran[n], j \in DOMAIN ran[n], a = ran[n][i], b = ran[n][j]
      PROVE  i < j
  <2>1. Rivals(n, a, b) /\ cmd[a].nonce < cmd[b].nonce /\ cmd[a].at <= cmd[b].at
    BY <1>0, <1>1, <1>2
  <2> QED BY <1>2, <2>1 DEF OrderKept, Rivals
<1>3. CASE ran'[n] = ran[n]
  BY <1>2, <1>3
<1>4. ASSUME NEW l \in DOMAIN fq[n], Leaves(n, l) PROVE i < j
  <2> DEFINE x == fq[n][l]
  <2>1. ran'[n] = Append(ran[n], x) /\ x \in Taken(n) /\ x \in Known /\ x \in Range(fq[n])
    BY <1>0, <1>4 DEF Leaves, Range
  <2>2. /\ \A y \in DOMAIN ran[n] : ran'[n][y] = ran[n][y]
        /\ ran'[n][Len(ran[n]) + 1] = x
        /\ DOMAIN ran'[n] = DOMAIN ran[n] \cup {Len(ran[n]) + 1}
        /\ DOMAIN ran[n] = 1 .. Len(ran[n]) /\ Len(ran[n]) \in Nat
    BY <1>0, <2>1, Appended
  <2> HIDE DEF x
  <2>3. CASE i \in DOMAIN ran[n] /\ j \in DOMAIN ran[n]
    BY <1>2, <2>2, <2>3
  <2>4. CASE i \in DOMAIN ran[n] /\ j = Len(ran[n]) + 1
    BY <2>2, <2>4
  <2>5. CASE i = Len(ran[n]) + 1 /\ j \in DOMAIN ran[n]
    <3>1. a = x /\ b = ran[n][j] /\ b \in Taken(n) /\ b \in Range(ran[n])
      BY <1>0, <2>2, <2>5 DEF Range
    <3>2. Rivals(n, a, b) /\ cmd[a].nonce < cmd[b].nonce /\ cmd[a].at <= cmd[b].at
      BY <1>1, <2>1, <3>1
    <3> QED BY <2>1, <3>1, <3>2 DEF NotOvertaken
  <2>6. CASE i = Len(ran[n]) + 1 /\ j = Len(ran[n]) + 1
    <3>1. a = x /\ b = x
      BY <2>2, <2>6
    <3>2. cmd[x].nonce < cmd[x].nonce /\ cmd[x].nonce \in Nat
      BY <1>1, <2>1, <3>1
    <3> QED BY <3>2
  <2> QED BY <2>2, <2>3, <2>4, <2>5, <2>6
<1> QED BY <1>3, <1>4, Moves DEF Joins, Asks

LEMMA OrderStep ==
    ASSUME Base, PeersFit, ClockOrMemory, Order, [Next]_vars PROVE Order'
BY CountedStep, ClockedStep, FreshStep, InOrderStep, NotOvertakenStep, OrderKeptStep DEF Order

---------------------------------------------------------------------------
(* Signed commands run once by their nonces alone. *)

\* A console is at its first step only right after it began.
LEMMA StillStamped ==
    ASSUME Base, [Next]_vars, NEW l \in Console, task'[l].at = "stamped"
    PROVE  task'[l] = task[l] \/ \E t \in Target : Stamp(l, t)
<1>1. CASE Stamps
  <2>1. PICK k \in Console, t \in Target : Stamp(k, t)
    BY <1>1 DEF Stamps
  <2>2. \A m \in Console \ {k} : task'[m] = task[m]
    BY <2>1, StampStep
  <2> QED BY <2>1, <2>2
<1>2. CASE Defers
  <2>1. PICK k \in Console : DeferOwn(k)
    BY <1>2 DEF Defers
  <2>2. task'[k].at = "deferred" /\ \A m \in Console \ {k} : task'[m] = task[m]
    BY <2>1, DeferOwnStep
  <2> QED BY <2>2
<1>3. CASE Loads
  <2>1. PICK k \in Console : LoadSeq(k)
    BY <1>3 DEF Loads
  <2>2. /\ task'[k] = [task[k] EXCEPT !.at = "loaded", !.seq = seqno[Home[k]] + 1]
        /\ task[k] \in Send
        /\ \A m \in Console \ {k} : task'[m] = task[m]
    BY <2>1 DEF LoadSeq, Base, Typed, TaskTyped
  <2>3. task'[k].at = "loaded"
    BY <2>2 DEF Send
  <2> QED BY <2>2, <2>3
<1>4. CASE Seals
  <2>1. PICK k \in Console : Seal(k)
    BY <1>4 DEF Seals
  <2>2. task'[k].at = "bursting" /\ \A m \in Console \ {k} : task'[m] = task[m]
    BY <2>1, SealStep
  <2> QED BY <2>2
<1>5. CASE Shoots
  <2>1. PICK k \in Console, R \in SUBSET Unit : Shot(k, R)
    BY <1>5 DEF Shoots
  <2>2. /\ task'[k].at = "idle" \/ task'[k].at = "bursting"
        /\ task' = [task EXCEPT ![k] = task'[k]]
    BY <2>1, ShotStep
  <2>3. \A m \in Console \ {k} : task'[m] = task[m]
    BY <2>2 DEF Base, Typed, TaskTyped
  <2> QED BY <2>2, <2>3
<1>6. CASE Fails
  <2>1. PICK n \in Unit : PowerLoss(n)
    BY <1>6 DEF Fails
  <2>2. task' = [k \in Console |-> IF Home[k] = n THEN Idle ELSE task[k]]
    BY <2>1 DEF PowerLoss
  <2> QED BY <2>2 DEF Idle
<1>7. CASE UNCHANGED task
  BY <1>7
<1> QED BY <1>1, <1>2, <1>3, <1>4, <1>5, <1>6, <1>7, Frames

LEMMA StampedStep ==
    ASSUME Base, Stamped, [Next]_vars PROVE Stamped'
<1> SUFFICES ASSUME NEW l \in Console, task'[l].at = "stamped", task'[l].cmd \in Taken(Home[l])'
             PROVE  FALSE
  BY DEF Stamped
<1> DEFINE n == Home[l]
<1>0. n \in Unit
  BY Sizes
<1>1. ASSUME NEW t \in Target, Stamp(l, t) PROVE FALSE
  <2>1. task'[l].cmd = New /\ New \notin Known
    BY <1>1, StampStep
  <2>2. UNCHANGED <<queued, ran>>
    BY <1>1 DEF Stamp, queue
  <2> QED BY <1>0, <2>1, <2>2, TakenIs DEF Taken
<1>2. CASE task'[l] = task[l]
  <2> DEFINE c == task[l].cmd
  <2>1. c \notin Taken(n) /\ c \in Taken(n)' /\ c \in Known /\ cmd[c].from = n
    BY <1>2 DEF Stamped, Base, Typed, TaskTyped, Senders
  <2>2. ~(c \in Range(inbox[n]) /\ Takes(n, c))
    BY <2>1 DEF Takes, ForMe
  <2>3. PICK k \in Console : DeferOwn(k)
    BY <1>0, <2>1, <2>2, QueueStep DEF Defers
  <2>4. /\ task[k].at = "stamped" /\ task'[k].at = "deferred" /\ Home[k] \in Unit
        /\ Defer(Home[k], task[k].cmd) \/ UNCHANGED <<fq, queued, dropped>>
        /\ task[k].cmd \in Known
    BY <2>3, DeferOwnStep
  <2>5. k # l /\ task[k].cmd # c
    BY <1>2, <2>4 DEF Base, Senders
  <2>6. UNCHANGED ran
    BY <2>3 DEF DeferOwn, Defer, queue
  <2>7. queued'[n] \subseteq queued[n] \cup {task[k].cmd}
    <3>1. CASE Defer(Home[k], task[k].cmd)
      <4>1. /\ queued'[Home[k]] = queued[Home[k]] \cup {task[k].cmd}
            /\ \A m \in Unit \ {Home[k]} : queued'[m] = queued[m]
        BY <2>4, <3>1, DeferStep DEF Base, Typed
      <4> QED BY <1>0, <4>1
    <3>2. CASE UNCHANGED queued
      BY <3>2
    <3> QED BY <2>4, <3>1, <3>2
  <2> QED BY <2>1, <2>5, <2>6, <2>7 DEF Taken
<1> QED BY <1>1, <1>2, StillStamped

LEMMA AnsweredStep ==
    ASSUME Base, PeersFit, Answered, [Next]_vars PROVE Answered'
<1> SUFFICES ASSUME NEW n \in Unit, up'[n], NEW c \in Taken(n)', c \in Pending(n)',
                    cmd'[c].signed, cmd'[c].from # n
             PROVE  cmd'[c].nonce < rt'[n][cmd'[c].from]
  BY DEF Answered
<1>1. CASE c \in Pending(n)
  <2>1. up[n] /\ c \in Known /\ cmd'[c] = cmd[c]
    BY <1>1, WasUp, KeptNonces
  <2>2. cmd[c].from \in Unit /\ cmd[c].nonce \in Nat
    BY <2>1, KnownIs DEF Base, Typed, CmdTyped, Commands
  <2>3. CASE c \in Taken(n)
    <3>1. cmd[c].nonce < rt[n][cmd[c].from]
      BY <1>1, <2>1, <2>3 DEF Answered
    <3>2. /\ rt[n][cmd[c].from] \in Nat /\ rt'[n][cmd[c].from] \in Nat
          /\ rt[n][cmd[c].from] <= rt'[n][cmd[c].from]
      BY <2>2, SlotsGrow
    <3> QED BY <2>1, <2>2, <3>1, <3>2
  <2>4. CASE c \in Range(inbox[n]) /\ Takes(n, c) /\ Receive(n) /\ c \notin Taken(n)
    <3>1. rt'[n][cmd[c].from] = cmd[c].nonce + 1
      BY <2>1, <2>4, TakesNotes
    <3> QED BY <2>1, <2>2, <3>1
  <2> QED BY <2>1, <2>3, <2>4, QueueStep
<1>2. ASSUME NEW k \in Console, c = task[k].cmd, Seal(k) PROVE FALSE
  <2>1. cmd[c].nonce = 0 /\ cmd[c].signed /\ cmd'[c].from = cmd[c].from
    BY <1>2, SealStep
  <2>2. UNCHANGED <<queued, ran>>
    BY <1>2 DEF Seal, queue
  <2>3. c \in Taken(n)
    BY <2>2 DEF Taken
  <2> QED BY <2>1, <2>3, KeptNonces
<1> QED BY <1>1, <1>2, PendingStep

\* What is queued was neither queued nor run before.
LEMMA AsksNew ==
    ASSUME Base, PeersFit, SignedOnce, NEW n \in Unit, NEW c \in Known, cmd[c].signed, Asks(n, c)
    PROVE  c \notin Taken(n)
<1>1. ASSUME NEW k \in Console, DeferOwn(k), task[k].cmd = c, cmd[c].from = n
      PROVE  c \notin Taken(n)
  BY <1>1, DeferOwnStep DEF SignedOnce, Stamped
<1>2. ASSUME c \in Range(inbox[n]), Takes(n, c), up[n] PROVE c \notin Taken(n)
  <2>1. cmd[c].from # n /\ ~(cmd[c].nonce < rt[n][cmd[c].from])
    BY <1>2, Accepted DEF Takes, ForMe
  <2> QED BY <1>2, <2>1 DEF SignedOnce, Answered, Pending
<1> QED BY <1>1, <1>2 DEF Asks

LEMMA SignedDistinctStep ==
    ASSUME Base, PeersFit, SignedOnce, [Next]_vars PROVE SignedDistinct'
<1> SUFFICES ASSUME NEW n \in Unit, NEW c \in Known', cmd'[c].signed PROVE OnceAt(n, c)'
  BY DEF SignedDistinct
<1>1. CASE c \in Known
  <2>1. cmd[c].signed /\ OnceAt(n, c)
    BY <1>1, KnownStep DEF SignedOnce, SignedDistinct
  <2>2. c \in Taken(n) => ~Joins(n, c)
    BY <1>1, <2>1, AsksNew DEF Joins
  <2> QED BY <1>1, <2>1, <2>2, OnceAtStep
<1>2. CASE c \notin Known
  BY <1>2, NewAtNone
<1> QED BY <1>1, <1>2

LEMMA SignedOnceStep ==
    ASSUME Base, PeersFit, SignedOnce, [Next]_vars PROVE SignedOnce'
BY StampedStep, AnsweredStep, SignedDistinctStep DEF SignedOnce

LEMMA NoGuestsStep ==
    ASSUME Base, NoGuests, [Next]_vars PROVE NoGuests'
<1> SUFFICES ASSUME "inject" \notin Troubles, NEW c \in Known' PROVE cmd'[c].signed
  BY DEF NoGuests
<1>1. CASE c \in Known
  BY <1>1, KnownStep DEF NoGuests
<1>2. CASE c \notin Known
  <2>1. CASE Stamps
    BY <1>2, <2>1, StampStep DEF Stamps
  <2>2. CASE Seals
    BY <1>2, <2>2, SealStep DEF Seals
  <2>3. CASE Injects
    BY <2>3, InjectStep DEF Injects
  <2>4. CASE UNCHANGED cmd
    BY <1>2, <2>4 DEF Known
  <2> QED BY <2>1, <2>2, <2>3, <2>4, Frames
<1> QED BY <1>1, <1>2

---------------------------------------------------------------------------
(* What is reported as queued is lost to a full queue only. *)

\* What a step does to the queue of one unit and to what it reported.
LEMMA QueuesWhat ==
    ASSUME Base, [Next]_vars, NEW n \in Unit
    PROVE  \/ /\ fq'[n] = fq[n] /\ ran'[n] = ran[n]
              /\ queued'[n] = queued[n] /\ dropped'[n] = dropped[n]
           \/ queued'[n] = {} /\ dropped'[n] = {}
           \/ \E c \in Known : Defer(n, c) /\ Asks(n, c) /\ ran'[n] = ran[n]
           \/ /\ queued'[n] = queued[n] /\ dropped'[n] = dropped[n]
              /\ \E i \in DOMAIN fq[n] : Leaves(n, i)
<1>1. CASE Defers
  <2>1. PICK k \in Console : DeferOwn(k)
    BY <1>1 DEF Defers
  <2>2. UNCHANGED ran
    BY <2>1 DEF DeferOwn, Defer, queue
  <2>3. /\ task[k].cmd \in Known /\ cmd[task[k].cmd].from = Home[k] /\ Home[k] \in Unit
        /\ Defer(Home[k], task[k].cmd) \/ UNCHANGED <<fq, queued, dropped>>
    BY <2>1, DeferOwnStep
  <2>4. CASE Defer(Home[k], task[k].cmd)
    <3>1. CASE n = Home[k]
      BY <2>1, <2>2, <2>3, <2>4, <3>1 DEF Asks
    <3>2. CASE n # Home[k]
      <4>1. fq'[n] = fq[n] /\ queued'[n] = queued[n] /\ dropped'[n] = dropped[n]
        BY <2>3, <2>4, <3>2, DeferStep DEF Base, Typed
      <4> QED BY <2>2, <4>1
    <3> QED BY <3>1, <3>2
  <2> QED BY <2>2, <2>3, <2>4
<1>2. CASE Receives
  <2>1. PICK m \in Unit : Receive(m)
    BY <1>2 DEF Receives
  <2>2. UNCHANGED ran
    BY <2>1 DEF Receive, Defer, queue
  <2>3. PICK c \in Known : /\ c \in Range(inbox[m]) /\ up[m]
                           /\ \/ Takes(m, c) /\ Defer(m, c)
                              \/ UNCHANGED <<fq, queued, dropped>>
    BY <2>1, ReceiveStep
  <2>4. CASE Takes(m, c) /\ Defer(m, c)
    <3>1. CASE n = m
      BY <2>2, <2>3, <2>4, <3>1 DEF Asks
    <3>2. CASE n # m
      <4>1. fq'[n] = fq[n] /\ queued'[n] = queued[n] /\ dropped'[n] = dropped[n]
        BY <2>3, <2>4, <3>2, DeferStep DEF Base, Typed
      <4> QED BY <2>2, <4>1
    <3> QED BY <3>1, <3>2
  <2> QED BY <2>2, <2>3, <2>4
<1>3. CASE Pops
  <2>1. PICK m \in Unit : PopDue(m)
    BY <1>3 DEF Pops
  <2>2. PICK i \in DOMAIN fq[m] :
             /\ cmd[fq[m][i]].at <= tsf
             /\ \A j \in DOMAIN fq[m] : j < i => ~(cmd[fq[m][j]].at <= tsf)
             /\ ran'[m] = Append(ran[m], fq[m][i]) /\ fq'[m] = RemoveAt(fq[m], i)
             /\ \A l \in Unit \ {m} : ran'[l] = ran[l] /\ fq'[l] = fq[l]
             /\ queued' = queued /\ dropped' = dropped
    BY <2>1, PopStep
  <2> QED BY <2>2 DEF Leaves
<1>4. CASE Fails
  <2>1. PICK m \in Unit : PowerLoss(m)
    BY <1>4 DEF Fails
  <2>2. /\ queued'[m] = {} /\ dropped'[m] = {} /\ ran' = ran
        /\ \A l \in Unit \ {m} : fq'[l] = fq[l] /\ queued'[l] = queued[l] /\ dropped'[l] = dropped[l]
    BY <2>1, FailStep
  <2> QED BY <2>2
<1>5. CASE UNCHANGED <<fq, queued, dropped, ran>>
  BY <1>5
<1> QED BY <1>1, <1>2, <1>3, <1>4, <1>5, Frames

\* As many different commands wait as the queue is long.
LEMMA WaitingAre ==
    ASSUME NEW s \in Seq(Known), \A i, j \in DOMAIN s : s[i] = s[j] => i = j
    PROVE  IsFiniteSet(Range(s)) /\ Cardinality(Range(s)) = Len(s)
<1>1. Len(s) \in Nat /\ DOMAIN s = 1 .. Len(s) /\ s \in [1 .. Len(s) -> Known]
  OBVIOUS
<1>2. IsFiniteSet(1 .. Len(s)) /\ Cardinality(1 .. Len(s)) = Len(s)
  BY SMTT(30), <1>1, FS_Interval
<1>3. s \in [1 .. Len(s) -> Range(s)]
  BY <1>1 DEF Range
<1>4. s \in Bijection(1 .. Len(s), Range(s))
  BY <1>1, <1>3 DEF Bijection, Injection, IsInjective, Surjection, Range
<1>5. ExistsBijection(1 .. Len(s), Range(s))
  BY <1>4 DEF ExistsBijection
<1> QED BY <1>2, <1>5, FS_Bijection

\* A full queue holds QueueMax commands, none of them the one it turns away.
LEMMA FullQueue ==
    ASSUME Base, PeersFit, "inject" \notin Troubles, NoGuests, SignedOnce,
           NEW n \in Unit, NEW c \in Known, Asks(n, c), Len(fq[n]) = QueueMax
    PROVE  Cardinality(Range(fq[n]) \ {c}) = QueueMax
<1>1. fq[n] \in Seq(Known) /\ Range(fq[n]) \subseteq Taken(n)
      /\ \A i \in DOMAIN fq[n] : fq[n][i] \in Known
  BY TakenIs
<1>2. ASSUME NEW i \in DOMAIN fq[n], NEW j \in DOMAIN fq[n], fq[n][i] = fq[n][j] PROVE i = j
  <2>1. fq[n][i] \in Known /\ cmd[fq[n][i]].signed
    BY <1>1 DEF NoGuests
  <2>2. OnceAt(n, fq[n][i])
    BY <2>1 DEF SignedOnce, SignedDistinct
  <2> QED BY <1>2, <2>2 DEF OnceAt
<1>3. Cardinality(Range(fq[n])) = QueueMax
  BY <1>1, <1>2, WaitingAre
<1>4. cmd[c].signed
  BY DEF NoGuests
<1>5. c \notin Range(fq[n])
  BY <1>1, <1>4, AsksNew
<1>6. Range(fq[n]) \ {c} = Range(fq[n])
  BY <1>5
<1> QED BY <1>3, <1>6

LEMMA QueuedIsKeptStep ==
    ASSUME Base, PeersFit, "inject" \notin Troubles, NoGuests, SignedOnce, QueuedIsKept, [Next]_vars
    PROVE  QueuedIsKept'
<1> DEFINE Kept(n) == queued[n] \subseteq Range(fq[n]) \cup Range(ran[n]) \cup dropped[n]
           Full(n) == \A c \in dropped[n] : Cardinality(queued[n] \ {c}) >= QueueMax
<1> SUFFICES ASSUME NEW n \in Unit PROVE Kept(n)' /\ Full(n)'
  BY DEF QueuedIsKept
<1>0. /\ fq[n] \in Seq(Known) /\ ran[n] \in Seq(Known) /\ Range(fq[n]) \subseteq queued[n]
      /\ Kept(n) /\ Full(n) /\ QueueTyped
  BY TakenIs DEF QueuedIsKept, Base, Typed, QueueTyped
<1>1. CASE /\ fq'[n] = fq[n] /\ ran'[n] = ran[n]
           /\ queued'[n] = queued[n] /\ dropped'[n] = dropped[n]
  BY <1>0, <1>1
<1>2. CASE queued'[n] = {} /\ dropped'[n] = {}
  BY <1>2
<1>3. ASSUME NEW c \in Known, Defer(n, c), Asks(n, c), ran'[n] = ran[n] PROVE Kept(n)' /\ Full(n)'
  <2>1. /\ queued'[n] = queued[n] \cup {c}
        /\ \/ fq'[n] = Append(fq[n], c) /\ dropped'[n] = dropped[n]
           \/ /\ Len(fq[n]) = QueueMax /\ fq'[n] = fq[n]
              /\ dropped'[n] = dropped[n] \cup {c}
    BY <1>0, <1>3, DeferStep
  <2>2. Kept(n)'
    <3>1. Range(Append(fq[n], c)) = Range(fq[n]) \cup {c}
      BY <1>0, Appended
    <3> QED BY <1>0, <1>3, <2>1, <3>1
  <2>3. ASSUME NEW d \in dropped'[n] PROVE Cardinality(queued'[n] \ {d}) >= QueueMax
    <3>1. IsFiniteSet(queued'[n] \ {d}) /\ QueueMax \in Nat
      <4>1. IsFiniteSet(Known) /\ QueueMax \in Nat
        BY KnownIs, Sizes DEF Base, Typed
      <4>2. queued[n] \subseteq Known
        BY <1>0 DEF QueueTyped
      <4>3. queued'[n] \ {d} \in SUBSET Known
        BY <2>1, <4>2
      <4> QED BY <4>1, <4>3, FS_Subset
    <3>2. \A T \in SUBSET (queued'[n] \ {d}) :
            /\ Cardinality(T) <= Cardinality(queued'[n] \ {d})
            /\ Cardinality(T) \in Nat /\ Cardinality(queued'[n] \ {d}) \in Nat
      BY <3>1, FS_Subset, FS_CardinalityType
    <3>3. CASE d \in dropped[n]
      <4>1. Cardinality(queued[n] \ {d}) >= QueueMax
        BY <1>0, <3>3
      <4>2. queued[n] \ {d} \subseteq queued'[n] \ {d}
        BY <2>1
      <4>3. /\ Cardinality(queued[n] \ {d}) <= Cardinality(queued'[n] \ {d})
            /\ Cardinality(queued[n] \ {d}) \in Nat /\ Cardinality(queued'[n] \ {d}) \in Nat
        BY <3>2, <4>2
      <4> QED BY <3>1, <4>1, <4>3
    <3>4. CASE d = c /\ Len(fq[n]) = QueueMax
      <4>1. Cardinality(Range(fq[n]) \ {c}) = QueueMax
        BY <1>3, <3>4, FullQueue
      <4>2. Range(fq[n]) \ {c} \subseteq queued'[n] \ {d}
        BY <1>0, <2>1, <3>4
      <4>3. /\ Cardinality(Range(fq[n]) \ {c}) <= Cardinality(queued'[n] \ {d})
            /\ Cardinality(queued'[n] \ {d}) \in Nat
        BY <3>2, <4>2
      <4> QED BY <3>1, <4>1, <4>3
    <3> QED BY <2>1, <3>3, <3>4
  <2> QED BY <2>2, <2>3
<1>4. ASSUME queued'[n] = queued[n], dropped'[n] = dropped[n], NEW i \in DOMAIN fq[n], Leaves(n, i)
      PROVE  Kept(n)' /\ Full(n)'
  <2> DEFINE t == RemoveAt(fq[n], i)
             x == fq[n][i]
  <2>1. /\ t \in Seq(Known)
        /\ \A j \in DOMAIN fq[n] \ {i} : \E l \in DOMAIN t : t[l] = fq[n][j]
    <3>1. \A s \in Seq(Known) : \A k \in DOMAIN s :
            /\ RemoveAt(s, k) \in Seq(Known)
            /\ \A j \in DOMAIN s \ {k} :
                 \E l \in DOMAIN RemoveAt(s, k) : RemoveAt(s, k)[l] = s[j]
      BY Removed
    <3> QED BY <1>0, <3>1
  <2>2. fq'[n] = t /\ ran'[n] = Append(ran[n], x)
    BY <1>4 DEF Leaves
  <2>3. x \in Known
    BY <1>0
  <2>4. Range(Append(ran[n], x)) = Range(ran[n]) \cup {x}
    BY <1>0, <2>3, Appended
  <2> HIDE DEF t
  <2>5. Range(fq[n]) \subseteq Range(t) \cup {x}
    BY <2>1 DEF Range
  <2>6. Kept(n)'
    BY <1>0, <1>4, <2>2, <2>4, <2>5
  <2> QED BY <1>0, <1>4, <2>6
<1> QED BY <1>1, <1>2, <1>3, <1>4, QueuesWhat

---------------------------------------------------------------------------
(* The theorems. *)

LEMMA InitInv ==
    ASSUME Init PROVE Inv
<1> USE DEF Init
<1>1. Known = {} /\ CmdTyped
  BY Sizes DEF Known, CmdTyped
<1>2. Idle \in Send /\ Idle.at = "idle"
  BY Sizes DEF Idle, Send, Steps
<1>3. TaskTyped /\ \A k \in Console : task[k].at = "idle"
  BY <1>2 DEF TaskTyped
<1>4. Range(<<>>) = {} /\ Len(<<>>) = 0 /\ <<>> \in Seq(Known) /\ DOMAIN <<>> = {}
  BY DEF Range
<1>5. QueueTyped
  BY <1>4, Sizes DEF QueueTyped, None
<1>6. InboxTyped
  BY <1>4 DEF InboxTyped
<1>7. SeenTyped
  BY <1>4, Sizes DEF SeenTyped
<1>8. \A n \in Unit : Slots(n) = {} /\ IsFiniteSet({}) /\ Cardinality({}) = 0
  BY FS_EmptySet DEF Slots
<1>9. NoncesTyped
  <2>1. 0 <= PeerMax
    BY Sizes
  <2>2. rt \in [Unit -> [Unit -> Nat]]
    BY DEF NoSlot
  <2> QED BY <1>8, <2>1, <2>2 DEF NoncesTyped
<1>10. WorldTyped
  BY Sizes DEF WorldTyped
<1>11. Senders
  BY <1>3 DEF Senders
<1>12. \A n \in Unit : Taken(n) = {} /\ Range(inbox[n]) = {}
  BY <1>4 DEF Taken
<1>13. Base
  BY <1>1, <1>3, <1>5, <1>6, <1>7, <1>9, <1>10, <1>11, <1>12 DEF Base, Typed, Sealed
<1>14. Order
  <2>1. Counted /\ Remembered /\ Monotone
    BY <1>1, <1>12 DEF Counted, Remembered, Monotone
  <2>2. Fresh /\ InOrder /\ NotOvertaken /\ OrderKept
    BY <1>4, <1>12 DEF Fresh, InOrder, NotOvertaken, OrderKept
  <2> QED BY <2>1, <2>2 DEF Order, Clocked
<1>15. QueuedIsKept
  BY <1>4 DEF QueuedIsKept
<1>16. NoGuests /\ SignedOnce
  BY <1>1, <1>3, <1>12 DEF NoGuests, SignedOnce, Stamped, Answered, SignedDistinct
<1> QED BY <1>13, <1>14, <1>15, <1>16 DEF Inv

LEMMA InvHolds == Spec => []Inv
<1>1. Init => Inv
  BY InitInv
<1>2. Inv /\ [Next]_vars => Inv'
  BY BaseStep, OrderStep, QueuedIsKeptStep, SignedOnceStep, NoGuestsStep
     DEF Inv
<1> QED BY <1>1, <1>2, PTL DEF Spec

LEMMA RanOnce ==
    ASSUME Base, \A n \in Unit : \A c \in Known : OnceAt(n, c) PROVE RunsOnce
<1> SUFFICES ASSUME NEW n \in Unit, NEW i \in DOMAIN ran[n], NEW j \in DOMAIN ran[n],
                    ran[n][i] = ran[n][j]
             PROVE  i = j
  BY DEF RunsOnce
<1>1. ran[n][i] \in Known
  BY TakenIs
<1> QED BY <1>1 DEF OnceAt

\* Every command, datagram, nonce slot, queue and ring stays what it is declared to be:
\* the bounded arrays of recv_task and fleet_exec_task are never indexed past their end.
THEOREM TypeCorrect == Spec => []TypeOK
<1>1. Inv => TypeOK
  BY BaseTypeOK DEF Inv
<1> QED BY <1>1, InvHolds, PTL

\* A receiver runs the signed commands of one sender in the order in which they were
\* signed, or in that of their deadlines: for any fleet whose units all get a slot for
\* their nonces, however bursts overlap and datagrams are lost, unless the access point's
\* clock restarts and a unit loses its memory.
THEOREM SignedOrder == PeersFit /\ ClockOrMemory => (Spec => []OrderKept)
<1>1. PeersFit /\ ClockOrMemory /\ Inv => OrderKept
  BY DEF Inv, Order
<1>2. ASSUME PeersFit, ClockOrMemory PROVE Inv => OrderKept
  BY <1>1, <1>2
<1>3. ASSUME PeersFit, ClockOrMemory PROVE Spec => []OrderKept
  BY <1>2, <1>3, InvHolds, PTL
<1> QED BY <1>3

\* What fleet_exec_task or recv_task printed as queued is in the queue or was run until the
\* unit loses power, or the queue turned it away, and then at least QueueMax other commands
\* had been queued: for any fleet whose units all get a slot for their nonces, any number of
\* commands and any loss, repetition and reset, where no peer injects unsigned commands.
THEOREM NothingQueuedLost == PeersFit /\ "inject" \notin Troubles => (Spec => []QueuedIsKept)
<1>1. PeersFit /\ "inject" \notin Troubles /\ Inv => QueuedIsKept
  BY DEF Inv
<1>2. ASSUME PeersFit, "inject" \notin Troubles PROVE Inv => QueuedIsKept
  BY <1>1, <1>2
<1>3. ASSUME PeersFit, "inject" \notin Troubles PROVE Spec => []QueuedIsKept
  BY <1>2, <1>3, InvHolds, PTL
<1> QED BY <1>3

\* Of the commands a sender signed no unit runs one twice, though the ring of commands seen
\* wraps and consoles, power, clock and pins do what they like: the nonces alone see to that
\* in a fleet whose units all get a slot for theirs.
SignedRunOnce ==
    \A n \in Unit : \A i, j \in DOMAIN ran[n] :
        ran[n][i] = ran[n][j] /\ cmd[ran[n][i]].signed => i = j

THEOREM SignedRunsOnce == PeersFit => (Spec => []SignedRunOnce)
<1>1. PeersFit /\ Inv => SignedRunOnce
  <2> SUFFICES ASSUME PeersFit, Inv, NEW n \in Unit, NEW i \in DOMAIN ran[n],
                      NEW j \in DOMAIN ran[n], ran[n][i] = ran[n][j], cmd[ran[n][i]].signed
               PROVE  i = j
    BY DEF SignedRunOnce
  <2>1. ran[n][i] \in Known
    BY TakenIs DEF Inv
  <2> QED BY <2>1 DEF Inv, SignedOnce, SignedDistinct, OnceAt
<1>2. ASSUME PeersFit PROVE Inv => SignedRunOnce
  BY <1>1, <1>2
<1>3. ASSUME PeersFit PROVE Spec => []SignedRunOnce
  BY <1>2, <1>3, InvHolds, PTL
<1> QED BY <1>3

\* Where no peer injects unsigned commands, that is every command: neither the ring nor the
\* number of commands matters then.
THEOREM RunsOnceByNonce == PeersFit /\ "inject" \notin Troubles => (Spec => []RunsOnce)
<1>1. PeersFit /\ "inject" \notin Troubles /\ Inv => RunsOnce
  <2> SUFFICES ASSUME PeersFit, "inject" \notin Troubles, Inv
               PROVE  \A n \in Unit : \A c \in Known : OnceAt(n, c)
    BY RanOnce DEF Inv
  <2> QED BY DEF Inv, NoGuests, SignedOnce, SignedDistinct
<1>2. ASSUME PeersFit, "inject" \notin Troubles PROVE Inv => RunsOnce
  BY <1>1, <1>2
<1>3. ASSUME PeersFit, "inject" \notin Troubles PROVE Spec => []RunsOnce
  BY <1>2, <1>3, InvHolds, PTL
<1> QED BY <1>3
=============================================================================
