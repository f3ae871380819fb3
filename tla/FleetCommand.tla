---------------------------- MODULE FleetCommand ----------------------------
(***************************************************************************)
(* Fleet commands over UDP broadcast (main/sync.c, type 3).                *)
(*                                                                         *)
(* A console of a conductor sends a line to the fleet: it stamps the       *)
(* deadline, queues the line for its own unit, takes a sequence number,    *)
(* signs, and broadcasts the same datagram three times.  Each unit's       *)
(* recv_task filters what arrives and queues it; its fleet_exec_task runs  *)
(* a queued line once the TSF clock, which the access point gives to every *)
(* unit, has reached the deadline.  Consoles of one unit (serial, ssh,     *)
(* Bluetooth) are tasks of their own and nothing serialises their sends.   *)
(* A bonded Bluetooth peer can have a panel inject an unsigned command.    *)
(***************************************************************************)
EXTENDS Naturals, FiniteSets, Sequences, SequencesExt

CONSTANTS
    Unit,        \* the units of the fleet; 0 is no unit
    Console,     \* the tasks that can send, all on conductors
    Home,        \* Home[k]: the unit console k belongs to
    Guest,       \* the name in the commands a Bluetooth peer injects
    Target,      \* the targets in use: units, or Everyone
    Burst,       \* shots of a burst (3)
    Echo,        \* whether a sender hears its own broadcasts
    MaxCmd,      \* bound on the commands sent
    Lead,        \* fleet_lead_us in ticks
    Window,      \* the ten seconds a nonce may be off, in ticks
    QueueMax,    \* FQ_N
    SeenMax,     \* slots of s_cmd_seen_seq
    PeerMax,     \* slots of rt, the senders whose last nonce is kept
    LastSend,    \* bound: no command starts after this tick
    Fragile,     \* the units that may lose power
    Troubles,    \* what the environment may do: "drop", "pins", "inject", "reset"
    MaxDisturb   \* bound on power losses, forgotten pins, injections, TSF resets

ASSUME UnitAssumption == Unit \subseteq Nat \ {0} /\ Fragile \subseteq Unit
ASSUME ConsoleAssumption == Home \in [Console -> Unit] /\ Guest \notin Unit \cup {0}
ASSUME TargetAssumption == Target \subseteq Unit \cup {0} /\ Echo \in BOOLEAN
ASSUME SizeAssumption == {Burst, MaxCmd, Lead, Window, QueueMax, SeenMax, PeerMax} \subseteq Nat \ {0}
ASSUME BoundAssumption == LastSend \in Nat \ {0} /\ MaxDisturb \in Nat

Everyone == 0                    \* the empty target
Cmd == 1 .. MaxCmd
None == 0                        \* no command
NoSlot == 0                      \* a sender without a slot in rt
MaxTime == LastSend + Lead       \* bound of the clock: by then every deadline has come

VARIABLES
    tsf,       \* the TSF clock
    task,      \* where each console is in whm_sync_fleet_send_to
    cmd,       \* the commands sent so far
    seqno,     \* s_cmd_seq
    up,        \* the unit has power
    pins,      \* the names whose identity a unit has pinned
    inbox,     \* datagrams in the socket's receive queue
    rt,        \* rt: per sender NoSlot, or 1 + the last nonce accepted
    seen,      \* s_cmd_seen_seq and s_cmd_seen_from, oldest first
    fq,        \* s_fq
    running,   \* what fleet_exec_task is running
    ran,       \* history: what it ran, in order
    queued,    \* history since power-up: what it printed as queued
    dropped,   \* history since power-up: what a full queue turned away of that
    disturb    \* how often the environment interfered

air == <<pins, inbox, rt, seen>>
queue == <<fq, running, ran, queued, dropped>>
vars == <<tsf, task, cmd, seqno, up, pins, inbox, rt, seen, fq, running, ran, queued, dropped,
          disturb>>

Idle == [at |-> "idle", cmd |-> None, seq |-> 0, shots |-> 0]
Steps == {"idle", "stamped", "deferred", "loaded", "bursting"}

\* A command with nonce 0 is not signed yet, or never: `signed` tells.
Commands == [from : Unit \cup {Guest}, target : Unit \cup {Everyone}, at : Nat,
             seq : Nat, nonce : Nat, signed : BOOLEAN]

\* Commands are numbered as they are sent.
New == Len(cmd) + 1
MayStart == New \in Cmd /\ tsf <= LastSend

-----------------------------------------------------------------------------
(* The deadline queue and its executor. *)

\* Mutant: the last place of the queue is never used.
DeferShort(n, c) ==
    /\ queued' = [queued EXCEPT ![n] = @ \cup {c}]
    /\ \/ /\ Len(fq[n]) < QueueMax - 1
          /\ fq' = [fq EXCEPT ![n] = Append(@, c)] /\ UNCHANGED dropped
       \/ /\ Len(fq[n]) = QueueMax - 1
          /\ dropped' = [dropped EXCEPT ![n] = @ \cup {c}] /\ UNCHANGED fq
    /\ UNCHANGED <<running, ran>>

\* whm_sync_defer_line: a full queue drops the line, the message is printed
\* either way.
Defer(n, c) ==
    /\ queued' = [queued EXCEPT ![n] = @ \cup {c}]
    /\ \/ /\ Len(fq[n]) < QueueMax
          /\ fq' = [fq EXCEPT ![n] = Append(@, c)] /\ UNCHANGED dropped
       \/ /\ Len(fq[n]) = QueueMax
          /\ dropped' = [dropped EXCEPT ![n] = @ \cup {c}] /\ UNCHANGED fq
    /\ UNCHANGED <<running, ran>>

\* whm_sync_pop_due: the first line in arrival order that is due, 0 if none.
FirstDue(n) == SelectInSeq(fq[n], LAMBDA c : cmd[c].at <= tsf)

\* fleet_exec_task takes a due line and calls esp_console_run.
PopDue(n) ==
    /\ up[n] /\ running[n] = None
    /\ LET i == FirstDue(n) IN
        /\ i # 0
        /\ running' = [running EXCEPT ![n] = fq[n][i]]
        /\ ran' = [ran EXCEPT ![n] = Append(@, fq[n][i])]
        /\ fq' = [fq EXCEPT ![n] = RemoveAt(@, i)]
    /\ UNCHANGED <<tsf, task, cmd, seqno, up, air, queued, dropped, disturb>>

\* esp_console_run returns; a command takes as long as it takes.
Finish(n) ==
    /\ up[n] /\ running[n] # None
    /\ running' = [running EXCEPT ![n] = None]
    /\ UNCHANGED <<tsf, task, cmd, seqno, up, air, fq, ran, queued, dropped, disturb>>

-----------------------------------------------------------------------------
(* whm_sync_fleet_send_to, run by console k. *)

At(k, step) == task[k].at = step /\ up[Home[k]]

\* The deadline is the clock plus the lead.
Stamp(k, target) ==
    /\ At(k, "idle") /\ MayStart
    /\ cmd' = Append(cmd, [from |-> Home[k], target |-> target, at |-> tsf + Lead,
                           seq |-> 0, nonce |-> 0, signed |-> TRUE])
    /\ task' = [task EXCEPT ![k] = [Idle EXCEPT !.at = "stamped", !.cmd = New]]
    /\ UNCHANGED <<tsf, seqno, up, air, queue, disturb>>

\* A command for everyone or for the sender itself is queued here first,
\* whether or not a datagram leaves later.
DeferOwn(k) ==
    /\ At(k, "stamped")
    /\ task' = [task EXCEPT ![k].at = "deferred"]
    /\ IF cmd[task[k].cmd].target \in {Everyone, Home[k]}
       THEN Defer(Home[k], task[k].cmd) ELSE UNCHANGED queue
    /\ UNCHANGED <<tsf, cmd, seqno, up, air, disturb>>

\* c.seq = ++s_cmd_seq is a load and a store, and the counter has no lock.
LoadSeq(k) ==
    /\ At(k, "deferred")
    /\ task' = [task EXCEPT ![k].at = "loaded", ![k].seq = seqno[Home[k]] + 1]
    /\ UNCHANGED <<tsf, cmd, seqno, up, air, queue, disturb>>

\* The TSF counts microseconds, so no two nonces are equal: MaxCmd of them
\* fit in a tick.
Nonce == tsf * MaxCmd + Cardinality({c \in DOMAIN cmd : cmd[c].nonce \div MaxCmd = tsf})

\* Mutant: the counter is not stored back.
SealKeepingSeq(k) ==
    /\ At(k, "loaded")
    /\ cmd' = [cmd EXCEPT ![task[k].cmd].seq = task[k].seq, ![task[k].cmd].nonce = Nonce]
    /\ task' = [task EXCEPT ![k].at = "bursting"]
    /\ UNCHANGED <<tsf, seqno, up, air, queue, disturb>>

\* The store, the nonce and the signature.
Seal(k) ==
    /\ At(k, "loaded")
    /\ seqno' = [seqno EXCEPT ![Home[k]] = task[k].seq]
    /\ cmd' = [cmd EXCEPT ![task[k].cmd].seq = task[k].seq, ![task[k].cmd].nonce = Nonce]
    /\ task' = [task EXCEPT ![k].at = "bursting"]
    /\ UNCHANGED <<tsf, up, air, queue, disturb>>

\* Who gets a broadcast of s: every powered unit, or some when datagrams are
\* lost.  A shot whose sendto failed reaches nobody.
Reaches(s, R) ==
    LET Listening == {n \in Unit : up[n] /\ (n # s \/ Echo)} IN
    IF "drop" \in Troubles THEN R \subseteq Listening ELSE R = Listening

\* c arrives over the air at R, and before that at the unit itself over loopback.
Arrive(c, loop, R) ==
    inbox' = [n \in Unit |-> inbox[n] \o [i \in 1 .. Cardinality({n} \cap loop) |-> c]
                                     \o [i \in 1 .. Cardinality({n} \cap R) |-> c]]

\* Mutant: a shot too many.
ShotOneMore(k, R) ==
    /\ At(k, "bursting") /\ Reaches(Home[k], R)
    /\ Arrive(task[k].cmd, {}, R)
    /\ task' = IF task[k].shots = Burst THEN [task EXCEPT ![k] = Idle]
               ELSE [task EXCEPT ![k].shots = @ + 1]
    /\ UNCHANGED <<tsf, cmd, seqno, up, pins, rt, seen, queue, disturb>>

\* One shot of the burst; after the last the console is done.
Shot(k, R) ==
    /\ At(k, "bursting") /\ Reaches(Home[k], R)
    /\ Arrive(task[k].cmd, {}, R)
    /\ task' = IF task[k].shots + 1 = Burst THEN [task EXCEPT ![k] = Idle]
               ELSE [task EXCEPT ![k].shots = @ + 1]
    /\ UNCHANGED <<tsf, cmd, seqno, up, pins, rt, seen, queue, disturb>>

-----------------------------------------------------------------------------
(* recv_task, type 3. *)

\* rt keeps a slot for the first PeerMax senders; the others go unchecked.
Slotted(n, s) == rt[n][s] # NoSlot \/ Cardinality({m \in Unit : rt[n][m] # NoSlot}) < PeerMax

\* The nonce is more than the window away from the clock.
Expired(c) ==
    LET signedAt == cmd[c].nonce \div MaxCmd IN
    signedAt > tsf + Window \/ signedAt + Window < tsf

\* Mutant: an older nonce passes.
StaleIfEqual(n, c) == cmd[c].nonce + 1 = rt[n][cmd[c].from] \/ Expired(c)

\* The nonce accepted last, an older one, or an expired one.
Stale(n, c) == cmd[c].nonce < rt[n][cmd[c].from] \/ Expired(c)

Pinned(n, c) == cmd[c].from \in pins[n]
Checked(n, c) == cmd[c].signed /\ Pinned(n, c) /\ Slotted(n, cmd[c].from)
Refused(n, c) == cmd[c].signed /\ (~Pinned(n, c) \/ (Checked(n, c) /\ Stale(n, c)))

\* The slot is taken before the nonce is looked at, and the nonce is kept
\* before the target and the sequence number are.
NoteNonce(n, c) ==
    rt' = IF ~Checked(n, c) THEN rt
          ELSE [rt EXCEPT ![n][cmd[c].from] = IF ~Stale(n, c) THEN cmd[c].nonce + 1
                                              ELSE IF @ = NoSlot THEN 1 ELSE @]

ForMe(n, c) == cmd[c].from # n /\ cmd[c].target \in {Everyone, n}

SeenKey(c) == <<cmd[c].from, cmd[c].seq>>
Duplicate(n, c) == SeenKey(c) \in Range(seen[n])

\* Mutant: the slot is not written.
ForgetSeen(n, c) == UNCHANGED seen

\* The ring keeps the last SeenMax commands.
NoteSeen(n, c) ==
    LET s == Append(seen[n], SeenKey(c)) IN
    seen' = [seen EXCEPT ![n] = IF Len(s) > SeenMax THEN Tail(s) ELSE s]

\* What passes every filter.
Takes(n, c) == ~Refused(n, c) /\ ForMe(n, c) /\ ~Duplicate(n, c)

\* The handler of one datagram, from recvfrom to `continue`.
Receive(n) ==
    /\ up[n] /\ inbox[n] # <<>>
    /\ inbox' = [inbox EXCEPT ![n] = Tail(@)]
    /\ LET c == Head(inbox[n]) IN
        /\ NoteNonce(n, c)
        /\ IF Takes(n, c) THEN NoteSeen(n, c) /\ Defer(n, c) ELSE UNCHANGED <<seen, queue>>
    /\ UNCHANGED <<tsf, task, cmd, seqno, up, pins, disturb>>

-----------------------------------------------------------------------------
(* The world around: time, identities, Bluetooth peers, power, the AP. *)

Tick ==
    /\ tsf < MaxTime /\ tsf' = tsf + 1
    /\ UNCHANGED <<task, cmd, seqno, up, air, queue, disturb>>

Disturb(what) ==
    /\ what \in Troubles \cup {"power"} /\ disturb < MaxDisturb
    /\ disturb' = disturb + 1

\* An IDENT beacon is pinned on first sight; `keys forget` drops the pin.
Ident(n, s) ==
    /\ up[n] /\ up[s] /\ s \notin pins[n]
    /\ pins' = [pins EXCEPT ![n] = @ \cup {s}]
    /\ UNCHANGED <<tsf, task, cmd, seqno, up, inbox, rt, seen, queue, disturb>>

Forget(n, s) ==
    /\ Disturb("pins") /\ up[n] /\ s \in pins[n]
    /\ pins' = [pins EXCEPT ![n] = @ \ {s}]
    /\ UNCHANGED <<tsf, task, cmd, seqno, up, inbox, rt, seen, queue>>

\* A Bluetooth peer hands panel n a new command, or one it handed to a panel
\* before: the panel gets it over loopback and broadcasts it once.
Inject(n, R) ==
    /\ Disturb("inject") /\ up[n] /\ Reaches(n, R)
    /\ \/ /\ MayStart
          /\ cmd' = Append(cmd, [from |-> Guest, target |-> Everyone, at |-> tsf + Lead,
                                 seq |-> New, nonce |-> 0, signed |-> FALSE])
          /\ Arrive(New, {n}, R)
       \/ \E c \in DOMAIN cmd : ~cmd[c].signed /\ Arrive(c, {n}, R) /\ UNCHANGED cmd
    /\ UNCHANGED <<tsf, task, seqno, up, pins, rt, seen, queue>>

\* Everything but NVS is gone.  s_cmd_seq restarts at a random number, which
\* is taken to be one the unit has not used: the counter goes on.
PowerLoss(n) ==
    /\ n \in Fragile /\ Disturb("power") /\ up[n]
    /\ up' = [up EXCEPT ![n] = FALSE]
    /\ task' = [k \in Console |-> IF Home[k] = n THEN Idle ELSE task[k]]
    /\ inbox' = [inbox EXCEPT ![n] = <<>>]
    /\ rt' = [rt EXCEPT ![n] = [s \in Unit |-> NoSlot]]
    /\ seen' = [seen EXCEPT ![n] = <<>>]
    /\ fq' = [fq EXCEPT ![n] = <<>>]
    /\ running' = [running EXCEPT ![n] = None]
    /\ queued' = [queued EXCEPT ![n] = {}]
    /\ dropped' = [dropped EXCEPT ![n] = {}]
    /\ UNCHANGED <<tsf, cmd, seqno, pins, ran>>

\* A boot takes longer than a burst.
Boot(n) ==
    /\ ~up[n] /\ \A k \in Console : task[k].at # "bursting"
    /\ up' = [up EXCEPT ![n] = TRUE]
    /\ UNCHANGED <<tsf, task, cmd, seqno, air, queue, disturb>>

\* The access point restarts, and its clock with it.
TsfReset ==
    /\ Disturb("reset") /\ tsf > 1 /\ tsf' = 1
    /\ UNCHANGED <<task, cmd, seqno, up, air, queue>>

-----------------------------------------------------------------------------
Init ==
    /\ tsf = 1
    /\ task = [k \in Console |-> Idle]
    /\ cmd = <<>>
    /\ seqno = [n \in Unit |-> 0]
    /\ up = [n \in Unit |-> TRUE]
    /\ pins = [n \in Unit |-> Unit]
    /\ inbox = [n \in Unit |-> <<>>]
    /\ rt = [n \in Unit |-> [s \in Unit |-> NoSlot]]
    /\ seen = [n \in Unit |-> <<>>]
    /\ fq = [n \in Unit |-> <<>>]
    /\ running = [n \in Unit |-> None]
    /\ ran = [n \in Unit |-> <<>>]
    /\ queued = [n \in Unit |-> {}]
    /\ dropped = [n \in Unit |-> {}]
    /\ disturb = 0

\* The steps of a send once it has begun.
Proceed(k) == DeferOwn(k) \/ LoadSeq(k) \/ Seal(k) \/ \E R \in SUBSET Unit : Shot(k, R)

Next ==
    \/ \E k \in Console : Proceed(k) \/ \E target \in Target : Stamp(k, target)
    \/ \E n \in Unit : Receive(n) \/ PopDue(n) \/ Finish(n) \/ PowerLoss(n) \/ Boot(n)
    \/ \E n, s \in Unit : Ident(n, s) \/ Forget(n, s)
    \/ \E n \in Unit, R \in SUBSET Unit : Inject(n, R)
    \/ Tick \/ TsfReset

\* The tasks run, commands return, time passes; nobody has to send anything.
Fairness ==
    /\ WF_vars(Tick)
    /\ \A k \in Console : WF_vars(Proceed(k))
    /\ \A n \in Unit : WF_vars(Receive(n)) /\ WF_vars(PopDue(n)) /\ WF_vars(Finish(n))

Spec == Init /\ [][Next]_vars /\ Fairness

-----------------------------------------------------------------------------
(* Properties *)

TypeOK ==
    /\ tsf \in 1 .. MaxTime
    /\ task \in [Console -> [at : Steps, cmd : Cmd \cup {None}, seq : Nat, shots : 0 .. Burst - 1]]
    /\ cmd \in Seq(Commands) /\ Len(cmd) <= MaxCmd
    /\ seqno \in [Unit -> Nat]
    /\ up \in [Unit -> BOOLEAN]
    /\ pins \in [Unit -> SUBSET Unit]
    /\ inbox \in [Unit -> Seq(Cmd)]
    /\ rt \in [Unit -> [Unit -> Nat]]
    /\ \A n \in Unit : Cardinality({s \in Unit : rt[n][s] # NoSlot}) <= PeerMax
    /\ seen \in [Unit -> Seq((Unit \cup {Guest}) \X Nat)]
    /\ \A n \in Unit : Len(seen[n]) <= SeenMax /\ Len(fq[n]) <= QueueMax
    /\ fq \in [Unit -> Seq(Cmd)]
    /\ running \in [Unit -> Cmd \cup {None}]
    /\ ran \in [Unit -> Seq(Cmd)]
    /\ queued \in [Unit -> SUBSET Cmd] /\ dropped \in [Unit -> SUBSET Cmd]
    /\ disturb \in 0 .. MaxDisturb

\* No unit runs a command twice, however often and along whichever path its
\* datagrams reach it (the bursts, the echo, injections at several panels).
RunsOnce == \A n \in Unit : \A i, j \in DOMAIN ran[n] : ran[n][i] = ran[n][j] => i = j

\* A receiver that runs two commands of one sender runs the one signed first
\* before the other, unless the other has the earlier deadline, even when the
\* shots of two consoles cross and the executor is busy past both deadlines.
OrderKept ==
    \A n \in Unit : \A i, j \in DOMAIN ran[n] :
        LET a == cmd[ran[n][i]]
            b == cmd[ran[n][j]]
        IN (/\ a.signed /\ b.signed /\ a.from = b.from /\ a.from # n
            /\ a.nonce < b.nonce /\ a.at <= b.at) => i < j

\* What a unit reported as queued is in its queue or was run, until the unit loses
\* power.  Only a full queue makes an exception (whm_sync_defer_line reports a line
\* and drops it then): at least QueueMax other commands were reported as well, so no
\* place of the queue is taken up by a repetition or wasted.
QueuedIsKept ==
    \A n \in Unit :
        /\ queued[n] \subseteq Range(fq[n]) \cup Range(ran[n]) \cup dropped[n]
        /\ \A c \in dropped[n] : Cardinality(queued[n] \ {c}) >= QueueMax

\* A command of which one shot went out is run by every unit it is for that
\* keeps its power.
RunsOnEveryNode ==
    \A c \in Cmd : \A n \in Unit \ Fragile :
        (/\ \E k \in Console : task[k].cmd = c /\ task[k].shots > 0
         /\ cmd[c].target \in {Everyone, n})
            ~> c \in Range(ran[n])
=============================================================================
