---------------------------- MODULE FirmwareUpdate ----------------------------
(***************************************************************************)
(* Updates over the network: whm_ota_from_url (ota.c) in the task that     *)
(* runs the command (cmd_ota in console.c), /fw on the unit it pulls from  *)
(* (h_fw in http_svc.c), the two program slots of each unit and the        *)
(* bootloader's choice between them.                                       *)
(*                                                                         *)
(* Each unit runs the program in one slot and writes the other.  `fleet    *)
(* ota <unit>' makes every unit pull from one that was flashed by cable;   *)
(* a console or an SSH session may start another update of the same unit   *)
(* meanwhile, from the same or another source, and nothing in ota.c        *)
(* notices: both erase and write the same slot.  A unit's one HTTP server  *)
(* serves one request at a time.                                           *)
(*                                                                         *)
(* A slot is Size blocks, each with the version it belongs to.  What the   *)
(* ESP-IDF does is external: esp_ota_end and esp_ota_set_boot_partition    *)
(* accept a slot that is whole, flash that is written twice keeps neither  *)
(* value, and the bootloader falls back to the other slot.                 *)
(***************************************************************************)
EXTENDS Integers

CONSTANTS
    Unit, Version,
    First,        \* First[u]: the version u was flashed with by cable
    Source,       \* the unit `fleet ota' names
    Task,         \* tasks that may run the command
    Home,         \* Home[k]: the unit of task k
    FleetTask,    \* those of them that run fleet commands
    Size,         \* blocks of a slot
    MaxAsk,       \* bound on updates asked for at a console
    MaxFault      \* bound on losses of power and connections, and on flash errors

ASSUME UpdateAssumption ==
    /\ Source \in Unit /\ Version \subseteq Nat \ {0} /\ First \in [Unit -> Version]
    /\ Home \in [Task -> Unit] /\ FleetTask \subseteq Task
    /\ \A k \in FleetTask : Home[k] # Source
    /\ Size \in Nat \ {0} /\ MaxAsk \in Nat /\ MaxFault \in Nat

VARIABLES
    flash,    \* flash[u][s][i]: block i of slot s
    run,      \* run[u]: the slot u runs from
    boot,     \* boot[u]: the slot otadata names
    task,     \* task[k]: where task k is in whm_ota_from_url
    asks, faults

vars == <<flash, run, boot, task, asks, faults>>

Slot == {0, 1}
Block == 1 .. Size
Blank == 0
Junk == -1
Image(v) == [i \in Block |-> v]

\* src: the unit it pulls from; got: blocks erased, then blocks written; ver: what the
\* source ran as it began to serve; alone: no other task has touched the slot since.
Idle == [at |-> "idle", src |-> Source, got |-> 0, ver |-> 0, alone |-> TRUE]

Init ==
    /\ flash = [u \in Unit |-> [s \in Slot |-> Image(IF s = 0 THEN First[u] ELSE Blank)]]
    /\ run = [u \in Unit |-> 0] /\ boot = [u \in Unit |-> 0]
    /\ task = [k \in Task |-> Idle] /\ asks = 0 /\ faults = 0

---------------------------------------------------------------------------
(* Slots.                                                                  *)

Whole(u, s) == \E v \in Version : flash[u][s] = Image(v)
Runs(u) == flash[u][run[u]][1]

\* Mutant: the slot is found from otadata.
BesideBoot(u) == 1 - boot[u]

\* esp_ota_get_next_update_partition(NULL): the slot that is not running.
Target(u) == 1 - run[u]

\* The bootloader takes the slot otadata names unless its image is damaged.
BootChoice(u) == IF Whole(u, boot[u]) THEN boot[u] ELSE 1 - boot[u]

\* Mutant: the slot the source would boot next.
FromBoot(s) == flash[s][boot[s]]

\* What h_fw streams: the slot the source runs from.
Served(s) == flash[s][run[s]]

\* Flash takes a value once after it is erased.
Burnt(old, new) == IF old \in {Blank, new} THEN new ELSE Junk

\* Task k writes block i of the target slot.
WriteSlot(k, i, c) == flash' = [flash EXCEPT ![Home[k]][Target(Home[k])][i] = c]

\* Task k goes on as t; other updates of the unit are no longer alone.
Disturbs(k, t) ==
    task' = [j \in Task |->
                IF j = k THEN t
                ELSE IF Home[j] = Home[k] /\ task[j] # Idle THEN [task[j] EXCEPT !.alone = FALSE]
                ELSE task[j]]

Goes(k, t) == task' = [task EXCEPT ![k] = t]

\* A command that does not succeed returns; an open connection is closed with it.
Stops(k) == Goes(k, Idle) /\ UNCHANGED <<flash, run, boot>>

---------------------------------------------------------------------------
(* The command, step by step.                                              *)

\* cmd_ota: a unit never pulls from itself, nor what it runs already unless forced or unless
\* it has not heard what the source runs, which does the same.
Starts(k, s, force) ==
    /\ task[k] = Idle /\ s # Home[k]
    /\ force \/ Runs(s) # Runs(Home[k])
    /\ Goes(k, [Idle EXCEPT !.at = "erase", !.src = s])
    /\ UNCHANGED <<flash, run, boot, faults>>

\* Someone types `ota' at a unit.
Ask(k, s, force) ==
    /\ asks < MaxAsk /\ asks' = asks + 1
    /\ Starts(k, s, force)

\* `fleet ota' reaches the unit, as often as the operator sends it.
FleetAsk(k) == k \in FleetTask /\ Starts(k, Source, FALSE) /\ UNCHANGED asks

\* esp_ota_begin erases the slot, block by block, before anything is asked of the source.
Erase(k) ==
    LET t == task[k] IN
    /\ t.at = "erase"
    /\ WriteSlot(k, t.got + 1, Blank)
    /\ Disturbs(k, IF t.got + 1 = Size THEN [t EXCEPT !.at = "connect", !.got = 0]
                   ELSE [t EXCEPT !.got = @ + 1])
    /\ UNCHANGED <<run, boot, asks, faults>>

\* esp_http_client_open: the connection waits at the source.
Connect(k) ==
    /\ task[k].at = "connect"
    /\ Goes(k, [task[k] EXCEPT !.at = "asked"])
    /\ UNCHANGED <<flash, run, boot, asks, faults>>

Serving(s) == {k \in Task : task[k].at = "pull" /\ task[k].src = s}

\* Mutant: requests are served side by side.
ServeAny(k) ==
    /\ task[k].at = "asked"
    /\ Goes(k, [task[k] EXCEPT !.at = "pull", !.ver = Runs(task[k].src)])
    /\ UNCHANGED <<flash, run, boot, asks, faults>>

\* h_fw begins to stream to k.
Serve(k) ==
    /\ task[k].at = "asked" /\ Serving(task[k].src) = {}
    /\ Goes(k, [task[k] EXCEPT !.at = "pull", !.ver = Runs(task[k].src)])
    /\ UNCHANGED <<flash, run, boot, asks, faults>>

\* No answer for 15 s, since the source streams to another unit: HTTP ERR.
GiveUp(k) ==
    /\ task[k].at = "asked" /\ Serving(task[k].src) # {}
    /\ Stops(k) /\ UNCHANGED <<asks, faults>>

\* A piece arrives and is written.
Chunk(k) ==
    LET t == task[k]  i == t.got + 1 IN
    /\ t.at = "pull" /\ t.got < Size
    /\ WriteSlot(k, i, Burnt(flash[Home[k]][Target(Home[k])][i], Served(t.src)[i]))
    /\ Disturbs(k, [t EXCEPT !.got = i])
    /\ UNCHANGED <<run, boot, asks, faults>>

\* The connection is gone: NET ERROR, TRUNCATED, or no headers.
Broken(k) == task[k].at = "cut" /\ Stops(k) /\ UNCHANGED <<asks, faults>>

\* esp_ota_end once all has arrived.
Validate(k) ==
    /\ task[k].at = "pull" /\ task[k].got = Size
    /\ Goes(k, IF Whole(Home[k], Target(Home[k])) THEN [task[k] EXCEPT !.at = "switch"] ELSE Idle)
    /\ UNCHANGED <<flash, run, boot, asks, faults>>

\* Mutant: the new slot is announced but otadata stays.
SetBootForgets(k) ==
    /\ task[k].at = "switch" /\ Goes(k, [task[k] EXCEPT !.at = "count"])
    /\ UNCHANGED <<flash, run, boot, asks, faults>>

\* esp_ota_set_boot_partition checks the image again.
SetBoot(k) ==
    LET u == Home[k] IN
    /\ task[k].at = "switch"
    /\ IF Whole(u, Target(u))
       THEN Goes(k, [task[k] EXCEPT !.at = "count"]) /\ boot' = [boot EXCEPT ![u] = Target(u)]
       ELSE Goes(k, Idle) /\ UNCHANGED boot
    /\ UNCHANGED <<flash, run, asks, faults>>

\* The unit starts anew: its tasks and its connections are gone.
Reboot(u) ==
    /\ run' = [run EXCEPT ![u] = BootChoice(u)]
    /\ task' = [k \in Task |->
                   IF Home[k] = u THEN Idle
                   ELSE IF task[k].src = u /\ task[k].at \in {"asked", "pull"}
                   THEN [task[k] EXCEPT !.at = "cut"]
                   ELSE task[k]]
    /\ UNCHANGED <<flash, boot, asks>>

\* The countdown ends.
Restart(k) == task[k].at = "count" /\ Reboot(Home[k]) /\ UNCHANGED faults

---------------------------------------------------------------------------
(* Faults.                                                                 *)

Fault == faults < MaxFault /\ faults' = faults + 1

\* esp_ota_begin, the client or esp_ota_write reports an error.
Fails(k) == Fault /\ task[k].at \in {"erase", "connect", "pull", "switch"} /\ Stops(k) /\ UNCHANGED asks

\* The connection breaks.
LinkBreaks(k) ==
    /\ Fault /\ task[k].at \in {"asked", "pull"}
    /\ Goes(k, [task[k] EXCEPT !.at = "cut"])
    /\ UNCHANGED <<flash, run, boot, asks>>

PowerLoss(u) == Fault /\ Reboot(u)

---------------------------------------------------------------------------

Proceeds(k) ==
    \/ Erase(k) \/ Connect(k) \/ Serve(k) \/ GiveUp(k) \/ Chunk(k) \/ Broken(k)
    \/ Validate(k) \/ SetBoot(k) \/ Restart(k)

Next ==
    \/ \E k \in Task : Proceeds(k) \/ FleetAsk(k) \/ Fails(k) \/ LinkBreaks(k)
    \/ \E k \in Task, s \in Unit, force \in BOOLEAN : Ask(k, s, force)
    \/ \E u \in Unit : PowerLoss(u)

Spec == Init /\ [][Next]_vars

\* A task that runs the command goes on, and the operator repeats `fleet ota' until every
\* unit has answered that it runs the version of the source.
FairSpec ==
    /\ Spec
    /\ \A k \in Task : WF_vars(Proceeds(k))
    /\ \A k \in FleetTask : WF_vars(FleetAsk(k))

---------------------------------------------------------------------------
(* Properties.                                                             *)

\* Types; a unit streams to one other at a time.
TypeOK ==
    /\ flash \in [Unit -> [Slot -> [Block -> Version \cup {Blank, Junk}]]]
    /\ run \in [Unit -> Slot] /\ boot \in [Unit -> Slot]
    /\ task \in [Task -> [at : {"idle", "erase", "connect", "asked", "pull", "cut", "switch", "count"},
                          src : Unit, got : 0 .. Size, ver : Version \cup {0}, alone : BOOLEAN]]
    /\ asks \in 0 .. MaxAsk /\ faults \in 0 .. MaxFault
    /\ \A s \in Unit : \A j, k \in Serving(s) : j = k

\* Whatever updates of one unit run side by side, and wherever power fails or a connection
\* breaks, the program a unit runs is one complete image (ota.c:16, "set_boot happens ONLY
\* after it passes").
RunsWhole == \A u \in Unit : Whole(u, run[u])

\* A unit that counts down to its restart, and whose slot no other update has touched, starts
\* with the image its source ran when it began to serve: also when the source has staged
\* another one since, or is being updated itself.
LeftAloneBoots ==
    \A k \in Task : task[k].at = "count" /\ task[k].alone =>
        LET u == Home[k] IN BootChoice(u) = Target(u) /\ flash[u][Target(u)] = Image(task[k].ver)

\* "One cable-flashed unit seeds the fleet" (ota.c:13): with `fleet ota' repeated, every unit
\* ends with the program the source runs, however often the requests collide at its server,
\* updates spoil each other, or power fails.
FleetSeeded == <>[](\A u \in Unit : Runs(u) = Runs(Source))
=============================================================================
