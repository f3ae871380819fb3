------------------------------ MODULE PanelLink ------------------------------
(***************************************************************************)
(* whlink_glue.c: the panel's end of the Bluetooth link around wh_link.h.  *)
(* The boot fuse, the pairing window and advertising, the bond in flash    *)
(* and its copy in RAM, the events of a connection, and the console        *)
(* commands that a small task runs for the peer.                           *)
(*                                                                         *)
(* The NimBLE host task delivers connection events and frames; the         *)
(* console, the UI, the timers and the command task call in beside it.     *)
(* A session is the number of the pairing it came from; its counters are   *)
(* WhLink's.  Whether a frame is the one that is due to save the session   *)
(* (the stride) is left open.  acks, refused, ran, confirmed, rapid and    *)
(* nullCall are history.                                                   *)
(***************************************************************************)
EXTENDS Naturals, Sequences, FiniteSets, SequencesExt

CONSTANTS
    FuseMax,      \* 3: unhealthy boots after which Bluetooth stays off
    WindowLen,    \* length of a pairing window in ticks
    QueueMax,     \* 4: console commands that may wait
    MaxKey,       \* bound on pairings
    MaxCmd,       \* bound on console commands received
    MaxBoot       \* bound on boots

ASSUME PanelAssumption ==
    /\ FuseMax \in Nat \ {0} /\ WindowLen \in Nat \ {0} /\ QueueMax \in Nat \ {0}
    /\ MaxKey \in Nat /\ MaxCmd \in Nat /\ MaxBoot \in Nat

VARIABLES
    up,         \* "off", "starting" (in whm_whlink_init), "none" (no Bluetooth), "up"
    fuse, disable,   \* in flash
    bond,       \* the session in flash, 0 if there is none
    ram,        \* s_bond
    hooks,      \* the callbacks of s_ctx.cfg are there
    est,        \* the session of s_ctx, 0 unless established
    pair,       \* "idle", "resp", "sas": s_ctx.pair of the responder
    synced,     \* s_synced
    conn, notify,    \* s_conn, s_notify_on
    closing,    \* ble_gap_terminate was called
    forgetting, \* the console is between the two halves of whm_whlink_forget
    window,     \* ticks until s_adv_until
    adv,        \* what is advertised: "none", "full", "pseud"
    ota,        \* whm_ui_ota_active
    queue,      \* s_cmd_q
    running,    \* the command in esp_console_run, 0 if none
    acks, refused, ran, confirmed, rapid, nullCall, received, boots

radio == <<synced, conn, notify, closing, window, adv>>
commands == <<queue, running, ran, received>>
answers == <<acks, refused>>
flash == <<fuse, disable>>
session == <<est, pair, hooks>>
bonds == <<bond, ram>>
vars == <<up, flash, bonds, session, radio, forgetting, ota, commands, answers,
          confirmed, rapid, nullCall, boots>>

Ram == <<bonds, session, radio, forgetting, commands, answers>>

Init ==
    /\ up = "off" /\ fuse = 0 /\ disable = FALSE
    /\ bond = 0 /\ ram = 0 /\ hooks = FALSE /\ est = 0 /\ pair = "idle"
    /\ synced = FALSE /\ conn = FALSE /\ notify = FALSE /\ closing = FALSE
    /\ forgetting = FALSE /\ window = 0 /\ adv = "none" /\ ota = FALSE
    /\ queue = <<>> /\ running = 0
    /\ acks = <<>> /\ refused = {} /\ ran = <<>> /\ confirmed = {} /\ rapid = 0
    /\ nullCall = FALSE /\ received = 0 /\ boots = 0

---------------------------------------------------------------------------
(* Boot and the end of power. *)

\* Mutant: the fuse is counted only once the controller is up.
BootUncounted ==
    /\ up = "off" /\ boots < MaxBoot /\ boots' = boots + 1
    /\ up' = IF disable \/ fuse >= FuseMax THEN "none" ELSE "starting"
    /\ rapid' = IF up' = "starting" THEN rapid + 1 ELSE rapid
    /\ UNCHANGED <<flash, Ram, ota, confirmed, nullCall>>

\* whm_whlink_init up to the start of the controller, which may not return.
Boot ==
    /\ up = "off" /\ boots < MaxBoot /\ boots' = boots + 1
    /\ up' = IF disable \/ fuse >= FuseMax THEN "none" ELSE "starting"
    /\ fuse' = IF up' = "starting" THEN fuse + 1 ELSE fuse
    /\ rapid' = IF up' = "starting" THEN rapid + 1 ELSE rapid
    /\ UNCHANGED <<disable, Ram, ota, confirmed, nullCall>>

\* Too little memory, or nimble_port_init fails.
InitSkips ==
    /\ up = "starting" /\ up' = "none"
    /\ UNCHANGED <<flash, Ram, ota, confirmed, rapid, nullCall, boots>>

\* The rest of whm_whlink_init.  Nothing is advertised.
InitDone ==
    /\ up = "starting" /\ up' = "up"
    /\ hooks' = TRUE /\ ram' = bond
    /\ UNCHANGED <<flash, bond, est, pair, radio, forgetting, ota, commands, answers,
                   confirmed, rapid, nullCall, boots>>

HostSync ==
    /\ up = "up" /\ ~synced /\ synced' = TRUE
    /\ UNCHANGED <<up, flash, bonds, session, conn, notify, closing, window, adv, forgetting,
                   ota, commands, answers, confirmed, rapid, nullCall, boots>>

\* wl_fuse_clear, 15 s after InitDone.
Healthy ==
    /\ up = "up" /\ fuse # 0 /\ fuse' = 0 /\ rapid' = 0
    /\ UNCHANGED <<up, disable, Ram, ota, confirmed, nullCall, boots>>

\* What is in RAM is lost; received and acks belong to the run of power.
Restarted ==
    /\ up' = "off" /\ ram' = 0 /\ hooks' = FALSE /\ est' = 0 /\ pair' = "idle"
    /\ synced' = FALSE /\ conn' = FALSE /\ notify' = FALSE /\ closing' = FALSE
    /\ forgetting' = FALSE /\ window' = 0 /\ adv' = "none" /\ ota' = FALSE
    /\ queue' = <<>> /\ running' = 0
    /\ acks' = <<>> /\ refused' = {} /\ ran' = <<>> /\ received' = 0
    /\ UNCHANGED <<flash, bond, confirmed, rapid, boots>>

PowerLoss == up # "off" /\ Restarted /\ UNCHANGED nullCall

\* A callback that is not there is called: the processor faults and restarts.
Faults == up = "up" /\ ~hooks /\ Restarted /\ nullCall' = TRUE

---------------------------------------------------------------------------
(* Bond and advertising. *)

\* Mutant: a bond that exists is kept.
SaveFirstBond(s) == IF ram # 0 THEN UNCHANGED bonds ELSE bond' = s /\ ram' = s

\* bond_save_from_ctx, with session s established.
SaveBond(s) == bond' = s /\ ram' = s

\* cb_send in an established session: this frame may be the one that saves.
Sends ==
    \/ UNCHANGED bonds
    \/ conn /\ notify /\ SaveBond(est)

\* adv_maybe, given what is connected, advertised, and left of the window.
AdvAfter(cn, a, w) ==
    IF ~synced \/ cn \/ ota THEN a
    ELSE IF w > 0 THEN "full"
    ELSE IF ram # 0 THEN "pseud" ELSE a

\* For the pseudonym it restores the session outside any connection.
EstAfter(cn, w, s) == IF synced /\ ~cn /\ ~ota /\ w = 0 /\ ram # 0 /\ s = 0 THEN ram ELSE s

PairWindow ==
    /\ up = "up" /\ window' = WindowLen
    /\ adv' = AdvAfter(conn, adv, WindowLen)
    /\ UNCHANGED <<up, flash, bonds, session, synced, conn, notify, closing, forgetting, ota,
                   commands, answers, confirmed, rapid, nullCall, boots>>

\* Time passes; nothing looks at the end of the window.
Tick ==
    /\ window > 0 /\ window' = window - 1
    /\ UNCHANGED <<up, flash, bonds, session, synced, conn, notify, closing, adv, forgetting,
                   ota, commands, answers, confirmed, rapid, nullCall, boots>>

\* Mutant: only the copy in flash is erased.
EraseFlash == bond' = 0 /\ UNCHANGED ram

\* bond_forget.
EraseBond == bond' = 0 /\ ram' = 0

Forget ==
    /\ up = "up" /\ ~forgetting /\ EraseBond /\ forgetting' = TRUE
    /\ UNCHANGED <<up, flash, session, radio, ota, commands, answers, confirmed, rapid,
                   nullCall, boots>>

\* whm_whlink_off, alone or as the second half of whm_whlink_forget.
Off ==
    /\ up = "up" /\ window' = 0 /\ adv' = "none" /\ forgetting' = FALSE
    /\ closing' = conn
    /\ UNCHANGED <<up, flash, bonds, session, synced, conn, notify, ota, commands, answers,
                   confirmed, rapid, nullCall, boots>>

Switch ==
    /\ \/ fuse' = 0 /\ disable' = FALSE /\ rapid' = 0    \* ble enable
       \/ disable' = TRUE /\ UNCHANGED <<fuse, rapid>>   \* ble disable
    /\ UNCHANGED <<up, Ram, ota, confirmed, nullCall, boots>>

Ota == up = "up" /\ ota' = ~ota /\ UNCHANGED <<up, flash, Ram, confirmed, rapid, nullCall, boots>>

---------------------------------------------------------------------------
(* Events of the connection, in the NimBLE host task. *)

Connect ==
    /\ adv # "none" /\ ~conn
    /\ conn' = TRUE /\ adv' = "none"
    /\ IF ram # 0 THEN est' = ram /\ SaveBond(ram) ELSE UNCHANGED <<est, bonds>>
    /\ UNCHANGED <<up, flash, pair, hooks, synced, notify, closing, window, forgetting, ota,
                   commands, answers, confirmed, rapid, nullCall, boots>>

ConnectFails ==
    /\ adv # "none" /\ ~conn
    /\ adv' = AdvAfter(FALSE, "none", window) /\ est' = EstAfter(FALSE, window, est)
    /\ UNCHANGED <<up, flash, bonds, pair, hooks, synced, conn, notify, closing, window,
                   forgetting, ota, commands, answers, confirmed, rapid, nullCall, boots>>

\* wh_ctx_init(&s_ctx, &s_ctx.cfg): the context, and with it the configuration
\* it was to be given, is cleared.  Without callbacks it is refused.
ClearContext ==
    IF hooks THEN hooks' = FALSE /\ pair' = "idle" /\ est' = EstAfter(FALSE, window, 0)
    ELSE UNCHANGED <<hooks, pair>> /\ est' = EstAfter(FALSE, window, est)

Disconnect ==
    /\ conn /\ conn' = FALSE /\ notify' = FALSE /\ closing' = FALSE
    /\ ClearContext
    /\ adv' = AdvAfter(FALSE, adv, window)
    /\ UNCHANGED <<up, flash, bonds, synced, window, forgetting, ota, commands, answers,
                   confirmed, rapid, nullCall, boots>>

\* The peer subscribes and is sent the announcement, or unsubscribes.
Subscribe ==
    /\ conn /\ notify' = ~notify /\ (notify' => hooks)
    /\ UNCHANGED <<up, flash, bonds, session, synced, conn, closing, window, adv, forgetting,
                   ota, commands, answers, confirmed, rapid, nullCall, boots>>

SubscribeFaults == conn /\ ~notify /\ Faults

\* A pairing request draws random numbers; the answer is lost unless subscribed.
PairReq ==
    /\ conn /\ hooks /\ pair' = "resp"
    /\ UNCHANGED <<up, flash, bonds, est, hooks, radio, forgetting, ota, commands, answers,
                   confirmed, rapid, nullCall, boots>>

PairReqFaults == conn /\ Faults

\* The digits are shown once the last frame is out.
PairNa ==
    /\ conn /\ notify /\ pair = "resp" /\ pair' = "sas"
    /\ UNCHANGED <<up, flash, bonds, est, hooks, radio, forgetting, ota, commands, answers,
                   confirmed, rapid, nullCall, boots>>

\* whm_whlink_sas_result(true): the pairing is the bond.  The UI calls it.
Match ==
    /\ pair = "sas" /\ Cardinality(confirmed) < MaxKey
    /\ LET s == Cardinality(confirmed) + 1
       IN confirmed' = confirmed \cup {s} /\ est' = s /\ SaveBond(s)
    /\ pair' = "idle"
    /\ UNCHANGED <<up, flash, hooks, radio, forgetting, ota, commands, answers, rapid,
                   nullCall, boots>>

Mismatch ==
    /\ pair = "sas" /\ pair' = "idle"
    /\ UNCHANGED <<up, flash, bonds, est, hooks, radio, forgetting, ota, commands, answers,
                   confirmed, rapid, nullCall, boots>>

---------------------------------------------------------------------------
(* Sealed traffic. *)

\* wl_status_send (timer, pairing, commands), cb_feed_tap, PONG.
StatusOrFeed ==
    /\ est # 0 /\ conn /\ notify /\ hooks /\ Sends
    /\ UNCHANGED <<up, flash, session, radio, forgetting, ota, commands, answers, confirmed,
                   rapid, nullCall, boots>>

\* Mutant: a command that found no room is put in the queue all the same.
QueueAll(c) == queue' = Append(queue, c)

Queue(c) == queue' = IF Len(queue) < QueueMax THEN Append(queue, c) ELSE queue

\* cb_on_message, CONSOLE; without callbacks the message goes nowhere.
OnConsole ==
    /\ conn /\ est # 0 /\ hooks /\ received < MaxCmd
    /\ received' = received + 1
    /\ Queue(received + 1)
    /\ IF Len(queue) < QueueMax THEN UNCHANGED <<answers, bonds>>
       ELSE /\ refused' = refused \cup {received + 1}
            /\ acks' = IF notify THEN Append(acks, received + 1) ELSE acks
            /\ Sends
    /\ UNCHANGED <<up, flash, session, radio, forgetting, ota, running, ran, confirmed, rapid,
                   nullCall, boots>>

\* Mutant: a command that is still in the queue when it runs.
TakeFirst == running' = Head(queue) /\ UNCHANGED queue

TakeNext == running' = Head(queue) /\ queue' = Tail(queue)

\* wl_exec_task.
ExecTake ==
    /\ running = 0 /\ queue # <<>> /\ TakeNext
    /\ ran' = Append(ran, Head(queue))
    /\ UNCHANGED <<up, flash, bonds, session, radio, forgetting, ota, received, answers,
                   confirmed, rapid, nullCall, boots>>

\* The command returns: answer, then status.  No session, no answer.
ExecDone ==
    /\ running # 0 /\ running' = 0 /\ (est = 0 \/ hooks)
    /\ acks' = IF est # 0 /\ conn /\ notify THEN Append(acks, running) ELSE acks
    /\ IF est # 0 THEN Sends ELSE UNCHANGED bonds
    /\ UNCHANGED <<up, flash, session, radio, forgetting, ota, queue, ran, received, refused,
                   confirmed, rapid, nullCall, boots>>

ExecFaults == running # 0 /\ est # 0 /\ Faults

---------------------------------------------------------------------------
Next ==
    \/ Boot \/ InitSkips \/ InitDone \/ HostSync \/ Healthy \/ PowerLoss
    \/ PairWindow \/ Tick \/ Forget \/ Off \/ Switch \/ Ota
    \/ Connect \/ ConnectFails \/ Disconnect \/ Subscribe \/ SubscribeFaults
    \/ PairReq \/ PairReqFaults \/ PairNa \/ Match \/ Mismatch
    \/ StatusOrFeed \/ OnConsole \/ ExecTake \/ ExecDone \/ ExecFaults

Spec == Init /\ [][Next]_vars

---------------------------------------------------------------------------
TypeOK ==
    /\ up \in {"off", "starting", "none", "up"} /\ fuse \in 0 .. FuseMax
    /\ disable \in BOOLEAN /\ {bond, ram, est} \subseteq 0 .. MaxKey
    /\ pair \in {"idle", "resp", "sas"} /\ window \in 0 .. WindowLen
    /\ adv \in {"none", "full", "pseud"} /\ {hooks, synced, conn, notify, closing} \subseteq BOOLEAN
    /\ Len(queue) <= QueueMax /\ running \in 0 .. MaxCmd

\* A panel that never stays up for 15 s with Bluetooth tries it no more than
\* FuseMax times (the boot fuse of whm_whlink_init).
FuseStops == rapid <= FuseMax

\* As long as Bluetooth is up flash and RAM agree on the bond, a session comes from
\* a pairing the user confirmed, and a panel with a bond speaks under no other
\* session than the bond's, whatever was paired, rejected, forgotten or restored
\* for a pseudonym in between (EraseBond, SaveBond, the save stride).
OneBond ==
    /\ up = "up" => ram = bond
    /\ est # 0 => est \in confirmed
    /\ ram # 0 /\ est # 0 => est = ram

\* A console command is run at most once, never after it was refused, in the
\* order received, and answered at most once (wl_exec_task, cb_on_message).
CommandOnce ==
    /\ IsInjective(ran) /\ IsInjective(acks)
    /\ \A i, j \in DOMAIN ran : i < j => ran[i] < ran[j]
    /\ \A i \in DOMAIN ran : ran[i] \notin refused

\* Each frame handed to the link finds its callbacks.
NoNullCall == ~nullCall
=============================================================================
