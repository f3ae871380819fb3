------------------------------- MODULE Player -------------------------------
(***************************************************************************)
(* The music player of one unit (src/main/mp3_player.c).                   *)
(*                                                                         *)
(* Several tasks call into it: the console, the receive task of sync.c and *)
(* the command task set the shared start time s_fs_start and post commands *)
(* to a queue; the player task takes them one by one, opens tracks and     *)
(* writes samples through eng_write, which holds the task until a slaved   *)
(* track's start; and Mode B adds a client and a pump task for each DJ     *)
(* session, which share the speaker and the start time with the player.    *)
(*                                                                         *)
(* Abstracted: decoding, tags and art; the servo's arithmetic (the content *)
(* position is what `due' names: the start-time formula, a beacon, or the  *)
(* DJ's markers); volumes; the DJ's own ring.  A track ends, or turns out  *)
(* to be unplayable, at any time.  Time is the TSF clock in coarse ticks.  *)
(***************************************************************************)
EXTENDS Integers, Sequences, FiniteSets

CONSTANTS
    NTrack,     \* s_count: the tracks indexed on the card
    QueueMax,   \* xQueueCreate(8, ...)
    Lead,       \* ticks from a fleet play to its downbeat (750 ms)
    PrimeLen,   \* ticks the pipe is filled before the position counts (400 ms)
    MaxTask,    \* bound: Mode B tasks of one kind alive at a time
    MaxAsk,     \* bound: commands and packets
    MaxTsf      \* bound: the last tick of the clock

ASSUME PlayerAssumption ==
    /\ NTrack \in Nat \ {0} /\ QueueMax \in Nat \ {0} /\ Lead \in Nat
    /\ PrimeLen \in Nat /\ MaxTask \in Nat /\ MaxAsk \in Nat
    /\ MaxTsf \in Nat /\ MaxTsf > 1     \* the clock starts at DjRun + 1

Track == 0 .. NTrack - 1
Task == 1 .. MaxTask
DjRun == 1                      \* the start time a pump sets: "engine gate on"
Ops == {"PLAY", "STOP", "PAUSE", "RESUME", "NEXT", "PREV", "FLEET"}
NoJob == [op |-> "NONE", idx |-> 0, at |-> "idle"]

VARIABLES
    queue,      \* s_q
    state,      \* s_state
    cur,        \* s_cur, -1 before the first track
    file,       \* s_f is open
    spk,        \* s_spk_busy of audio_test.c
    job,        \* the track_open the player task is in
    fsStart,    \* s_fs_start, 0 for local play
    waited,     \* s_fs_waited
    primed,     \* s_fs_primed
    due,        \* s_due_fn
    master,     \* s_fs_master
    playSeen,   \* s_play_seen of sync.c
    bfOn,       \* s_bf.on
    fill,       \* blocks buffered since the session began, up to the 150 ms
    client,     \* each bf_client_task: "none", "connect", "stream"
    pump,       \* each bf_pump_task: "none", "prime", "play"
    tsf,        \* the show clock
    asks,       \* commands and packets so far
    lastPlay,   \* history: who asked for the track playing, "local" or "fleet"
    lastAsk,    \* history: the last command posted
    lost        \* history: a command was dropped at a full queue

engine == <<fsStart, waited, primed, due, master>>
player == <<state, cur, file, spk, job, lastPlay>>
modeB == <<bfOn, fill, client, pump>>
asked == <<asks, lastAsk, lost>>
vars == <<queue, player, engine, playSeen, modeB, tsf, asked>>

Init ==
    /\ queue = <<>> /\ state = "STOPPED" /\ cur = -1 /\ file = FALSE
    /\ spk = FALSE /\ job = NoJob /\ lastPlay = "local"
    /\ fsStart = 0 /\ waited = FALSE /\ primed = FALSE /\ due = "formula" /\ master = FALSE
    /\ playSeen = 0
    /\ bfOn = FALSE /\ fill = 0
    /\ client = [t \in Task |-> "none"] /\ pump = [t \in Task |-> "none"]
    /\ tsf = DjRun + 1 /\ asks = 0 /\ lastAsk = "NONE" /\ lost = FALSE

-----------------------------------------------------------------------------
(* Commands: what the callers do in their own task.                        *)

\* Mutant of Post.
PostBeyond(op, arg) ==
    /\ queue' = Append(queue, [op |-> op, arg |-> arg])
    /\ UNCHANGED lost /\ lastAsk' = op

\* post: a full queue makes the caller wait 100 ms and then drops the command.
Post(op, arg) ==
    /\ queue' = IF Len(queue) < QueueMax THEN Append(queue, [op |-> op, arg |-> arg])
                                         ELSE queue
    /\ lost' = (lost \/ Len(queue) = QueueMax)
    /\ lastAsk' = IF Len(queue) < QueueMax THEN op ELSE lastAsk

Ask == asks < MaxAsk /\ asks' = asks + 1

\* whm_mp3_play: -1 plays the current track again.
AskPlay ==
    /\ Ask
    /\ fsStart' = 0 /\ due' = "formula"
    /\ \E i \in Track \cup {-1} : Post("PLAY", i)
    /\ UNCHANGED <<player, waited, primed, master, playSeen, modeB, tsf>>

\* whm_mp3_stop, whm_mp3_next, whm_mp3_prev
AskOp ==
    /\ Ask
    /\ \E op \in {"STOP", "NEXT", "PREV"} : Post(op, 0)
    /\ UNCHANGED <<player, engine, playSeen, modeB, tsf>>

AskToggle ==
    /\ Ask
    /\ CASE state = "PLAYING" -> Post("PAUSE", 0)
         [] state = "PAUSED"  -> Post("RESUME", 0)
         [] OTHER             -> Post("PLAY", -1)
    /\ UNCHANGED <<player, engine, playSeen, modeB, tsf>>

\* whm_mp3_fleet_play for a track that is on the card.
FleetPlay(i, start) ==
    /\ start <= MaxTsf
    /\ fsStart' = start /\ due' = "formula"
    /\ Post("FLEET", i)
    /\ UNCHANGED <<waited, primed>>

FleetStop ==
    /\ fsStart' = 0
    /\ Post("STOP", 0)
    /\ UNCHANGED <<waited, primed, due, master>>

\* `mp3 fleet n' and `mp3 fleet stop': this unit issues the play.
AskFleet ==
    /\ Ask
    /\ \/ \E i \in Track : FleetPlay(i, tsf + Lead) /\ master' = TRUE
       \/ FleetStop
    /\ UNCHANGED <<player, playSeen, modeB, tsf>>

\* A type-4 packet of another unit, at any time around its downbeat; the
\* start time tells repeats from new plays.
OnPlayPacket ==
    /\ Ask
    /\ \E start \in {s \in {tsf - 1, tsf, tsf + Lead} : s > DjRun} \ {playSeen} :
         /\ playSeen' = start
         /\ \/ \E i \in Track : FleetPlay(i, start) /\ UNCHANGED master
            \/ FleetStop
            \/ UNCHANGED <<engine, queue, lost, lastAsk>>   \* no such track, or another hash
    /\ UNCHANGED <<player, modeB, tsf>>

\* whm_mp3_a_on_beacon: no name of a master is ever set, so any unit's will do.
OnBeacon ==
    /\ ~master /\ fsStart > 0 /\ due = "formula"
    /\ due' = "beacon"
    /\ UNCHANGED <<queue, player, fsStart, waited, primed, master, playSeen, modeB, tsf, asked>>

\* whm_mp3_b_on_pkt: a stop packet, or an announcement that starts a session.
Tune(t, u) ==
    /\ ~bfOn
    /\ client[t] = "none" /\ pump[u] = "none"
    /\ bfOn' = TRUE /\ fill' = 0
    /\ client' = [client EXCEPT ![t] = "connect"]
    /\ pump' = [pump EXCEPT ![u] = "prime"]

OnDjPacket ==
    /\ Ask
    /\ \/ bfOn' = FALSE /\ UNCHANGED <<fill, client, pump>>
       \/ \E t, u \in Task : Tune(t, u)
    /\ UNCHANGED <<queue, player, engine, playSeen, tsf, lastAsk, lost>>

-----------------------------------------------------------------------------
(* eng_write, shared by the player task and the pumps.                     *)

\* It holds its task until the start of a slaved track.
Held == fsStart > 0 /\ ~waited /\ tsf < fsStart

\* A write goes through, waits no more, and after the priming time rebases.
EngWrite ==
    /\ ~Held
    /\ waited' = (waited \/ fsStart > 0)
    /\ primed' = IF fsStart = 0 THEN primed
                 ELSE IF waited THEN primed \/ tsf >= fsStart + PrimeLen
                 ELSE tsf >= fsStart + PrimeLen

-----------------------------------------------------------------------------
(* The player task.                                                        *)

CloseTrack == file' = FALSE /\ spk' = FALSE

\* track_open begins by closing whatever is open.
StartOpen(op, idx) == CloseTrack /\ job' = [op |-> op, idx |-> idx, at |-> "file"]

\* Mutant of Fail.
FailUnnoticed(op) ==
    /\ UNCHANGED <<state, fsStart>> /\ job' = NoJob
    /\ CloseTrack

\* What is done when a track cannot be opened: only two callers close the file.
Fail(op) ==
    /\ state' = "STOPPED" /\ job' = NoJob
    /\ fsStart' = IF op = "FLEET" THEN 0 ELSE fsStart
    /\ IF op \in {"PLAY", "AUTO"} THEN CloseTrack
                                 ELSE file' \in BOOLEAN /\ UNCHANGED spk

TakeFleet(c) ==
    /\ state' = "STOPPED" /\ waited' = FALSE
    /\ StartOpen("FLEET", c.arg)
    /\ UNCHANGED <<fsStart, cur>>

\* Mutant of TakeStop.
StopUnclosed(c) ==
    /\ fsStart' = 0 /\ state' = "STOPPED"
    /\ UNCHANGED <<job, file, spk, waited, cur>>

\* Mutant of TakePlay.
PlayStillSlaved(c) ==
    /\ StartOpen("PLAY", IF c.arg >= 0 THEN c.arg ELSE IF cur >= 0 THEN cur ELSE 0)
    /\ UNCHANGED <<fsStart, state, waited, cur>>

\* Mutant of TakeStop.
StopWhenPaused(c) ==
    /\ fsStart' = 0 /\ CloseTrack
    /\ state' = IF state = "PAUSED" THEN state ELSE "STOPPED"
    /\ UNCHANGED <<job, waited, cur>>

TakePlay(c) ==
    /\ fsStart' = 0
    /\ StartOpen("PLAY", IF c.arg >= 0 THEN c.arg ELSE IF cur >= 0 THEN cur ELSE 0)
    /\ UNCHANGED <<state, waited, cur>>

TakeStop(c) ==
    /\ fsStart' = 0 /\ CloseTrack /\ state' = "STOPPED"
    /\ UNCHANGED <<job, waited, cur>>

TakePause(c) ==
    /\ state' = CASE c.op = "PAUSE" /\ state = "PLAYING" -> "PAUSED"
                  [] c.op = "RESUME" /\ state = "PAUSED" -> "PLAYING"
                  [] OTHER -> state
    /\ UNCHANGED <<job, file, spk, fsStart, waited, cur>>

TakeSkip(c) ==
    /\ StartOpen("SKIP", (cur + IF c.op = "NEXT" THEN 1 ELSE NTrack - 1) % NTrack)
    /\ UNCHANGED <<state, fsStart, waited, cur>>

Take ==
    /\ job = NoJob /\ queue # <<>>
    /\ queue' = Tail(queue)
    /\ LET c == Head(queue) IN
         /\ CASE c.op = "FLEET" -> TakeFleet(c)
              [] c.op = "PLAY"  -> TakePlay(c)
              [] c.op = "STOP"  -> TakeStop(c)
              [] c.op \in {"PAUSE", "RESUME"} -> TakePause(c)
              [] OTHER -> TakeSkip(c)
         /\ lastPlay' = CASE c.op = "FLEET" -> "fleet" [] c.op = "PLAY" -> "local"
                          [] OTHER -> lastPlay
    /\ UNCHANGED <<primed, due, master, playSeen, modeB, tsf, asked>>

\* The file and its first frame, if it has one and the speaker is not in use.
OpenFile ==
    /\ job.at = "file"
    /\ \/ Fail(job.op)
       \/ /\ ~spk
          /\ file' = TRUE /\ spk' = TRUE
          /\ job' = [job EXCEPT !.at = "first"]
          /\ UNCHANGED <<state, fsStart>>
    /\ UNCHANGED <<queue, cur, lastPlay, waited, primed, due, master, playSeen, modeB, tsf, asked>>

\* The first frame is written, and the track is playing.
FirstFrame ==
    /\ job.at = "first"
    /\ EngWrite
    /\ cur' = job.idx /\ state' = "PLAYING" /\ job' = NoJob
    /\ UNCHANGED <<queue, file, spk, lastPlay, fsStart, due, master, playSeen, modeB, tsf, asked>>

\* pump: the next frame, or the end of the track and the next one.
NextFrame ==
    /\ job = NoJob /\ queue = <<>> /\ state = "PLAYING"
    /\ EngWrite
    /\ UNCHANGED <<queue, player, fsStart, due, master, playSeen, modeB, tsf, asked>>

TrackEnds ==
    /\ job = NoJob /\ queue = <<>> /\ state = "PLAYING"
    /\ StartOpen("AUTO", (cur + 1) % NTrack)
    /\ UNCHANGED <<queue, state, cur, lastPlay, engine, playSeen, modeB, tsf, asked>>

-----------------------------------------------------------------------------
(* Mode B: the client fills the ring, the pump plays it.                   *)

\* bf_client_task: the connection is made or not; its end untunes the unit.
Connected(t) ==
    /\ client[t] = "connect"
    /\ client' = [client EXCEPT ![t] = "stream"]
    /\ UNCHANGED <<queue, player, engine, playSeen, bfOn, fill, pump, tsf, asked>>

ClientEnds(t) ==
    /\ client[t] # "none"
    /\ client' = [client EXCEPT ![t] = "none"]
    /\ bfOn' = FALSE
    /\ UNCHANGED <<queue, player, engine, playSeen, fill, pump, tsf, asked>>

Block(t) ==
    /\ client[t] = "stream" /\ bfOn /\ fill < 2
    /\ fill' = fill + 1
    /\ UNCHANGED <<queue, player, engine, playSeen, bfOn, client, pump, tsf, asked>>

\* bf_pump_task: enough is buffered; the result of whm_audio_spk_open is not looked at.
PumpStarts(u) ==
    /\ pump[u] = "prime" /\ bfOn /\ fill = 2
    /\ pump' = [pump EXCEPT ![u] = "play"]
    /\ spk' = TRUE
    /\ fsStart' = DjRun /\ waited' = TRUE /\ primed' = TRUE /\ due' = "dj"
    /\ UNCHANGED <<queue, state, cur, file, job, lastPlay, master, playSeen, bfOn, fill,
                   client, tsf, asked>>

PumpWrites(u) ==
    /\ pump[u] = "play" /\ bfOn
    /\ EngWrite
    /\ UNCHANGED <<queue, player, fsStart, due, master, playSeen, modeB, tsf, asked>>

\* It notices between two writes, so not while it is held in one.
PumpEnds(u) ==
    /\ pump[u] # "none" /\ ~bfOn
    /\ pump[u] = "play" => ~Held
    /\ pump' = [pump EXCEPT ![u] = "none"]
    /\ fsStart' = 0 /\ due' = "formula" /\ spk' = FALSE
    /\ UNCHANGED <<queue, state, cur, file, job, lastPlay, waited, primed, master, playSeen,
                   bfOn, fill, client, tsf, asked>>

Tick ==
    /\ tsf < MaxTsf
    /\ tsf' = tsf + 1
    /\ UNCHANGED <<queue, player, engine, playSeen, modeB, asked>>

-----------------------------------------------------------------------------
Next ==
    \/ AskPlay \/ AskOp \/ AskToggle \/ AskFleet
    \/ OnPlayPacket \/ OnBeacon \/ OnDjPacket
    \/ Take \/ OpenFile \/ FirstFrame \/ NextFrame \/ TrackEnds
    \/ \E t \in Task : Connected(t) \/ ClientEnds(t) \/ Block(t)
    \/ \E u \in Task : PumpStarts(u) \/ PumpWrites(u) \/ PumpEnds(u)
    \/ Tick

Spec == Init /\ [][Next]_vars

\* The tasks run and time passes; nothing makes a caller ask.
FairSpec ==
    /\ Spec
    /\ WF_vars(Take) /\ WF_vars(OpenFile) /\ WF_vars(FirstFrame)
    /\ \A u \in Task : WF_vars(PumpEnds(u))
    /\ WF_vars(Tick)

-----------------------------------------------------------------------------
(* Properties.                                                             *)

TypeOK ==
    /\ queue \in Seq([op : Ops, arg : Track \cup {-1}]) /\ Len(queue) <= QueueMax
    /\ state \in {"STOPPED", "PLAYING", "PAUSED"} /\ cur \in Track \cup {-1}
    /\ {file, spk, waited, primed, master, bfOn, lost} \subseteq BOOLEAN
    /\ job \in {NoJob} \cup
         [op : {"PLAY", "SKIP", "FLEET", "AUTO"}, idx : Track, at : {"file", "first"}]
    /\ fsStart \in 0 .. MaxTsf /\ playSeen \in 0 .. MaxTsf + Lead
    /\ due \in {"formula", "beacon", "dj"}
    /\ fill \in 0 .. 2
    /\ client \in [Task -> {"none", "connect", "stream"}]
    /\ pump \in [Task -> {"none", "prime", "play"}]
    /\ tsf \in Nat /\ asks \in 0 .. MaxAsk
    /\ lastPlay \in {"local", "fleet"} /\ lastAsk \in Ops \cup {"NONE"}

NoPump == \A u \in Task : pump[u] = "none"

\* A player that plays or pauses has a file to read from, however its opening may have
\* failed (pump() reads s_f unchecked), and one that does not, with no Mode B pump
\* running, has left the speaker free for beeps and tests, although players and
\* pumps open and close it under each other.
HoldsWhatItUses ==
    job = NoJob => IF state # "STOPPED" THEN file ELSE NoPump => ~spk

\* "Plain play exits mode A" (whm_mp3_play): once the player has taken all it
\* was asked and a local play was the last, it is not slaved to any clock.
NoGhostChase ==
    state = "PLAYING" /\ lastPlay = "local" /\ queue = <<>> /\ job = NoJob
        /\ ~lost /\ ~bfOn /\ NoPump => fsStart = 0

\* When the last command was a stop and nobody asks again, the player stops for
\* good, though it may be held in a write until a downbeat first.
StopIsFinal ==
    [](asks = MaxAsk /\ lastAsk = "STOP" => <>[](state = "STOPPED" /\ queue = <<>>))
=============================================================================
