------------------------- MODULE PlayerWalker_proofs -------------------------
(***************************************************************************)
(* The two programs that follow the fleet's clock, the player and the      *)
(* walker, each on its own: their modules share no definition, and the     *)
(* walker's bear its name where both have one.                             *)
(*                                                                         *)
(* The player, for any number of tracks, Mode B tasks and commands, and    *)
(* any length of its queue: what plays has a file, what is stopped leaves  *)
(* the speaker alone, and a local play is no longer slaved to a clock.     *)
(*                                                                         *)
(* The walker, for any number and width of strips, any script of moves and *)
(* any loss or delay of beacons: rings are sound, no keyframe outlives its *)
(* window, and no promise is evicted before its step.                      *)
(***************************************************************************)
EXTENDS Player, Walker, SequenceTheorems, FiniteSetTheorems, FunctionTheorems,
        WellFoundedInduction, TLAPS

---------------------------------------------------------------------------
(* The inductive invariant. *)

Command == [op : Ops, arg : Track \cup {-1}]
Opening == [op : {"PLAY", "SKIP", "FLEET", "AUTO"}, idx : Track, at : {"file", "first"}]

QueueTyped ==
    /\ queue \in Seq(Command) /\ Len(queue) <= QueueMax
    /\ \A i \in 1 .. Len(queue) : queue[i].op = "FLEET" => queue[i].arg \in Track

PlayerTyped ==
    /\ state \in {"STOPPED", "PLAYING", "PAUSED"} /\ cur \in Track \cup {-1}
    /\ file \in BOOLEAN /\ spk \in BOOLEAN /\ job \in {NoJob} \cup Opening
    /\ lastPlay \in {"local", "fleet"}

EngineTyped ==
    /\ waited \in BOOLEAN /\ primed \in BOOLEAN /\ master \in BOOLEAN
    /\ due \in {"formula", "beacon", "dj"}

ClockTyped ==
    /\ fsStart \in 0 .. MaxTsf /\ tsf \in DjRun + 1 .. MaxTsf
    /\ playSeen \in 0 .. MaxTsf + Lead

SessionTyped ==
    /\ bfOn \in BOOLEAN /\ fill \in 0 .. 2
    /\ client \in [Task -> {"none", "connect", "stream"}]
    /\ pump \in [Task -> {"none", "prime", "play"}]

AskedTyped == asks \in 0 .. MaxAsk /\ lastAsk \in Ops \cup {"NONE"} /\ lost \in BOOLEAN

Typed == QueueTyped /\ PlayerTyped /\ EngineTyped /\ ClockTyped /\ SessionTyped /\ AskedTyped

\* A track that plays, or has given its first frame, is open; before that, and when the
\* player is stopped, only a pump has the speaker.
Holds ==
    /\ job = NoJob /\ state # "STOPPED" => file
    /\ job.at = "first" => file
    /\ job.at = "file" \/ (job = NoJob /\ state = "STOPPED") => (spk => ~NoPump)

FleetWaits == \E i \in 1 .. Len(queue) : queue[i].op = "FLEET"

\* Who is slaved to a clock was asked to, will be, or feeds a pump.
Chases == fsStart # 0 => lost \/ lastPlay = "fleet" \/ FleetWaits \/ ~NoPump

Inv == Typed /\ Holds /\ Chases

---------------------------------------------------------------------------
(* The queue. *)

\* What a proof uses of the constants.
LEMMA Sizes ==
    /\ NTrack \in Nat /\ NTrack >= 1 /\ QueueMax \in Nat /\ QueueMax >= 1 /\ Lead \in Nat
    /\ PrimeLen \in Nat /\ MaxAsk \in Nat /\ MaxTsf \in Nat /\ MaxTsf >= 2
    /\ 0 \in Track
BY PlayerAssumption DEF Track

\* A command is put at the end of the queue, or is lost.
LEMMA PostStep ==
    ASSUME QueueTyped, AskedTyped, NEW op \in Ops, NEW arg \in Track \cup {-1},
           op = "FLEET" => arg \in Track, Post(op, arg)
    PROVE  /\ QueueTyped' /\ lost' \in BOOLEAN /\ lastAsk' \in Ops \cup {"NONE"}
           /\ (lost => lost') /\ (FleetWaits => FleetWaits')
           /\ op = "FLEET" => lost' \/ FleetWaits'
<1> DEFINE c == [op |-> op, arg |-> arg]
<1>1. c \in Command /\ c.op = op /\ c.arg = arg
  BY DEF Command
<1>2. queue \in Seq(Command) /\ Len(queue) \in Nat /\ Len(queue) <= QueueMax
  BY DEF QueueTyped
<1>3. CASE Len(queue) < QueueMax
  <2>1. queue' = Append(queue, c) /\ lastAsk' = op
    BY <1>3 DEF Post
  <2>0. lost' = lost
    BY <1>2, <1>3, Sizes DEF Post, AskedTyped
  <2> HIDE DEF c
  <2>2. /\ queue' \in Seq(Command) /\ Len(queue') = Len(queue) + 1
        /\ \A i \in 1 .. Len(queue) : queue'[i] = queue[i]
        /\ queue'[Len(queue) + 1] = c
        /\ \A i \in 1 .. Len(queue) + 1 : i = Len(queue) + 1 \/ i \in 1 .. Len(queue)
        /\ \A i \in 1 .. Len(queue) : i \in 1 .. Len(queue')
        /\ Len(queue) + 1 \in 1 .. Len(queue')
    BY <1>1, <1>2, <2>1
  <2>3. Len(queue') <= QueueMax
    BY <1>2, <1>3, <2>2, Sizes
  <2>4. \A i \in 1 .. Len(queue') : queue'[i].op = "FLEET" => queue'[i].arg \in Track
    <3> SUFFICES ASSUME NEW i \in 1 .. Len(queue) + 1, queue'[i].op = "FLEET"
                 PROVE  queue'[i].arg \in Track
      BY <2>2
    <3>1. CASE i = Len(queue) + 1
      BY <1>1, <2>2, <3>1
    <3>2. CASE i \in 1 .. Len(queue)
      BY <2>2, <3>2 DEF QueueTyped
    <3> QED BY <2>2, <3>1, <3>2
  <2>5. FleetWaits => FleetWaits'
    BY <2>2 DEF FleetWaits
  <2>6. op = "FLEET" => FleetWaits'
    BY <1>1, <2>2 DEF FleetWaits
  <2> QED BY <2>0, <2>1, <2>2, <2>3, <2>4, <2>5, <2>6 DEF QueueTyped, AskedTyped
<1>4. CASE ~(Len(queue) < QueueMax)
  <2>1. queue' = queue /\ lastAsk' = lastAsk
    BY <1>4 DEF Post
  <2>2. lost' = TRUE
    <3>1. Len(queue) = QueueMax
      BY <1>2, <1>4, Sizes
    <3> QED BY <3>1, Zenon DEF Post
  <2> QED BY <2>1, <2>2 DEF QueueTyped, AskedTyped, FleetWaits
<1> QED BY <1>3, <1>4

\* What the callers put in the queue, and what they do to the start time.
LEMMA AskStep ==
    ASSUME Typed, AskPlay \/ AskOp \/ AskToggle \/ AskFleet \/ OnPlayPacket
    PROVE  /\ QueueTyped' /\ AskedTyped' /\ (lost => lost') /\ (FleetWaits => FleetWaits')
           /\ fsStart' = fsStart \/ fsStart' = 0 \/ lost' \/ FleetWaits'
           /\ UNCHANGED <<player, waited, primed, modeB, tsf>>
<1> USE DEF Typed
<1>1. ASSUME Ask PROVE asks' \in 0 .. MaxAsk
  BY <1>1, Sizes DEF Ask, AskedTyped
<1>2. \A i \in Track \cup {-1} : i \in Track \/ i = -1
  OBVIOUS
<1>3. CASE AskPlay
  <2>1. PICK i \in Track \cup {-1} : Post("PLAY", i)
    BY <1>3 DEF AskPlay
  <2> QED BY <1>1, <1>3, <2>1, PostStep DEF AskPlay, AskedTyped, Ops
<1>4. CASE AskOp
  <2>1. PICK op \in {"STOP", "NEXT", "PREV"} : Post(op, 0)
    BY <1>4 DEF AskOp
  <2> QED BY <1>1, <1>4, <2>1, PostStep, Sizes DEF AskOp, AskedTyped, Ops, engine
<1>5. CASE AskToggle
  <2>1. Post("PAUSE", 0) \/ Post("RESUME", 0) \/ Post("PLAY", -1)
    BY <1>5 DEF AskToggle
  <2>2. QueueTyped' /\ lost' \in BOOLEAN /\ lastAsk' \in Ops \cup {"NONE"}
        /\ (lost => lost') /\ (FleetWaits => FleetWaits')
    BY <2>1, PostStep, Sizes DEF Ops
  <2> QED BY <1>1, <1>5, <2>2 DEF AskToggle, AskedTyped, engine
<1>6. ASSUME FleetStop
      PROVE  /\ QueueTyped' /\ lost' \in BOOLEAN /\ lastAsk' \in Ops \cup {"NONE"}
             /\ (lost => lost') /\ (FleetWaits => FleetWaits') /\ fsStart' = 0
             /\ UNCHANGED <<waited, primed>>
  BY <1>6, PostStep, Sizes DEF FleetStop, Ops
<1>7. ASSUME NEW i \in Track, NEW start, FleetPlay(i, start)
      PROVE  /\ QueueTyped' /\ lost' \in BOOLEAN /\ lastAsk' \in Ops \cup {"NONE"}
             /\ (lost => lost') /\ (FleetWaits => FleetWaits') /\ (lost' \/ FleetWaits')
             /\ UNCHANGED <<waited, primed>>
  BY <1>7, PostStep DEF FleetPlay, Ops
<1>8. CASE AskFleet
  <2>1. (\E i \in Track : FleetPlay(i, tsf + Lead)) \/ FleetStop
    BY <1>8 DEF AskFleet
  <2> QED BY <1>1, <1>6, <1>7, <1>8, <2>1 DEF AskFleet, AskedTyped
<1>9. CASE OnPlayPacket
  <2>1. (\E i \in Track, start \in Int : FleetPlay(i, start)) \/ FleetStop
        \/ UNCHANGED <<engine, queue, lost, lastAsk>>
    <3>1. PICK start \in {s \in {tsf - 1, tsf, tsf + Lead} : s > DjRun} \ {playSeen} :
             \/ \E i \in Track : FleetPlay(i, start)
             \/ FleetStop
             \/ UNCHANGED <<engine, queue, lost, lastAsk>>
      BY <1>9 DEF OnPlayPacket
    <3>2. start \in Int
      BY Sizes DEF ClockTyped, DjRun
    <3> QED BY <3>1, <3>2
  <2>2. UNCHANGED <<player, modeB, tsf>> /\ Ask
    BY <1>9 DEF OnPlayPacket
  <2>3. CASE \E i \in Track, start \in Int : FleetPlay(i, start)
    BY <1>1, <1>7, <2>2, <2>3 DEF AskedTyped
  <2>4. CASE FleetStop
    BY <1>1, <1>6, <2>2, <2>4 DEF AskedTyped
  <2>5. CASE UNCHANGED <<engine, queue, lost, lastAsk>>
    BY <1>1, <2>2, <2>5 DEF AskedTyped, QueueTyped, FleetWaits, engine
  <2> QED BY <2>1, <2>3, <2>4, <2>5
<1> QED BY <1>3, <1>4, <1>5, <1>8, <1>9

\* The player task takes the first command.
LEMMA TakeQueue ==
    ASSUME QueueTyped, Take
    PROVE  /\ QueueTyped' /\ Head(queue) \in Command
           /\ Head(queue).op = "FLEET" => Head(queue).arg \in Track
           /\ FleetWaits => FleetWaits' \/ Head(queue).op = "FLEET"
<1>1. queue \in Seq(Command) /\ queue # <<>> /\ queue' = Tail(queue)
  BY DEF QueueTyped, Take
<1>2. /\ queue' \in Seq(Command) /\ Len(queue) \in Nat /\ Len(queue') = Len(queue) - 1
      /\ 1 \in 1 .. Len(queue) /\ queue[1] = Head(queue) /\ Head(queue) \in Command
      /\ \A i \in 1 .. Len(queue') : queue'[i] = queue[i + 1] /\ i + 1 \in 1 .. Len(queue)
      /\ \A i \in 1 .. Len(queue) : i # 1 => i - 1 \in 1 .. Len(queue') /\ (i - 1) + 1 = i
  BY <1>1
<1>3. Len(queue') <= QueueMax
  BY <1>2, Sizes DEF QueueTyped
<1>4. \A i \in 1 .. Len(queue') : queue'[i].op = "FLEET" => queue'[i].arg \in Track
  BY <1>2 DEF QueueTyped
<1>5. FleetWaits => FleetWaits' \/ Head(queue).op = "FLEET"
  <2>1. SUFFICES ASSUME FleetWaits, Head(queue).op # "FLEET" PROVE FleetWaits'
    OBVIOUS
  <2>2. PICK i \in 1 .. Len(queue) : queue[i].op = "FLEET"
    BY <2>1 DEF FleetWaits
  <2>3. i # 1
    BY <1>2, <2>1, <2>2
  <2>4. i - 1 \in 1 .. Len(queue') /\ queue'[i - 1] = queue[i]
    BY <1>2, <2>3
  <2> QED BY <2>2, <2>4 DEF FleetWaits
<1> QED BY <1>2, <1>3, <1>4, <1>5 DEF QueueTyped

\* What the first command makes the player do.
LEMMA TakeStep ==
    ASSUME Typed, Take
    PROVE  /\ job = NoJob
           /\ \/ Head(queue).op = "FLEET" /\ TakeFleet(Head(queue)) /\ lastPlay' = "fleet"
              \/ Head(queue).op = "PLAY" /\ TakePlay(Head(queue)) /\ lastPlay' = "local"
              \/ Head(queue).op = "STOP" /\ TakeStop(Head(queue)) /\ lastPlay' = lastPlay
              \/ Head(queue).op \in {"PAUSE", "RESUME"} /\ TakePause(Head(queue))
                 /\ lastPlay' = lastPlay
              \/ Head(queue).op \in {"NEXT", "PREV"} /\ TakeSkip(Head(queue))
                 /\ lastPlay' = lastPlay
           /\ UNCHANGED <<primed, due, master, playSeen, modeB, tsf, asked>>
<1>1. Head(queue).op \in Ops
  BY TakeQueue DEF Typed, Command
<1>2. CASE Head(queue).op = "FLEET"
  BY <1>2 DEF Take
<1>3. CASE Head(queue).op = "PLAY"
  BY <1>3 DEF Take
<1>4. CASE Head(queue).op = "STOP"
  BY <1>4 DEF Take
<1>5. CASE Head(queue).op \in {"PAUSE", "RESUME"}
  BY <1>5 DEF Take
<1>6. CASE Head(queue).op \in {"NEXT", "PREV"}
  BY <1>6 DEF Take
<1> QED BY <1>1, <1>2, <1>3, <1>4, <1>5, <1>6 DEF Ops

---------------------------------------------------------------------------
(* Types. *)

\* A write changes nothing but what was waited for.
LEMMA EngWriteTyped ==
    ASSUME EngineTyped, EngWrite PROVE waited' \in BOOLEAN /\ primed' \in BOOLEAN
<1>1. waited' \in BOOLEAN
  BY Zenon DEF EngWrite, EngineTyped
<1>2. CASE fsStart = 0
  BY <1>1, <1>2 DEF EngWrite, EngineTyped
<1>3. CASE fsStart # 0
  <2>1. primed' = (IF waited THEN primed \/ tsf >= fsStart + PrimeLen ELSE tsf >= fsStart + PrimeLen)
    BY <1>3 DEF EngWrite
  <2>2. CASE waited
    BY <1>1, <2>1, <2>2, Zenon
  <2>3. CASE ~waited
    <3>1. primed' = (tsf >= fsStart + PrimeLen)
      BY <2>1, <2>3
    <3> QED BY <1>1, <3>1
  <2> QED BY <2>2, <2>3
<1> QED BY <1>2, <1>3

\* A job that is begun.
LEMMA StartTyped ==
    ASSUME NEW op \in {"PLAY", "SKIP", "FLEET", "AUTO"}, NEW idx \in Track, StartOpen(op, idx)
    PROVE  job' \in Opening /\ job'.at = "file" /\ file' = FALSE /\ spk' = FALSE
BY DEF StartOpen, CloseTrack, Opening

\* The track after, or before, another one is on the card.
LEMMA Wraps ==
    ASSUME NEW i \in Track \cup {-1}, NEW d \in {1, NTrack - 1}
    PROVE  (i + d) % NTrack \in Track
<1>1. i + d \in Int /\ NTrack \in Nat /\ NTrack >= 1
  BY Sizes DEF Track
<1>2. \A a \in Int, n \in Nat : n >= 1 => a % n \in 0 .. n - 1
  OBVIOUS
<1> QED BY <1>1, <1>2 DEF Track

\* The queue and the counts of what was asked.
LEMMA QueueStep ==
    ASSUME Inv, [Next]_vars PROVE QueueTyped' /\ AskedTyped'
<1>0. Typed /\ QueueTyped /\ AskedTyped
  BY DEF Inv, Typed
<1>1. CASE AskPlay \/ AskOp \/ AskToggle \/ AskFleet \/ OnPlayPacket
  BY <1>0, <1>1, AskStep
<1>2. CASE OnDjPacket
  <2>1. asks' \in 0 .. MaxAsk
    BY <1>0, <1>2, Sizes DEF OnDjPacket, Ask, AskedTyped
  <2> QED BY <1>0, <1>2, <2>1 DEF OnDjPacket, QueueTyped, AskedTyped
<1>3. CASE Take
  BY <1>0, <1>3, TakeQueue, TakeStep DEF asked, AskedTyped
<1>4. CASE UNCHANGED <<queue, asked>>
  BY <1>0, <1>4 DEF asked, QueueTyped, AskedTyped
<1>5. CASE OnBeacon \/ OpenFile \/ FirstFrame \/ NextFrame \/ TrackEnds \/ Tick
  BY <1>4, <1>5 DEF OnBeacon, OpenFile, FirstFrame, NextFrame, TrackEnds, Tick
<1>6. ASSUME NEW t \in Task, Connected(t) \/ ClientEnds(t) \/ Block(t)
      PROVE  QueueTyped' /\ AskedTyped'
  BY <1>4, <1>6 DEF Connected, ClientEnds, Block
<1>7. ASSUME NEW u \in Task, PumpStarts(u) \/ PumpWrites(u) \/ PumpEnds(u)
      PROVE  QueueTyped' /\ AskedTyped'
  BY <1>4, <1>7 DEF PumpStarts, PumpWrites, PumpEnds
<1>8. CASE UNCHANGED vars
  BY <1>4, <1>8 DEF vars
<1> QED BY <1>1, <1>2, <1>3, <1>5, <1>6, <1>7, <1>8 DEF Next

\* The steps that leave the player alone but for its speaker.
LEMMA PlayerKept ==
    ASSUME Typed,
           \/ AskPlay \/ AskOp \/ AskToggle \/ AskFleet \/ OnPlayPacket \/ OnBeacon \/ OnDjPacket
           \/ NextFrame \/ Tick \/ UNCHANGED vars
           \/ \E t \in Task : Connected(t) \/ ClientEnds(t) \/ Block(t) \/ PumpWrites(t)
    PROVE  UNCHANGED player
<1>1. CASE AskPlay \/ AskOp \/ AskToggle \/ AskFleet \/ OnPlayPacket
  BY <1>1, AskStep
<1>2. CASE OnBeacon \/ OnDjPacket \/ NextFrame \/ Tick \/ UNCHANGED vars
  BY <1>2 DEF OnBeacon, OnDjPacket, NextFrame, Tick, vars
<1>3. CASE \E t \in Task : Connected(t) \/ ClientEnds(t) \/ Block(t) \/ PumpWrites(t)
  BY <1>3 DEF Connected, ClientEnds, Block, PumpWrites
<1> QED BY <1>1, <1>2, <1>3

\* The player.
LEMMA PlayerStep ==
    ASSUME Inv, [Next]_vars PROVE PlayerTyped'
<1>0. Typed /\ PlayerTyped /\ NoJob.at = "idle"
  BY DEF Inv, Typed, NoJob
<1>1. CASE UNCHANGED player
  BY <1>0, <1>1 DEF player, PlayerTyped
<1>2. CASE Take
  <2> DEFINE c == Head(queue)
  <2>1. c \in Command /\ (c.op = "FLEET" => c.arg \in Track)
    BY <1>0, <1>2, TakeQueue DEF Typed
  <2>2. c.arg \in Track \cup {-1}
    BY <2>1 DEF Command
  <2>3. /\ job = NoJob
        /\ \/ c.op = "FLEET" /\ TakeFleet(c) /\ lastPlay' = "fleet"
           \/ c.op = "PLAY" /\ TakePlay(c) /\ lastPlay' = "local"
           \/ c.op = "STOP" /\ TakeStop(c) /\ lastPlay' = lastPlay
           \/ c.op \in {"PAUSE", "RESUME"} /\ TakePause(c) /\ lastPlay' = lastPlay
           \/ c.op \in {"NEXT", "PREV"} /\ TakeSkip(c) /\ lastPlay' = lastPlay
    BY <1>0, <1>2, TakeStep
  <2> HIDE DEF c
  <2>4. CASE c.op = "FLEET" /\ TakeFleet(c) /\ lastPlay' = "fleet"
    BY <1>0, <2>1, <2>4, StartTyped DEF TakeFleet, PlayerTyped
  <2>5. CASE c.op = "PLAY" /\ TakePlay(c) /\ lastPlay' = "local"
    <3>1. (IF c.arg >= 0 THEN c.arg ELSE IF cur >= 0 THEN cur ELSE 0) \in Track
      BY <1>0, <2>2, Sizes DEF PlayerTyped, Track
    <3> QED BY <1>0, <2>5, <3>1, StartTyped DEF TakePlay, PlayerTyped
  <2>6. CASE c.op = "STOP" /\ TakeStop(c) /\ lastPlay' = lastPlay
    BY <1>0, <2>6 DEF TakeStop, CloseTrack, PlayerTyped
  <2>7. CASE c.op \in {"PAUSE", "RESUME"} /\ TakePause(c) /\ lastPlay' = lastPlay
    BY <1>0, <2>7 DEF TakePause, PlayerTyped
  <2>8. CASE c.op \in {"NEXT", "PREV"} /\ TakeSkip(c) /\ lastPlay' = lastPlay
    <3>1. (cur + IF c.op = "NEXT" THEN 1 ELSE NTrack - 1) % NTrack \in Track
      BY <1>0, Wraps DEF PlayerTyped
    <3> QED BY <1>0, <2>8, <3>1, StartTyped DEF TakeSkip, PlayerTyped
  <2> QED BY <2>3, <2>4, <2>5, <2>6, <2>7, <2>8
<1>3. CASE OpenFile
  <2>1. job \in Opening
    BY <1>0, <1>3 DEF OpenFile, PlayerTyped
  <2>2. CASE Fail(job.op)
    <3>1. file' \in BOOLEAN /\ spk' \in BOOLEAN
      BY <1>0, <2>2 DEF Fail, CloseTrack, PlayerTyped
    <3> QED BY <1>0, <1>3, <2>2, <3>1 DEF OpenFile, Fail, PlayerTyped
  <2>3. CASE file' = TRUE /\ spk' = TRUE /\ job' = [job EXCEPT !.at = "first"] /\ state' = state
    <3>1. job' \in Opening
      BY <2>1, <2>3 DEF Opening
    <3> QED BY <1>0, <1>3, <2>3, <3>1 DEF OpenFile, PlayerTyped
  <2> QED BY <1>3, <2>2, <2>3 DEF OpenFile
<1>4. CASE FirstFrame
  <2>1. job \in Opening
    BY <1>0, <1>4 DEF FirstFrame, PlayerTyped
  <2>2. job.idx \in Track
    BY <2>1 DEF Opening
  <2> QED BY <1>0, <1>4, <2>2 DEF FirstFrame, PlayerTyped
<1>5. CASE TrackEnds
  <2>1. (cur + 1) % NTrack \in Track
    BY <1>0, Wraps DEF PlayerTyped
  <2> QED BY <1>0, <1>5, <2>1, StartTyped DEF TrackEnds, PlayerTyped
<1>6. ASSUME NEW u \in Task, PumpStarts(u) \/ PumpEnds(u) PROVE PlayerTyped'
  <2>1. spk' \in BOOLEAN /\ UNCHANGED <<state, cur, file, job, lastPlay>>
    BY <1>6 DEF PumpStarts, PumpEnds
  <2> QED BY <1>0, <2>1 DEF PlayerTyped
<1> QED BY <1>0, <1>1, <1>2, <1>3, <1>4, <1>5, <1>6, PlayerKept DEF Next

\* The engine.
LEMMA EngineStep ==
    ASSUME Inv, [Next]_vars PROVE EngineTyped'
<1>0. Typed /\ EngineTyped
  BY DEF Inv, Typed
<1>1. CASE AskPlay \/ AskOp \/ AskToggle \/ AskFleet \/ OnPlayPacket
  <2>1. UNCHANGED <<waited, primed>>
    BY <1>0, <1>1, AskStep
  <2>2. due' \in {due, "formula"} /\ master' \in {master, TRUE}
    BY <1>1 DEF AskPlay, AskOp, AskToggle, AskFleet, OnPlayPacket, FleetPlay, FleetStop, engine
  <2> QED BY <1>0, <2>1, <2>2 DEF EngineTyped
<1>2. CASE OnBeacon \/ OnDjPacket \/ TrackEnds \/ OpenFile \/ Tick \/ UNCHANGED vars
  BY <1>0, <1>2 DEF OnBeacon, OnDjPacket, TrackEnds, OpenFile, Tick, vars, engine, EngineTyped
<1>3. CASE FirstFrame \/ NextFrame
  <2>1. EngWrite /\ UNCHANGED <<due, master>>
    BY <1>3 DEF FirstFrame, NextFrame
  <2> QED BY <1>0, <2>1, EngWriteTyped DEF EngineTyped
<1>4. CASE Take
  <2>1. waited' \in {waited, FALSE} /\ UNCHANGED <<primed, due, master>>
    BY <1>0, <1>4, TakeStep DEF TakeFleet, TakePlay, TakeStop, TakePause, TakeSkip
  <2> QED BY <1>0, <2>1 DEF EngineTyped
<1>5. ASSUME NEW t \in Task, Connected(t) \/ ClientEnds(t) \/ Block(t) PROVE EngineTyped'
  BY <1>0, <1>5 DEF Connected, ClientEnds, Block, engine, EngineTyped
<1>6. ASSUME NEW u \in Task, PumpStarts(u) \/ PumpEnds(u) PROVE EngineTyped'
  BY <1>0, <1>6 DEF PumpStarts, PumpEnds, EngineTyped
<1>7. ASSUME NEW u \in Task, PumpWrites(u) PROVE EngineTyped'
  <2>1. EngWrite /\ UNCHANGED <<due, master>>
    BY <1>7 DEF PumpWrites
  <2> QED BY <1>0, <2>1, EngWriteTyped DEF EngineTyped
<1> QED BY <1>1, <1>2, <1>3, <1>4, <1>5, <1>6, <1>7 DEF Next

\* The clock and the times that were announced.
LEMMA ClockStep ==
    ASSUME Inv, [Next]_vars PROVE ClockTyped'
<1>0. Typed /\ ClockTyped
  BY DEF Inv, Typed
<1>1. CASE AskPlay \/ AskOp \/ AskToggle
  BY <1>0, <1>1, Sizes DEF AskPlay, AskOp, AskToggle, engine, ClockTyped
<1>2. ASSUME NEW i \in Track, NEW start \in Nat, FleetPlay(i, start)
      PROVE  fsStart' \in 0 .. MaxTsf
  BY <1>2, Sizes DEF FleetPlay
<1>3. CASE AskFleet
  <2>1. tsf + Lead \in Nat
    BY <1>0, Sizes DEF ClockTyped, DjRun
  <2>2. fsStart' \in 0 .. MaxTsf
    <3>1. CASE FleetStop
      BY <3>1, Sizes DEF FleetStop
    <3> QED BY <1>2, <1>3, <2>1, <3>1 DEF AskFleet
  <2> QED BY <1>0, <1>3, <2>2 DEF AskFleet, ClockTyped
<1>4. CASE OnPlayPacket
  <2>1. PICK start \in {s \in {tsf - 1, tsf, tsf + Lead} : s > DjRun} \ {playSeen} :
             /\ playSeen' = start
             /\ \/ \E i \in Track : FleetPlay(i, start)
                \/ FleetStop
                \/ UNCHANGED <<engine, queue, lost, lastAsk>>
    BY <1>4 DEF OnPlayPacket
  <2>2. start \in 0 .. MaxTsf + Lead /\ start \in Nat
    BY <1>0, Sizes DEF ClockTyped, DjRun
  <2>3. fsStart' \in 0 .. MaxTsf
    <3>1. CASE FleetStop
      BY <3>1, Sizes DEF FleetStop
    <3>2. CASE UNCHANGED <<engine, queue, lost, lastAsk>>
      BY <1>0, <3>2 DEF engine, ClockTyped
    <3> QED BY <1>2, <2>1, <2>2, <3>1, <3>2
  <2> QED BY <1>0, <1>4, <2>1, <2>2, <2>3 DEF OnPlayPacket, ClockTyped
<1>5. CASE OnBeacon \/ OnDjPacket \/ FirstFrame \/ NextFrame \/ TrackEnds \/ UNCHANGED vars
  BY <1>0, <1>5 DEF OnBeacon, OnDjPacket, FirstFrame, NextFrame, TrackEnds, vars, engine, ClockTyped
<1>6. CASE OpenFile
  <2>1. fsStart' \in {fsStart, 0} /\ UNCHANGED <<tsf, playSeen>>
    BY <1>6 DEF OpenFile, Fail
  <2> QED BY <1>0, <2>1, Sizes DEF ClockTyped
<1>7. CASE Take
  <2>1. fsStart' \in {fsStart, 0} /\ UNCHANGED <<tsf, playSeen>>
    BY <1>0, <1>7, TakeStep DEF TakeFleet, TakePlay, TakeStop, TakePause, TakeSkip
  <2> QED BY <1>0, <2>1, Sizes DEF ClockTyped
<1>8. ASSUME NEW t \in Task, Connected(t) \/ ClientEnds(t) \/ Block(t) PROVE ClockTyped'
  BY <1>0, <1>8 DEF Connected, ClientEnds, Block, engine, ClockTyped
<1>9. ASSUME NEW u \in Task, PumpStarts(u) \/ PumpWrites(u) \/ PumpEnds(u) PROVE ClockTyped'
  <2>1. fsStart' \in {fsStart, 0, DjRun} /\ UNCHANGED <<tsf, playSeen>>
    BY <1>9 DEF PumpStarts, PumpWrites, PumpEnds
  <2>2. 0 \in 0 .. MaxTsf /\ DjRun \in 0 .. MaxTsf
    BY Sizes DEF DjRun
  <2> QED BY <1>0, <2>1, <2>2 DEF ClockTyped
<1>10. CASE Tick
  BY <1>0, <1>10, Sizes DEF Tick, engine, ClockTyped, DjRun
<1> QED BY <1>1, <1>3, <1>4, <1>5, <1>6, <1>7, <1>8, <1>9, <1>10 DEF Next

\* The sessions of Mode B.
LEMMA SessionStep ==
    ASSUME Inv, [Next]_vars PROVE SessionTyped'
<1>0. Typed /\ SessionTyped
  BY DEF Inv, Typed
<1>1. CASE UNCHANGED modeB
  BY <1>0, <1>1 DEF modeB, SessionTyped
<1>2. CASE AskPlay \/ AskOp \/ AskToggle \/ AskFleet \/ OnPlayPacket \/ Take
  BY <1>0, <1>1, <1>2, AskStep, TakeStep
<1>3. CASE OnBeacon \/ OpenFile \/ FirstFrame \/ NextFrame \/ TrackEnds \/ Tick \/ UNCHANGED vars
  BY <1>1, <1>3 DEF OnBeacon, OpenFile, FirstFrame, NextFrame, TrackEnds, Tick, vars
<1>4. CASE OnDjPacket
  <2>1. CASE bfOn' = FALSE /\ UNCHANGED <<fill, client, pump>>
    BY <1>0, <2>1 DEF SessionTyped
  <2>2. ASSUME NEW t \in Task, NEW u \in Task, Tune(t, u) PROVE SessionTyped'
    BY <1>0, <2>2 DEF Tune, SessionTyped
  <2> QED BY <1>4, <2>1, <2>2 DEF OnDjPacket
<1>5. ASSUME NEW t \in Task, Connected(t) \/ ClientEnds(t) \/ Block(t) PROVE SessionTyped'
  <2>1. CASE Connected(t)
    BY <1>0, <2>1 DEF Connected, SessionTyped
  <2>2. CASE ClientEnds(t)
    BY <1>0, <2>2 DEF ClientEnds, SessionTyped
  <2>3. CASE Block(t)
    BY <1>0, <2>3 DEF Block, SessionTyped
  <2> QED BY <1>5, <2>1, <2>2, <2>3
<1>6. ASSUME NEW u \in Task, PumpStarts(u) \/ PumpEnds(u) PROVE SessionTyped'
  BY <1>0, <1>6 DEF PumpStarts, PumpEnds, SessionTyped
<1>7. ASSUME NEW u \in Task, PumpWrites(u) PROVE SessionTyped'
  BY <1>1, <1>7 DEF PumpWrites
<1> QED BY <1>2, <1>3, <1>4, <1>5, <1>6, <1>7 DEF Next

---------------------------------------------------------------------------
(* What the player holds. *)

\* A pump never ends without giving the speaker back.
LEMMA PumpsStep ==
    ASSUME Inv, [Next]_vars, spk => ~NoPump
    PROVE  UNCHANGED spk => (spk' => ~NoPump')
<1>0. Typed /\ pump \in [Task -> {"none", "prime", "play"}]
  BY DEF Inv, Typed, SessionTyped
<1>1. CASE UNCHANGED pump
  BY <1>1 DEF NoPump
<1>2. CASE AskPlay \/ AskOp \/ AskToggle \/ AskFleet \/ OnPlayPacket \/ Take
  BY <1>0, <1>1, <1>2, AskStep, TakeStep DEF modeB
<1>3. CASE OnBeacon \/ OpenFile \/ FirstFrame \/ NextFrame \/ TrackEnds \/ Tick \/ UNCHANGED vars
  BY <1>1, <1>3 DEF OnBeacon, OpenFile, FirstFrame, NextFrame, TrackEnds, Tick, vars, modeB
<1>4. CASE OnDjPacket
  <2>1. ASSUME NEW t \in Task, NEW u \in Task, Tune(t, u) PROVE ~NoPump'
    BY <1>0, <2>1 DEF Tune, NoPump
  <2> QED BY <1>1, <1>4, <2>1 DEF OnDjPacket
<1>5. ASSUME NEW t \in Task, Connected(t) \/ ClientEnds(t) \/ Block(t)
      PROVE  UNCHANGED spk => (spk' => ~NoPump')
  BY <1>1, <1>5 DEF Connected, ClientEnds, Block
<1>6. ASSUME NEW u \in Task, PumpStarts(u) PROVE ~NoPump'
  BY <1>0, <1>6 DEF PumpStarts, NoPump
<1>7. ASSUME NEW u \in Task, PumpWrites(u) PROVE UNCHANGED pump
  BY <1>7 DEF PumpWrites, modeB
<1>8. ASSUME NEW u \in Task, PumpEnds(u) PROVE spk' = FALSE
  BY <1>8 DEF PumpEnds
<1> QED BY <1>1, <1>2, <1>3, <1>4, <1>5, <1>6, <1>7, <1>8 DEF Next

\* What plays has a file; the speaker of what does not is a pump's.
LEMMA HoldsStep ==
    ASSUME Inv, [Next]_vars PROVE Holds'
<1>0. Typed /\ Holds /\ NoJob.at = "idle"
  BY DEF Inv, NoJob
<1>1. CASE UNCHANGED player
  BY <1>0, <1>1, PumpsStep DEF player, Holds
<1>2. CASE Take
  <2> DEFINE c == Head(queue)
  <2>1. job = NoJob
    BY <1>0, <1>2, TakeStep
  <2>2. CASE TakeFleet(c) \/ TakePlay(c) \/ TakeSkip(c)
    <3>1. job'.at = "file" /\ spk' = FALSE
      BY <2>2 DEF TakeFleet, TakePlay, TakeSkip, StartOpen, CloseTrack
    <3> QED BY <1>0, <3>1 DEF Holds
  <2>3. CASE TakeStop(c)
    <3>1. state' = "STOPPED" /\ job' = job /\ spk' = FALSE
      BY <2>3 DEF TakeStop, CloseTrack
    <3> QED BY <1>0, <2>1, <3>1 DEF Holds
  <2>4. CASE TakePause(c)
    <3>1. /\ job' = job /\ file' = file /\ UNCHANGED spk
          /\ state' = "STOPPED" <=> state = "STOPPED"
      BY <1>0, <2>4 DEF TakePause, Typed, PlayerTyped
    <3> QED BY <1>0, <2>1, <3>1, PumpsStep DEF Holds
  <2> QED BY <1>0, <1>2, <2>2, <2>3, <2>4, TakeStep
<1>3. CASE OpenFile
  <2>1. CASE Fail(job.op)
    <3>1. state' = "STOPPED" /\ job' = NoJob /\ (spk' = FALSE \/ UNCHANGED spk)
      BY <2>1 DEF Fail, CloseTrack
    <3>2. spk => ~NoPump
      BY <1>0, <1>3 DEF OpenFile, Holds
    <3> QED BY <1>0, <3>1, <3>2, PumpsStep DEF Holds
  <2>2. CASE file' = TRUE /\ job' = [job EXCEPT !.at = "first"]
    <3>1. job \in Opening
      BY <1>0, <1>3 DEF OpenFile, Typed, PlayerTyped
    <3>2. job'.at = "first"
      BY <2>2, <3>1 DEF Opening
    <3> QED BY <1>0, <2>2, <3>2 DEF Holds
  <2> QED BY <1>3, <2>1, <2>2 DEF OpenFile
<1>4. CASE FirstFrame
  BY <1>0, <1>4 DEF FirstFrame, Holds
<1>5. CASE TrackEnds
  <2>1. job'.at = "file" /\ spk' = FALSE
    BY <1>5 DEF TrackEnds, StartOpen, CloseTrack
  <2> QED BY <1>0, <2>1 DEF Holds
<1>6. ASSUME NEW u \in Task, PumpStarts(u) PROVE Holds'
  <2>1. ~NoPump'
    BY <1>0, <1>6 DEF PumpStarts, NoPump, Typed, SessionTyped
  <2> QED BY <1>0, <1>6, <2>1 DEF PumpStarts, Holds
<1>7. ASSUME NEW u \in Task, PumpEnds(u) PROVE Holds'
  BY <1>0, <1>7 DEF PumpEnds, Holds
<1>8. CASE \E t \in Task : Connected(t) \/ ClientEnds(t) \/ Block(t) \/ PumpWrites(t)
  BY <1>0, <1>1, <1>8, PlayerKept
<1>9. CASE \/ AskPlay \/ AskOp \/ AskToggle \/ AskFleet \/ OnPlayPacket \/ OnBeacon \/ OnDjPacket
           \/ NextFrame \/ Tick \/ UNCHANGED vars
  BY <1>0, <1>1, <1>9, PlayerKept
<1> QED BY <1>2, <1>3, <1>4, <1>5, <1>6, <1>7, <1>8, <1>9 DEF Next

---------------------------------------------------------------------------
(* Who is slaved to a clock. *)

\* A start time other than 0 stays accounted for.
LEMMA ChasesStep ==
    ASSUME Inv, [Next]_vars PROVE Chases'
<1>0. Typed /\ Chases /\ pump \in [Task -> {"none", "prime", "play"}]
  BY DEF Inv, Typed, SessionTyped
<1>1. CASE /\ fsStart' = fsStart \/ fsStart' = 0
           /\ lost' = lost /\ lastPlay' = lastPlay /\ queue' = queue /\ pump' = pump
  BY <1>0, <1>1 DEF Chases, FleetWaits, NoPump
<1>2. CASE AskPlay \/ AskOp \/ AskToggle \/ AskFleet \/ OnPlayPacket
  <2>1. /\ lost => lost'
        /\ FleetWaits => FleetWaits'
        /\ fsStart' = fsStart \/ fsStart' = 0 \/ lost' \/ FleetWaits'
        /\ lastPlay' = lastPlay /\ pump' = pump
    BY <1>0, <1>2, AskStep DEF player, modeB
  <2> QED BY <1>0, <2>1 DEF Chases, NoPump
<1>3. CASE OnBeacon \/ OpenFile \/ FirstFrame \/ NextFrame \/ TrackEnds \/ Tick \/ UNCHANGED vars
  BY <1>1, <1>3
     DEF OnBeacon, OpenFile, Fail, FirstFrame, NextFrame, TrackEnds, Tick, vars, player, engine,
         modeB, asked
<1>4. CASE OnDjPacket
  <2>1. ASSUME NEW t \in Task, NEW u \in Task, Tune(t, u) PROVE Chases'
    <3>1. ~NoPump'
      BY <1>0, <2>1 DEF Tune, NoPump
    <3> QED BY <3>1 DEF Chases
  <2>2. CASE UNCHANGED pump
    BY <1>1, <1>4, <2>2 DEF OnDjPacket, player, engine
  <2> QED BY <1>4, <2>1, <2>2 DEF OnDjPacket
<1>5. CASE Take
  <2> DEFINE c == Head(queue)
  <2>1. /\ FleetWaits => FleetWaits' \/ c.op = "FLEET"
        /\ lost' = lost /\ pump' = pump
    BY <1>0, <1>5, TakeQueue, TakeStep DEF Typed, asked, modeB
  <2>2. CASE lastPlay' = "fleet"
    BY <2>2 DEF Chases
  <2>3. CASE fsStart' = 0
    BY <2>3 DEF Chases
  <2>4. CASE c.op # "FLEET" /\ fsStart' = fsStart /\ lastPlay' = lastPlay
    BY <1>0, <2>1, <2>4 DEF Chases, NoPump
  <2> QED BY <1>0, <1>5, <2>2, <2>3, <2>4, TakeStep DEF TakePlay, TakeStop, TakePause, TakeSkip
<1>6. ASSUME NEW t \in Task, Connected(t) \/ ClientEnds(t) \/ Block(t) PROVE Chases'
  BY <1>1, <1>6 DEF Connected, ClientEnds, Block, player, engine, asked
<1>7. ASSUME NEW u \in Task, PumpStarts(u) PROVE Chases'
  <2>1. ~NoPump'
    BY <1>0, <1>7 DEF PumpStarts, NoPump
  <2> QED BY <2>1 DEF Chases
<1>8. ASSUME NEW u \in Task, PumpWrites(u) PROVE Chases'
  BY <1>1, <1>8 DEF PumpWrites, player, modeB, asked
<1>9. ASSUME NEW u \in Task, PumpEnds(u) PROVE Chases'
  BY <1>9 DEF PumpEnds, Chases
<1> QED BY <1>2, <1>3, <1>4, <1>5, <1>6, <1>7, <1>8, <1>9 DEF Next

---------------------------------------------------------------------------
(* The theorems. *)

LEMMA InitInv == ASSUME Init PROVE Inv
<1>1. queue \in Seq(Command) /\ Len(queue) = 0 /\ 1 .. Len(queue) = {}
  BY DEF Init
<1>2. Typed
  <2>1. QueueTyped
    BY <1>1, Sizes DEF QueueTyped
  <2>2. ClockTyped
    BY Sizes DEF Init, ClockTyped, DjRun
  <2>3. PlayerTyped /\ EngineTyped
    BY DEF Init, PlayerTyped, EngineTyped
  <2>4. SessionTyped
    <3>1. fill \in 0 .. 2
      BY DEF Init
    <3>2. bfOn \in BOOLEAN
      BY Zenon DEF Init
    <3>3. /\ client \in [Task -> {"none", "connect", "stream"}]
          /\ pump \in [Task -> {"none", "prime", "play"}]
      BY Zenon DEF Init
    <3> QED BY <3>1, <3>2, <3>3, Zenon DEF SessionTyped
  <2>5. AskedTyped
    <3>1. asks \in 0 .. MaxAsk
      BY Sizes DEF Init
    <3> QED BY <3>1, Zenon DEF Init, AskedTyped
  <2> QED BY <2>1, <2>2, <2>3, <2>4, <2>5 DEF Typed
<1>3. Holds /\ Chases
  BY DEF Init, Holds, Chases, NoJob
<1> QED BY <1>2, <1>3 DEF Inv

LEMMA InvHolds == Spec => []Inv
<1>1. Init => Inv
  BY InitInv
<1>2. Inv /\ [Next]_vars => Inv'
  <2> SUFFICES ASSUME Inv, [Next]_vars PROVE Inv'
    OBVIOUS
  <2>1. Typed'
    BY QueueStep, PlayerStep, EngineStep, ClockStep, SessionStep DEF Typed
  <2> QED BY <2>1, HoldsStep, ChasesStep DEF Inv
<1> QED BY <1>1, <1>2, PTL DEF Spec

\* Whatever the tasks do to each other, the queue stays within its length, a job names a
\* track of the card and the start time stays on the clock.
THEOREM TypeCorrect == Spec => []TypeOK
<1>1. Inv => TypeOK
  <2> SUFFICES ASSUME Inv PROVE TypeOK
    OBVIOUS
  <2>1. QueueTyped /\ PlayerTyped /\ EngineTyped /\ ClockTyped /\ SessionTyped /\ AskedTyped
    BY DEF Inv, Typed
  <2>2. tsf \in Nat
    BY <2>1, Sizes DEF ClockTyped, DjRun
  <2> QED BY <2>1, <2>2 DEF TypeOK, QueueTyped, PlayerTyped, EngineTyped, ClockTyped, SessionTyped,
             AskedTyped, Command, Opening
<1> QED BY <1>1, InvHolds, PTL

\* The player reads only an open file, and a stopped one leaves the speaker to others.
THEOREM SpeakerHeld == Spec => []HoldsWhatItUses
<1>1. Inv => HoldsWhatItUses
  <2> SUFFICES ASSUME Inv, job = NoJob PROVE IF state # "STOPPED" THEN file ELSE NoPump => ~spk
    BY DEF HoldsWhatItUses
  <2>1. Holds
    BY DEF Inv
  <2>2. CASE state # "STOPPED"
    BY <2>1, <2>2 DEF Holds
  <2>3. CASE state = "STOPPED"
    BY <2>1, <2>3 DEF Holds
  <2> QED BY <2>2, <2>3
<1> QED BY <1>1, InvHolds, PTL

\* A local play that was carried out is not slaved to a clock.
THEOREM LocalPlayIsFree == Spec => []NoGhostChase
<1>1. Inv => NoGhostChase
  <2> SUFFICES ASSUME Inv, lastPlay = "local", queue = <<>>, ~lost, NoPump PROVE fsStart = 0
    BY DEF NoGhostChase
  <2>1. ~FleetWaits
    BY DEF FleetWaits
  <2> QED BY <2>1 DEF Inv, Chases
<1> QED BY <1>1, InvHolds, PTL

-----------------------------------------------------------------------------
(* The walker: its constants and strips. *)

\* What a proof uses of the constants of the walker.
LEMMA WalkerSizes ==
    /\ N \in Nat /\ N >= 1 /\ Width \in Nat /\ Width >= 1 /\ Win \in Nat /\ Win >= 1
    /\ RingMax \in Nat /\ RingMax >= 1 /\ Lookahead \in Nat /\ Future \in Nat
    /\ Grace \in Nat /\ Silence \in Nat /\ Delay \in Nat /\ MaxFault \in Nat /\ MaxLeave \in Nat
    /\ \A w \in World : w \in [0 .. Win - 1 -> Int]
BY WalkerAssumption DEF WalkerAssumption

\* wk_own_strip answers one of the strips, wherever the walker is.
LEMMA StripTyped == ASSUME NEW p \in Int PROVE StripOf(p) \in Unit
<1> USE WalkerSizes
<1>1. CASE p < 0 \/ p >= N * Width
  <2>1. StripOf(p) = 0 \/ StripOf(p) = N - 1
    BY <1>1 DEF StripOf
  <2> QED BY <2>1 DEF Unit
<1>2. CASE 0 <= p /\ p < N * Width
  <2> DEFINE d == p \div Width
  <2>1. d \in Int /\ Width * d <= p /\ p < Width * d + Width
    OBVIOUS
  <2>2. ~(p < 0) /\ ~(p >= N * Width)
    BY <1>2
  <2>3. StripOf(p) = d
    BY <2>2 DEF StripOf
  <2> HIDE DEF d
  <2>4. d >= 0
    <3> SUFFICES ASSUME d + 1 <= 0 PROVE FALSE
      BY <2>1
    <3>1. Width * (d + 1) <= 0 /\ Width * (d + 1) = Width * d + Width
      BY <2>1
    <3> QED BY <1>2, <2>1, <3>1
  <2>5. d < N
    <3> SUFFICES ASSUME d >= N PROVE FALSE
      BY <2>1
    <3>1. Width * d >= Width * N /\ Width * N = N * Width
      BY <2>1
    <3> QED BY <1>2, <2>1, <3>1
  <2> QED BY <2>1, <2>3, <2>4, <2>5 DEF Unit
<1> QED
  <2>1. N * Width \in Int
    OBVIOUS
  <2> QED BY <1>1, <1>2, <2>1

\* The least of a set of numbers.
LEMMA LeastOf ==
    ASSUME NEW T \in SUBSET Nat, T # {} PROVE \E a \in T : \A b \in T : a <= b
<1> DEFINE R == OpToRel(<, Nat)
<1>1. IsWellFoundedOn(R, Nat)
  BY NatLessThanWellFounded
<1>2. R = {ss \in Nat \X Nat : ss[1] < ss[2]}
  BY DEF OpToRel
<1> HIDE DEF R
<1>3. PICK a \in T : \A b \in T : <<b, a>> \notin R
  BY <1>1, WFMin
<1>4. ASSUME NEW b \in T PROVE a <= b
  <2>1. <<b, a>> \in Nat \X Nat /\ <<b, a>>[1] = b /\ <<b, a>>[2] = a
    OBVIOUS
  <2>2. ~(b < a)
    BY <1>2, <1>3, <2>1
  <2> QED BY <2>2
<1> QED BY <1>4

---------------------------------------------------------------------------
(* The shadow simulation. *)

\* The run of the shadow up to its k-th move.
IsRun(run, s, k, p) == run = [i \in 0 .. k |-> IF i = 0 THEN p ELSE Move(run[i - 1], s + i)]

LEMMA RunExists ==
    ASSUME NEW s, NEW k \in Nat, NEW p PROVE \E run : IsRun(run, s, k, p)
<1> DEFINE T == {j \in Nat : ~ \E run : IsRun(run, s, j, p)}
<1> SUFFICES ASSUME T # {} PROVE FALSE
  OBVIOUS
<1>1. PICK a \in T : \A b \in T : a <= b
  BY LeastOf
<1>2. CASE a = 0
  <2>1. IsRun([i \in 0 .. 0 |-> p], s, 0, p)
    BY DEF IsRun
  <2> QED BY <1>1, <1>2, <2>1
<1>3. CASE a # 0
  <2>1. a - 1 \in Nat /\ a - 1 \notin T /\ a \in Nat
    BY <1>1, <1>3
  <2>2. PICK run : IsRun(run, s, a - 1, p)
    BY <2>1
  <2> DEFINE longer == [i \in 0 .. a |-> IF i < a THEN run[i] ELSE Move(run[a - 1], s + a)]
  <2>3. longer = [i \in 0 .. a |-> IF i = 0 THEN p ELSE Move(longer[i - 1], s + i)]
    <3>1. ASSUME NEW i \in 0 .. a
          PROVE  longer[i] = IF i = 0 THEN p ELSE Move(longer[i - 1], s + i)
      <4>1. CASE i = a
        BY <2>1, <1>3, <4>1
      <4>2. CASE i < a
        <5>1. i \in 0 .. a - 1 /\ longer[i] = run[i]
          BY <2>1, <4>2
        <5>2. run[i] = IF i = 0 THEN p ELSE Move(run[i - 1], s + i)
          BY <2>2, <5>1 DEF IsRun
        <5>3. i # 0 => longer[i - 1] = run[i - 1]
          BY <2>1, <4>2
        <5> QED BY <5>1, <5>2, <5>3
      <4> QED BY <2>1, <4>1, <4>2
    <3> QED BY <3>1
  <2>4. IsRun(longer, s, a, p)
    BY <2>3 DEF IsRun
  <2> QED BY <1>1, <2>4
<1> QED BY <1>2, <1>3

\* The shadow ends at a place of the world as long as it stays within the window.
LEMMA ShadowTyped ==
    ASSUME world \in World, NEW s \in Nat, NEW k \in Nat, s + k < Win, NEW p \in Int
    PROVE  Shadow(s, k, p) \in Int
<1> DEFINE run == CHOOSE g : IsRun(g, s, k, p)
<1>1. IsRun(run, s, k, p)
  BY RunExists
<1>2. Shadow(s, k, p) = run[k]
  BY DEF Shadow, IsRun
<1> HIDE DEF run
<1> DEFINE T == {i \in 0 .. k : run[i] \notin Int}
<1>3. T = {}
  <2> SUFFICES ASSUME T # {} PROVE FALSE
    OBVIOUS
  <2>1. PICK a \in T : \A b \in T : a <= b
    <3>1. T \in SUBSET Nat
      OBVIOUS
    <3> HIDE DEF T
    <3> QED BY <3>1, LeastOf
  <2>2. a \in 0 .. k /\ run[a] \notin Int /\ run[a] = IF a = 0 THEN p ELSE Move(run[a - 1], s + a)
    BY <1>1, <2>1 DEF IsRun
  <2>3. a # 0 /\ a - 1 \in 0 .. k /\ a - 1 \notin T
    BY <2>1, <2>2
  <2>4. run[a - 1] \in Int /\ world[s + a] \in Int
    <3>1. s + a \in 0 .. Win - 1
      BY <2>2, WalkerSizes
    <3> QED BY <2>3, <3>1, WalkerSizes
  <2> QED BY <2>2, <2>3, <2>4 DEF Move
<1> QED BY <1>2, <1>3

\* An owner never promises past the ring's depth, nor past the window.
LEMMA AheadBounded ==
    ASSUME NEW s \in 0 .. Win - 1, Ahead(s) > 0
    PROVE  Ahead(s) \in Nat /\ s + Ahead(s) < Win /\ Ahead(s) <= RingMax - 2
BY WalkerSizes DEF Ahead

---------------------------------------------------------------------------
(* The ring. *)

Frame == [step : 0 .. Win - 1, x : Int, old : BOOLEAN]

\* At most WKF_N frames, no two of one step.
IsRing(r) ==
    /\ r \subseteq Frame /\ IsFiniteSet(r) /\ Cardinality(r) <= RingMax
    /\ \A e, f \in r : e.step = f.step => e = f

LEMMA SubRing == ASSUME NEW r, IsRing(r), NEW t \in SUBSET r PROVE IsRing(t)
<1>1. IsFiniteSet(t) /\ Cardinality(t) <= Cardinality(r)
  BY FS_Subset DEF IsRing
<1>2. Cardinality(t) \in Nat /\ Cardinality(r) \in Nat
  BY <1>1, FS_CardinalityType DEF IsRing
<1> QED BY <1>1, <1>2, WalkerSizes DEF IsRing

\* At the anchor every frame of a ring becomes one of the window before.
LEMMA AgedRing ==
    ASSUME NEW r, IsRing(r) PROVE IsRing({[e EXCEPT !.old = TRUE] : e \in r})
<1> DEFINE T == {[e EXCEPT !.old = TRUE] : e \in r}
           g == [e \in r |-> [e EXCEPT !.old = TRUE]]
<1>1. T \subseteq Frame
  BY DEF IsRing, Frame
<1>2. IsFiniteSet(T) /\ Cardinality(T) <= Cardinality(r)
  <2>1. g \in Surjection(r, T)
    BY Fun_IsSurj
  <2> QED BY <2>1, FS_Surjection DEF IsRing
<1>3. ASSUME NEW e \in T, NEW f \in T, e.step = f.step PROVE e = f
  <2>1. PICK d \in r : e = [d EXCEPT !.old = TRUE]
    OBVIOUS
  <2>2. PICK c \in r : f = [c EXCEPT !.old = TRUE]
    OBVIOUS
  <2>3. e.step = d.step /\ f.step = c.step
    BY <2>1, <2>2 DEF IsRing, Frame
  <2>4. d = c
    BY <1>3, <2>3 DEF IsRing
  <2> QED BY <2>1, <2>2, <2>4
<1>4. Cardinality(T) \in Nat /\ Cardinality(r) \in Nat
  BY <1>2, FS_CardinalityType DEF IsRing
<1>5. Cardinality(T) <= RingMax
  <2>1. Cardinality(r) <= RingMax
    BY DEF IsRing
  <2> HIDE DEF T
  <2> QED BY <1>2, <1>4, <2>1, WalkerSizes
<1> HIDE DEF T
<1>6. IsRing(T)
  BY <1>1, <1>2, <1>3, <1>5 DEF IsRing
<1> QED BY <1>6 DEF T

LEMMA OldestIs ==
    ASSUME NEW r, IsRing(r), r # {}
    PROVE  Oldest(r) \in r /\ \A f \in r : Oldest(r).step <= f.step
<1> DEFINE T == {f.step : f \in r}
<1>1. T \in SUBSET Nat /\ T # {}
  BY WalkerSizes DEF IsRing, Frame
<1>2. PICK a \in T : \A b \in T : a <= b
  BY <1>1, LeastOf
<1>3. PICK e \in r : e.step = a
  BY <1>2
<1>4. \A f \in r : e.step <= f.step
  BY <1>2, <1>3
<1> QED BY <1>4 DEF Oldest

\* What is banked leaves a ring: the slot of the same step is used again, a free one is
\* taken, or the true oldest goes.
LEMMA BankedRing == ASSUME NEW r, IsRing(r), NEW e \in Frame PROVE IsRing(Banked(r, e))
<1> DEFINE others == {f \in r : f.step # e.step}
           full == others = r /\ Cardinality(r) = RingMax
           left == IF full THEN r \ {Oldest(r)} ELSE others
<1>1. Banked(r, e) = left \cup {e}
  BY DEF Banked
<1>2. left \subseteq others /\ IsFiniteSet(left) /\ IsFiniteSet(others)
  <2>1. left \subseteq others /\ others \subseteq r
    OBVIOUS
  <2> QED BY <2>1, FS_Subset DEF IsRing
<1>3. Cardinality(left) \in Nat /\ Cardinality(r) \in Nat /\ Cardinality(left) <= RingMax - 1
  <2>1. Cardinality(left) \in Nat /\ Cardinality(r) \in Nat /\ Cardinality(r) <= RingMax
    BY <1>2, FS_CardinalityType DEF IsRing
  <2>2. CASE full
    <3>1. r # {}
      <4>1. IsFiniteSet(r) /\ Cardinality(r) # 0
        BY <2>2, WalkerSizes DEF IsRing
      <4> HIDE DEF others, left, full
      <4> QED BY <4>1, FS_EmptySet
    <3>2. Cardinality(left) = Cardinality(r) - 1
      BY <2>2, <3>1, OldestIs, FS_RemoveElement DEF IsRing
    <3> QED BY <2>1, <2>2, <3>2, WalkerSizes
  <2>3. CASE ~full
    <3>1. left = others /\ others \in SUBSET r
      BY <2>3
    <3>2. Cardinality(others) <= Cardinality(r) /\ (Cardinality(r) = Cardinality(others) => r = others)
      BY <3>1, FS_Subset DEF IsRing
    <3>3. Cardinality(others) = Cardinality(left)
      BY <3>1
    <3> HIDE DEF others, left
    <3>4. others = r => Cardinality(r) # RingMax
      BY <2>3
    <3> QED BY <2>1, <3>2, <3>3, <3>4, WalkerSizes
  <2> QED BY <2>1, <2>2, <2>3
<1> HIDE DEF left
<1>4. IsFiniteSet(left \cup {e}) /\ Cardinality(left \cup {e}) <= Cardinality(left) + 1
  <2>1. IsFiniteSet(left) /\ Cardinality(left) \in Nat
    BY <1>2, <1>3
  <2> HIDE DEF others, full
  <2>2. /\ IsFiniteSet(left \cup {e})
        /\ Cardinality(left \cup {e}) = IF e \in left THEN Cardinality(left) ELSE Cardinality(left) + 1
    BY <2>1, FS_AddElement
  <2> QED BY <2>1, <2>2
<1>5. Cardinality(left \cup {e}) \in Nat
  BY <1>4, FS_CardinalityType
<1>6. \A f, g \in left \cup {e} : f.step = g.step => f = g
  BY <1>2 DEF IsRing
<1>7. left \cup {e} \subseteq Frame
  BY <1>2 DEF IsRing
<1>8. Cardinality(left \cup {e}) <= RingMax
  BY <1>3, <1>4, <1>5, WalkerSizes
<1> QED BY <1>1, <1>4, <1>6, <1>7, <1>8 DEF IsRing

\* As long as all promises lie within WKF_N steps of a simulation, only one whose step
\* has come is given up for a new one.
LEMMA BankedKeeps ==
    ASSUME NEW r, IsRing(r), NEW e \in Frame, NEW q \in Nat, e.step > q,
           \A f \in r \cup {e} : f.step <= q + RingMax,
           NEW f \in r, f.step > q
    PROVE  \E g \in Banked(r, e) : g.step = f.step
<1> DEFINE others == {g \in r : g.step # e.step}
           full == others = r /\ Cardinality(r) = RingMax
<1>1. CASE ~full
  <2>1. Banked(r, e) = {e} \cup others
    BY <1>1 DEF Banked
  <2> QED BY <2>1
<1>2. CASE full /\ f # Oldest(r)
  BY <1>2 DEF Banked
<1>3. CASE full /\ f = Oldest(r)
  <2> DEFINE T == {g.step : g \in r \cup {e}}
             h == [g \in r \cup {e} |-> g.step]
  <2>1. \A g \in r : g.step >= f.step
    BY <1>3, OldestIs
  <2>2. T \subseteq q + 1 .. q + RingMax
    BY <2>1, WalkerSizes DEF IsRing, Frame
  <2>3. IsFiniteSet(q + 1 .. q + RingMax) /\ Cardinality(q + 1 .. q + RingMax) = RingMax
    BY FS_Interval, WalkerSizes
  <2>4. e \notin r
    BY <1>3
  <2>5. IsFiniteSet(r \cup {e}) /\ Cardinality(r \cup {e}) = RingMax + 1
    BY <1>3, <2>4, FS_AddElement DEF IsRing
  <2>6. h \in [r \cup {e} -> q + 1 .. q + RingMax]
    BY <2>2
  <2>7. \A a, b \in r \cup {e} : h[a] = h[b] => a = b
    BY <1>3 DEF IsRing
  <2>8. h \in Injection(r \cup {e}, q + 1 .. q + RingMax)
    BY <2>6, <2>7, Fun_IsInj
  <2>9. Cardinality(r \cup {e}) <= Cardinality(q + 1 .. q + RingMax)
    BY <2>3, <2>8, FS_Injection
  <2> QED BY <2>3, <2>5, <2>9, WalkerSizes
<1> QED BY <1>1, <1>2, <1>3

---------------------------------------------------------------------------
(* The inductive invariant. *)

Datagram == [from : Unit, owner : Unit, step : 0 .. Win - 1, x : Int, age : 0 .. Delay,
             old : BOOLEAN]

WindowTyped ==
    /\ world \in World /\ now \in 0 .. Win - 1
    /\ shown \subseteq Unit /\ anchored \subseteq Unit /\ drawn \subseteq Unit

SimTyped ==
    /\ steps \in [Unit -> 0 .. Win - 1] /\ x \in [Unit -> Int]
    /\ replaying \in [Unit -> BOOLEAN]

BookTyped ==
    /\ owner \in [Unit -> Unit] /\ claimAge \in [Unit -> 0 .. Old]
    /\ rxAge \in [Unit -> 0 .. Silence + 1] /\ grace \in [Unit -> 0 .. Grace]
    /\ resync \subseteq Unit

RingsTyped == ring \in [Unit -> SUBSET Frame] /\ \A u \in Unit : IsRing(ring[u])

AirTyped == net \subseteq Datagram /\ IsFiniteSet(net)

CountsTyped == faults \in 0 .. MaxFault /\ leaves \in 0 .. MaxLeave /\ dual \in Nat

\* No simulation runs ahead of the clock.
InStep == \A u \in anchored : steps[u] <= now

\* A beacon names a step that was ahead when it was sent, by no more than a ring's depth
\* allows; one sent before the anchor names a step of the window's end.
Promised ==
    \A m \in net : /\ m.old => m.step + m.age > now + Win
                   /\ ~m.old => m.step + m.age > now /\ m.step + m.age <= now + RingMax - 2

\* So does what a ring keeps.
InReach == \A u \in Unit : \A e \in ring[u] : ~e.old => e.step <= now + RingMax - 2

WalkerInv ==
    /\ WindowTyped /\ SimTyped /\ BookTyped /\ RingsTyped /\ AirTyped /\ CountsTyped
    /\ InStep /\ Promised /\ InReach

\* What an anchored panel banked is of this window.
OwnRings == \A u \in anchored : \A e \in ring[u] : ~e.old

LEMMA SpawnIn == Spawn \in Int
BY WalkerSizes DEF Spawn

LEMMA OldIs == Old \in Nat /\ Old = Delay + 1
BY WalkerSizes DEF Old

LEMMA EmptyRing == IsRing({})
BY FS_EmptySet, WalkerSizes DEF IsRing

\* A place in the script of the window.
LEMMA MoveTyped ==
    ASSUME world \in World, NEW q \in 0 .. Win - 1, NEW p \in Int PROVE Move(p, q) \in Int
BY WalkerSizes DEF Move

LEMMA WalkerInitInv == ASSUME WalkerInit PROVE WalkerInv /\ OwnRings
<1> USE WalkerSizes DEF WalkerInit
<1>1. 0 \in Unit
  BY DEF Unit
<1>2. WindowTyped /\ SimTyped
  BY SpawnIn DEF WindowTyped, SimTyped
<1>3. BookTyped
  BY <1>1, OldIs DEF BookTyped
<1>4. RingsTyped
  <2>1. ring \in [Unit -> SUBSET Frame]
    OBVIOUS
  <2> QED BY <2>1, EmptyRing DEF RingsTyped
<1>5. AirTyped /\ CountsTyped
  BY FS_EmptySet DEF AirTyped, CountsTyped
<1>6. InStep /\ Promised /\ InReach /\ OwnRings
  BY DEF InStep, Promised, InReach, OwnRings
<1> QED BY <1>2, <1>3, <1>4, <1>5, <1>6 DEF WalkerInv

LEMMA RolloverInv == ASSUME WalkerInv, NEW u \in Unit, Rollover(u) PROVE WalkerInv'
<1> USE DEF WalkerInv
<1>0. /\ UNCHANGED <<world, now, shown, drawn, replaying, resync, net, faults, leaves, dual>>
      /\ anchored' = anchored \cup {u} /\ steps' = [steps EXCEPT ![u] = 0]
      /\ x' = [x EXCEPT ![u] = Spawn] /\ owner' = [owner EXCEPT ![u] = 0]
      /\ claimAge' = [claimAge EXCEPT ![u] = Old] /\ rxAge' = [rxAge EXCEPT ![u] = 0]
      /\ grace' = [grace EXCEPT ![u] = 0] /\ ring' = [ring EXCEPT ![u] = {}]
  BY DEF Rollover, counts
<1>1. WindowTyped' /\ AirTyped' /\ CountsTyped' /\ Promised'
  BY <1>0 DEF WindowTyped, AirTyped, CountsTyped, Promised
<1>2. SimTyped'
  BY <1>0, SpawnIn, WalkerSizes DEF SimTyped
<1>3. BookTyped'
  <2>1. 0 \in Unit
    BY WalkerSizes DEF Unit
  <2> QED BY <1>0, <2>1, OldIs, WalkerSizes DEF BookTyped
<1>4. RingsTyped' /\ InReach'
  <2>1. ring' \in [Unit -> SUBSET Frame] /\ \A v \in Unit : ring'[v] = IF v = u THEN {} ELSE ring[v]
    BY <1>0 DEF RingsTyped
  <2> QED BY <1>0, <2>1, EmptyRing DEF RingsTyped, InReach
<1>5. InStep'
  BY <1>0 DEF InStep, SimTyped, WindowTyped
<1> QED BY <1>1, <1>2, <1>3, <1>4, <1>5

LEMMA ResyncInv == ASSUME WalkerInv, NEW u \in Unit, Resync(u) PROVE WalkerInv'
<1> USE DEF WalkerInv
<1>0. /\ UNCHANGED <<world, now, shown, anchored, drawn, x, owner, claimAge, grace, ring, net, faults,
                     leaves, dual>>
      /\ resync' = resync \ {u} /\ steps' = [steps EXCEPT ![u] = now]
      /\ replaying' = [replaying EXCEPT ![u] = FALSE] /\ rxAge' = [rxAge EXCEPT ![u] = 0]
  BY DEF Resync, counts
<1>1. WindowTyped' /\ AirTyped' /\ RingsTyped' /\ CountsTyped' /\ Promised' /\ InReach'
  BY <1>0 DEF WindowTyped, AirTyped, RingsTyped, CountsTyped, Promised, InReach
<1>2. SimTyped' /\ InStep'
  <2>1. now \in 0 .. Win - 1
    BY DEF WindowTyped
  <2> QED BY <1>0, <2>1 DEF SimTyped, InStep, WindowTyped
<1>3. BookTyped'
  BY <1>0, WalkerSizes DEF BookTyped
<1> QED BY <1>1, <1>2, <1>3

\* What adopting does to place and ring.
LEMMA AdoptIs ==
    ASSUME WalkerInv, NEW u \in Unit, NEW q \in 0 .. Win - 1, NEW p \in Int, Adopt(u, q, p)
    PROVE  /\ x' \in [Unit -> Int] /\ ring' \in [Unit -> SUBSET Frame]
           /\ ring'[u] = IF Owns(u) THEN ring[u] ELSE {e \in ring[u] : e.step > q}
           /\ \A v \in Unit \ {u} : ring'[v] = ring[v]
<1> USE DEF WalkerInv, SimTyped, RingsTyped
<1>1. CASE Owns(u)
  BY <1>1 DEF Adopt
<1>2. CASE ~Owns(u)
  <2> DEFINE y == IF Keyframe(u, q) = {} THEN p ELSE (CHOOSE e \in Keyframe(u, q) : TRUE).x
  <2>1. x' = [x EXCEPT ![u] = y] /\ ring' = [ring EXCEPT ![u] = {e \in @ : e.step > q}]
    BY <1>2, Zenon DEF Adopt
  <2>2. y \in Int
    <3>1. Keyframe(u, q) \subseteq Frame
      BY DEF Keyframe
    <3>2. CASE Keyframe(u, q) # {}
      <4>1. (CHOOSE e \in Keyframe(u, q) : TRUE) \in Keyframe(u, q)
        BY <3>2
      <4>2. (CHOOSE e \in Keyframe(u, q) : TRUE) \in Frame
        BY <3>1, <4>1
      <4> QED BY <3>2, <4>2 DEF Frame
    <3> QED BY <3>2
  <2> HIDE DEF y
  <2> QED BY <1>2, <2>1, <2>2
<1> QED BY <1>1, <1>2

LEMMA StepInv == ASSUME WalkerInv, NEW u \in Unit, Step(u) PROVE WalkerInv'
<1> USE DEF WalkerInv
<1> DEFINE q == steps[u]
           p == Move(x[u], q)
           live == now - q <= LiveLag
<1>0. /\ UNCHANGED <<world, now, shown, anchored, drawn, rxAge, resync, net, faults, leaves, dual>>
      /\ q < now /\ steps' = [steps EXCEPT ![u] = q + 1]
      /\ replaying' = [replaying EXCEPT ![u] = ~live] /\ Adopt(u, q, p)
  BY DEF Step, counts
<1>1. \/ UNCHANGED <<owner, claimAge, grace>>
      \/ /\ owner' = [owner EXCEPT ![u] = StripOf(p)]
         /\ claimAge' = [claimAge EXCEPT ![u] = 0] /\ grace' = [grace EXCEPT ![u] = Grace]
  BY DEF Step
<1>2. now \in 0 .. Win - 1 /\ q \in 0 .. Win - 1 /\ x[u] \in Int /\ world \in World
  BY DEF WindowTyped, SimTyped
<1>3. p \in Int /\ StripOf(p) \in Unit
  BY <1>2, MoveTyped, StripTyped
<1> HIDE DEF q, p, live
<1>4. WindowTyped' /\ AirTyped' /\ CountsTyped' /\ Promised'
  BY <1>0 DEF WindowTyped, AirTyped, CountsTyped, Promised
<1>5. SimTyped' /\ InStep'
  <2>1. x' \in [Unit -> Int]
    BY <1>0, <1>2, <1>3, AdoptIs
  <2>2. replaying' \in [Unit -> BOOLEAN]
    BY <1>0 DEF SimTyped
  <2>3. steps' \in [Unit -> 0 .. Win - 1] /\ InStep'
    BY <1>0, <1>2, WalkerSizes DEF SimTyped, InStep
  <2> QED BY <2>1, <2>2, <2>3 DEF SimTyped
<1>6. BookTyped'
  <2>1. 0 \in 0 .. Old /\ Grace \in 0 .. Grace
    BY OldIs, WalkerSizes
  <2>2. CASE UNCHANGED <<owner, claimAge, grace>>
    BY <1>0, <2>2 DEF BookTyped
  <2>3. CASE ~UNCHANGED <<owner, claimAge, grace>>
    BY <1>0, <1>1, <1>3, <2>1, <2>3 DEF BookTyped
  <2> QED BY <2>2, <2>3
<1>7. /\ ring' \in [Unit -> SUBSET Frame] /\ \A v \in Unit : ring'[v] \subseteq ring[v]
  BY <1>0, <1>2, <1>3, AdoptIs
<1>8. RingsTyped' /\ InReach'
  BY <1>0, <1>7, SubRing DEF RingsTyped, InReach
<1> QED BY <1>4, <1>5, <1>6, <1>8

\* The beacon of a panel at the clock's step.
LEMMA BeaconIs ==
    ASSUME WalkerInv, NEW u \in Unit, steps[u] = now, Ahead(steps[u]) > 0
    PROVE  /\ Beacon(u) \in Datagram /\ Beacon(u).age = 0 /\ Beacon(u).old = FALSE
           /\ Beacon(u).step >= now + 1 /\ Beacon(u).step <= now + RingMax - 2
<1> DEFINE s == steps[u]
           k == Ahead(steps[u])
           y == Shadow(s, k, x[u])
<1>1. world \in World /\ s \in 0 .. Win - 1 /\ s = now /\ x[u] \in Int /\ owner[u] \in Unit
  BY DEF WalkerInv, WindowTyped, SimTyped, BookTyped
<1>2. k \in Nat /\ k > 0 /\ s + k < Win /\ k <= RingMax - 2
  BY <1>1, AheadBounded
<1>3. Beacon(u) = [from |-> u, owner |-> owner[u], step |-> s + k, x |-> y, age |-> 0, old |-> FALSE]
  BY DEF Beacon
<1>4. y \in Int
  BY <1>1, <1>2, ShadowTyped
<1> HIDE DEF s, k, y
<1>5. s + k \in 0 .. Win - 1 /\ 0 \in 0 .. Delay
  <2>1. s \in Int /\ 0 <= s
    BY <1>1
  <2>2. Win \in Nat /\ Delay \in Nat
    BY WalkerSizes
  <2> QED BY <1>2, <2>1, <2>2
<1>6. Beacon(u) \in Datagram
  BY <1>1, <1>3, <1>4, <1>5 DEF Datagram
<1> QED BY <1>1, <1>2, <1>3, <1>6, WalkerSizes

LEMMA DrawInv == ASSUME WalkerInv, NEW u \in Unit, Draw(u) PROVE WalkerInv'
<1> USE DEF WalkerInv
<1>0. /\ UNCHANGED <<world, now, shown, anchored, steps, x, replaying, rxAge, grace, ring, faults, leaves, dual>>
      /\ drawn' = drawn \cup {u} /\ steps[u] = now
  BY DEF Draw, sim, counts
<1>1. net' = net \/ (net' = net \cup {Beacon(u)} /\ Ahead(steps[u]) > 0)
  BY Zenon DEF Draw
<1>2. \/ UNCHANGED <<owner, claimAge, resync>>
      \/ /\ owner' = [owner EXCEPT ![u] = u] /\ claimAge' = [claimAge EXCEPT ![u] = 0]
         /\ resync' = resync \cup {u}
  BY Zenon DEF Draw
<1>3. WindowTyped' /\ SimTyped' /\ RingsTyped' /\ CountsTyped' /\ InStep' /\ InReach'
  BY <1>0 DEF WindowTyped, SimTyped, RingsTyped, CountsTyped, InStep, InReach
<1>4. BookTyped'
  <2>1. 0 \in 0 .. Old
    BY OldIs, WalkerSizes
  <2>2. CASE UNCHANGED <<owner, claimAge, resync>>
    BY <1>0, <2>2 DEF BookTyped
  <2>3. CASE ~UNCHANGED <<owner, claimAge, resync>>
    BY <1>0, <1>2, <2>1, <2>3 DEF BookTyped
  <2> QED BY <2>2, <2>3
<1>5. AirTyped' /\ Promised'
  <2>1. CASE net' = net
    BY <1>0, <2>1 DEF AirTyped, Promised
  <2>2. CASE net' = net \cup {Beacon(u)} /\ Ahead(steps[u]) > 0
    <3> DEFINE b == Beacon(u)
    <3>1. /\ b \in Datagram /\ b.age = 0 /\ b.old = FALSE
          /\ b.step >= now + 1 /\ b.step <= now + RingMax - 2
      BY <1>0, <2>2, BeaconIs
    <3>2. net' = net \cup {b}
      BY <2>2
    <3> HIDE DEF b
    <3>3. AirTyped'
      BY <3>1, <3>2, FS_AddElement DEF AirTyped
    <3>4. b.step \in Int /\ now \in Int
      BY <3>1 DEF Datagram, WindowTyped
    <3>5. Promised'
      BY <1>0, <3>1, <3>2, <3>4, WalkerSizes DEF Promised
    <3> QED BY <3>3, <3>5
  <2> QED BY <1>1, <2>1, <2>2
<1> QED BY <1>3, <1>4, <1>5

\* What banking does to the rings.
LEMMA BankIs ==
    ASSUME WalkerInv, NEW u \in Unit, NEW m \in Datagram, Bank(u, m)
    PROVE  LET e == [step |-> m.step, x |-> m.x, old |-> m.old] IN
           /\ e \in Frame /\ ring' \in [Unit -> SUBSET Frame] /\ IsRing(ring'[u])
           /\ \A v \in Unit \ {u} : ring'[v] = ring[v]
           /\ \/ ring'[u] = ring[u]
              \/ ring'[u] = Banked(ring[u], e) /\ InCorridor(u, m) /\ m.step > steps[u]
           /\ ring'[u] \subseteq ring[u] \cup {e}
<1> DEFINE e == [step |-> m.step, x |-> m.x, old |-> m.old]
<1>1. e \in Frame
  BY DEF Datagram, Frame
<1>2. ring \in [Unit -> SUBSET Frame] /\ IsRing(ring[u])
  BY DEF WalkerInv, RingsTyped
<1>3. \/ ring' = [ring EXCEPT ![u] = ring[u]]
      \/ ring' = [ring EXCEPT ![u] = Banked(ring[u], e)] /\ InCorridor(u, m) /\ m.step > steps[u]
  BY DEF Bank
<1> HIDE DEF e
<1>4. IsRing(Banked(ring[u], e)) /\ Banked(ring[u], e) \subseteq Frame
  BY <1>1, <1>2, BankedRing DEF IsRing
<1>5. Banked(ring[u], e) \subseteq ring[u] \cup {e}
  BY DEF Banked
<1> SUFFICES /\ ring' \in [Unit -> SUBSET Frame] /\ IsRing(ring'[u])
             /\ \A v \in Unit \ {u} : ring'[v] = ring[v]
             /\ \/ ring'[u] = ring[u]
                \/ ring'[u] = Banked(ring[u], e) /\ InCorridor(u, m) /\ m.step > steps[u]
             /\ ring'[u] \subseteq ring[u] \cup {e}
  BY <1>1 DEF e
<1>6. CASE ring' = [ring EXCEPT ![u] = ring[u]]
  BY <1>2, <1>6
<1>7. CASE ring' = [ring EXCEPT ![u] = Banked(ring[u], e)] /\ InCorridor(u, m) /\ m.step > steps[u]
  BY <1>2, <1>4, <1>5, <1>7
<1> QED BY <1>3, <1>6, <1>7

\* The receiver of a beacon.
LEMMA ReceiveIs ==
    ASSUME WalkerInv, NEW u \in Unit, NEW m \in Datagram, Receive(u, m), resync' = resync
    PROVE  BookTyped' /\ Bank(u, m)
<1> USE DEF WalkerInv
<1>1. rxAge' = [rxAge EXCEPT ![u] = 0] /\ Bank(u, m)
  BY DEF Receive
<1>2. UNCHANGED <<owner, claimAge, grace>> \/ Claim(u, m)
  BY DEF Receive
<1>3. 0 \in 0 .. Old /\ 0 \in 0 .. Silence + 1 /\ 0 \in 0 .. Grace /\ Grace \in 0 .. Grace
  BY OldIs, WalkerSizes
<1>4. m.owner \in Unit /\ m.age \in 0 .. Old
  BY OldIs, WalkerSizes DEF Datagram
<1>5. rxAge' \in [Unit -> 0 .. Silence + 1]
  BY <1>1, <1>3 DEF BookTyped
<1>6. CASE UNCHANGED <<owner, claimAge, grace>>
  <2>1. BookTyped'
    BY <1>5, <1>6 DEF BookTyped
  <2> QED BY <1>1, <2>1
<1>7. CASE Claim(u, m)
  <2>1. owner' = [owner EXCEPT ![u] = m.owner] /\ claimAge' = [claimAge EXCEPT ![u] = m.age]
    BY <1>7 DEF Claim
  <2>2. \E g \in {Grace, 0, grace[u]} : grace' = [grace EXCEPT ![u] = g]
    BY <1>7 DEF Claim
  <2>3. grace' \in [Unit -> 0 .. Grace]
    BY <1>3, <2>2 DEF BookTyped
  <2>4. owner' \in [Unit -> Unit] /\ claimAge' \in [Unit -> 0 .. Old]
    BY <1>4, <2>1 DEF BookTyped
  <2>5. BookTyped'
    BY <1>5, <2>3, <2>4 DEF BookTyped
  <2> QED BY <1>1, <2>5
<1> QED BY <1>1, <1>2, <1>6, <1>7

LEMMA DeliverInv == ASSUME WalkerInv, NEW m \in net, Deliver(m) PROVE WalkerInv'
<1> USE DEF WalkerInv
<1>0. /\ UNCHANGED <<world, now, shown, anchored, drawn, steps, x, replaying, resync, faults, leaves, dual>>
      /\ net' = net \ {m}
  BY DEF Deliver, sim, counts
<1>1. PICK u \in Unit : Receive(u, m)
  BY DEF Deliver
<1>2. m \in Datagram
  BY DEF AirTyped
<1>3. BookTyped' /\ Bank(u, m)
  BY <1>0, <1>1, <1>2, ReceiveIs
<1>4. WindowTyped' /\ SimTyped' /\ CountsTyped' /\ InStep' /\ Promised'
  BY <1>0 DEF WindowTyped, SimTyped, CountsTyped, InStep, Promised
<1>5. AirTyped'
  BY <1>0, FS_RemoveElement DEF AirTyped
<1> DEFINE e == [step |-> m.step, x |-> m.x, old |-> m.old]
<1>6. /\ ring' \in [Unit -> SUBSET Frame] /\ IsRing(ring'[u])
      /\ \A v \in Unit \ {u} : ring'[v] = ring[v]
      /\ ring'[u] \subseteq ring[u] \cup {e}
  BY <1>2, <1>3, BankIs
<1>7. e.step = m.step /\ e.old = m.old
  OBVIOUS
<1> HIDE DEF e
<1>8. RingsTyped'
  BY <1>6 DEF RingsTyped
<1>9. InReach'
  <2>1. m.step \in Int /\ m.age \in Nat /\ now \in Int
    BY <1>2, WalkerSizes DEF Datagram, WindowTyped
  <2>2. ~e.old => e.step <= now + RingMax - 2
    BY <1>7, <2>1, WalkerSizes DEF Promised
  <2>3. ASSUME NEW v \in Unit, NEW f \in ring'[v], ~f.old PROVE f.step <= now + RingMax - 2
    <3>1. f \in ring[v] \/ f = e
      BY <1>6
    <3> QED BY <2>2, <2>3, <3>1 DEF InReach
  <2> QED BY <1>0, <2>3 DEF InReach
<1> QED BY <1>3, <1>4, <1>5, <1>8, <1>9

LEMMA LoseInv == ASSUME WalkerInv, NEW m \in net, Lose(m) PROVE WalkerInv'
<1> USE DEF WalkerInv
<1>0. /\ UNCHANGED <<world, now, shown, anchored, drawn, steps, x, replaying, owner, claimAge, rxAge,
                     grace, resync, ring, leaves, dual>>
      /\ net' = net \ {m} /\ faults < MaxFault /\ faults' = faults + 1
  BY DEF Lose, sim, book
<1>1. WindowTyped' /\ SimTyped' /\ BookTyped' /\ RingsTyped' /\ InStep' /\ Promised' /\ InReach'
  BY <1>0 DEF WindowTyped, SimTyped, BookTyped, RingsTyped, InStep, Promised, InReach
<1>2. AirTyped'
  BY <1>0, FS_RemoveElement DEF AirTyped
<1>3. CountsTyped'
  BY <1>0, WalkerSizes DEF CountsTyped
<1> QED BY <1>1, <1>2, <1>3

LEMMA LeaveInv == ASSUME WalkerInv, NEW u \in Unit, Leave(u) PROVE WalkerInv'
<1> USE DEF WalkerInv
<1>0. /\ UNCHANGED <<world, now, anchored, drawn, steps, x, replaying, owner, claimAge, rxAge, grace,
                     resync, ring, net, faults, dual>>
      /\ shown' = shown \ {u} /\ leaves < MaxLeave /\ leaves' = leaves + 1
  BY DEF Leave, sim, book
<1>1. WindowTyped'
  BY <1>0 DEF WindowTyped
<1>2. CountsTyped'
  BY <1>0, WalkerSizes DEF CountsTyped
<1> QED BY <1>0, <1>1, <1>2
        DEF SimTyped, BookTyped, RingsTyped, AirTyped, InStep, Promised, InReach

LEMMA EnterInv == ASSUME WalkerInv, NEW u \in Unit, Enter(u) PROVE WalkerInv'
<1> USE DEF WalkerInv
<1>0. /\ UNCHANGED <<world, now, steps, x, replaying, owner, claimAge, rxAge, grace, resync, ring, net,
                     faults, leaves, dual>>
      /\ shown' = shown \cup {u} /\ anchored' = anchored \ {u} /\ drawn' = drawn \ {u}
  BY DEF Enter, sim, book, counts
<1>1. WindowTyped' /\ InStep'
  BY <1>0 DEF WindowTyped, InStep
<1> QED BY <1>0, <1>1
        DEF SimTyped, BookTyped, RingsTyped, AirTyped, CountsTyped, Promised, InReach

\* Ages grow within their ranges.
LEMMA AgesTyped ==
    ASSUME WalkerInv, Ages, owner' = owner, resync' = resync PROVE BookTyped' /\ dual' \in Nat
<1> USE WalkerSizes, OldIs DEF WalkerInv
<1>1. claimAge' = Older(claimAge, Old) /\ rxAge' = Older(rxAge, Silence + 1)
  BY DEF Ages
<1>2. claimAge' \in [Unit -> 0 .. Old]
  <2>1. ASSUME NEW u \in Unit
        PROVE  (IF claimAge[u] < Old THEN claimAge[u] + 1 ELSE claimAge[u]) \in 0 .. Old
    BY DEF BookTyped
  <2> QED BY <1>1, <2>1 DEF Older
<1>3. rxAge' \in [Unit -> 0 .. Silence + 1]
  <2>1. ASSUME NEW u \in Unit
        PROVE  (IF rxAge[u] < Silence + 1 THEN rxAge[u] + 1 ELSE rxAge[u]) \in 0 .. Silence + 1
    BY DEF BookTyped
  <2> QED BY <1>1, <2>1 DEF Older
<1>4. grace' \in [Unit -> 0 .. Grace]
  <2>1. ASSUME NEW u \in Unit PROVE (IF grace[u] > 0 THEN grace[u] - 1 ELSE 0) \in 0 .. Grace
    BY DEF BookTyped
  <2> QED BY <2>1 DEF Ages
<1>5. dual' \in Nat
  BY DEF Ages, CountsTyped
<1> QED BY <1>2, <1>3, <1>4, <1>5 DEF BookTyped

LEMMA OneOlder ==
    ASSUME NEW m \in Datagram, m.age < Delay
    PROVE  [m EXCEPT !.age = @ + 1] \in Datagram /\ [m EXCEPT !.age = @ + 1, !.old = TRUE] \in Datagram
<1>1. m.age + 1 \in 0 .. Delay
  BY WalkerSizes DEF Datagram
<1> QED BY <1>1 DEF Datagram

\* What a tick does to the air.
LEMMA AirTicks ==
    ASSUME WalkerInv, \A m \in net : m.age < Delay,
           net' \in { {[m EXCEPT !.age = @ + 1] : m \in net},
                      {[m EXCEPT !.age = @ + 1, !.old = TRUE] : m \in net} }
    PROVE  AirTyped'
<1> USE DEF WalkerInv
<1>1. ASSUME NEW m \in net
      PROVE  [m EXCEPT !.age = @ + 1] \in Datagram /\ [m EXCEPT !.age = @ + 1, !.old = TRUE] \in Datagram
  BY OneOlder DEF AirTyped
<1>2. CASE net' = {[m EXCEPT !.age = @ + 1] : m \in net}
  <2> DEFINE g == [m \in net |-> [m EXCEPT !.age = @ + 1]]
  <2>1. g \in Surjection(net, net')
    BY <1>2, Fun_IsSurj
  <2>2. IsFiniteSet(net')
    BY <2>1, FS_Surjection DEF AirTyped
  <2> QED BY <1>1, <1>2, <2>2 DEF AirTyped
<1>3. CASE net' = {[m EXCEPT !.age = @ + 1, !.old = TRUE] : m \in net}
  <2> DEFINE g == [m \in net |-> [m EXCEPT !.age = @ + 1, !.old = TRUE]]
  <2>1. g \in Surjection(net, net')
    BY <1>3, Fun_IsSurj
  <2>2. IsFiniteSet(net')
    BY <2>1, FS_Surjection DEF AirTyped
  <2> QED BY <1>1, <1>3, <2>2 DEF AirTyped
<1> QED BY <1>2, <1>3

LEMMA TickInv == ASSUME WalkerInv, NextTick PROVE WalkerInv'
<1> USE DEF WalkerInv
<1>0. /\ UNCHANGED <<shown, steps, x, replaying, owner, resync, leaves>>
      /\ drawn' = {} /\ Ages /\ \A m \in net : m.age < Delay
      /\ faults' = faults + Cardinality({m \in net : m.age = 0}) /\ faults' <= MaxFault
  BY DEF NextTick, sim
<1>1. BookTyped' /\ dual' \in Nat
  BY <1>0, AgesTyped
<1>2. CountsTyped'
  <2>1. IsFiniteSet({m \in net : m.age = 0})
    BY FS_Subset DEF AirTyped
  <2>2. Cardinality({m \in net : m.age = 0}) \in Nat
    BY <2>1, FS_CardinalityType
  <2> QED BY <1>0, <1>1, <2>2, WalkerSizes DEF CountsTyped
<1>3. SimTyped'
  BY <1>0 DEF SimTyped
<1>4. ASSUME NEW m \in net
      PROVE  m \in Datagram /\ m.step \in Int /\ m.age \in Int /\ m.old \in BOOLEAN
             /\ [m EXCEPT !.age = @ + 1].step = m.step /\ [m EXCEPT !.age = @ + 1].age = m.age + 1
             /\ [m EXCEPT !.age = @ + 1].old = m.old
             /\ [m EXCEPT !.age = @ + 1, !.old = TRUE].step = m.step
             /\ [m EXCEPT !.age = @ + 1, !.old = TRUE].age = m.age + 1
             /\ [m EXCEPT !.age = @ + 1, !.old = TRUE].old = TRUE
  <2>1. m \in Datagram
    BY DEF AirTyped
  <2> QED BY <2>1 DEF Datagram
<1>5. now \in Int /\ now <= Win - 1 /\ now >= 0
  BY WalkerSizes DEF WindowTyped
<1>6. CASE now + 1 < Win
  <2>1. /\ now' = now + 1 /\ net' = {[m EXCEPT !.age = @ + 1] : m \in net}
        /\ UNCHANGED <<world, anchored, ring>>
    BY <1>6 DEF NextTick
  <2>2. WindowTyped'
    BY <1>0, <1>5, <1>6, <2>1, WalkerSizes DEF WindowTyped
  <2>3. AirTyped'
    BY <1>0, <2>1, AirTicks
  <2>4. RingsTyped'
    BY <2>1 DEF RingsTyped
  <2>5. InStep'
    <3>1. \A u \in anchored : steps[u] \in Int
      BY DEF SimTyped, WindowTyped
    <3> QED BY <1>0, <1>5, <2>1, <3>1 DEF InStep
  <2>6. InReach'
    <3>1. ASSUME NEW u \in Unit, NEW e \in ring[u], ~e.old PROVE e.step <= now + 1 + RingMax - 2
      <4>1. e.step \in Int /\ e.step <= now + RingMax - 2
        BY <3>1 DEF RingsTyped, Frame, InReach
      <4> QED BY <1>5, <4>1, WalkerSizes
    <3> QED BY <2>1, <3>1 DEF InReach
  <2>7. Promised'
    <3>1. ASSUME NEW d \in net'
          PROVE  /\ d.old => d.step + d.age > now' + Win
                 /\ ~d.old => d.step + d.age > now' /\ d.step + d.age <= now' + RingMax - 2
      <4>1. PICK m \in net : d = [m EXCEPT !.age = @ + 1]
        BY <2>1
      <4>2. /\ m.step \in Int /\ m.age \in Int /\ d.step = m.step /\ d.age = m.age + 1
            /\ d.old = m.old
        BY <1>4, <4>1
      <4>3. d.step + d.age = m.step + m.age + 1 /\ m.step + m.age \in Int
        BY <4>2
      <4>4. /\ m.old => m.step + m.age > now + Win
            /\ ~m.old => m.step + m.age > now /\ m.step + m.age <= now + RingMax - 2
        BY DEF Promised
      <4>5. ASSUME d.old PROVE d.step + d.age > now' + Win
        <5>1. m.step + m.age > now + Win
          BY <4>2, <4>4, <4>5
        <5>2. now' = now + 1 /\ Win \in Int
          BY <2>1, WalkerSizes
        <5> QED BY <1>5, <4>3, <5>1, <5>2
      <4>6. ASSUME ~d.old PROVE d.step + d.age > now' /\ d.step + d.age <= now' + RingMax - 2
        <5>1. m.step + m.age > now /\ m.step + m.age <= now + RingMax - 2
          BY <4>2, <4>4, <4>6
        <5>2. now' = now + 1 /\ RingMax \in Int
          BY <2>1, WalkerSizes
        <5> QED BY <1>5, <4>3, <5>1, <5>2
      <4> QED BY <4>5, <4>6
    <3> QED BY <3>1 DEF Promised
  <2> QED BY <1>1, <1>2, <1>3, <2>2, <2>3, <2>4, <2>5, <2>6, <2>7
<1>7. CASE ~(now + 1 < Win)
  <2>0. now' = 0
    BY <1>7 DEF NextTick
  <2>1. /\ now' = 0 /\ world' \in World /\ anchored' = {}
        /\ net' = {[m EXCEPT !.age = @ + 1, !.old = TRUE] : m \in net}
        /\ ring' = [u \in Unit |-> {[e EXCEPT !.old = TRUE] : e \in ring[u]}]
    BY <1>7 DEF NextTick
  <2>2. WindowTyped'
    <3>1. 0 \in 0 .. Win - 1
      BY WalkerSizes
    <3> QED BY <1>0, <2>1, <3>1 DEF WindowTyped
  <2>3. AirTyped'
    BY <1>0, <2>1, AirTicks
  <2>4. RingsTyped'
    <3>1. \A u \in Unit : IsRing({[e EXCEPT !.old = TRUE] : e \in ring[u]})
      BY AgedRing DEF RingsTyped
    <3>2. \A u \in Unit : {[e EXCEPT !.old = TRUE] : e \in ring[u]} \subseteq Frame
      BY <3>1 DEF IsRing
    <3> QED BY <2>1, <3>1, <3>2 DEF RingsTyped
  <2>5. InStep'
    BY <2>1 DEF InStep
  <2>6. InReach'
    <3>1. ASSUME NEW u \in Unit, NEW e \in ring[u] PROVE [e EXCEPT !.old = TRUE].old = TRUE
      BY DEF RingsTyped, Frame
    <3> QED BY <2>1, <3>1 DEF InReach
  <2>7. Promised'
    <3>1. ASSUME NEW d \in net' PROVE d.old = TRUE /\ d.step + d.age > now' + Win
      <4>1. PICK m \in net : d = [m EXCEPT !.age = @ + 1, !.old = TRUE]
        BY <2>1
      <4>2. m.step \in Int /\ m.age \in Int /\ d.step = m.step /\ d.age = m.age + 1 /\ d.old = TRUE
        BY <1>4, <4>1
      <4>3. m.step + m.age > now
        BY <1>5, <4>2, WalkerSizes DEF Promised
      <4>4. d.step + d.age = m.step + m.age + 1 /\ m.step + m.age \in Int
        BY <4>2
      <4>5. now + 1 >= Win /\ now' + Win = Win
        <5>1. now' = 0 /\ Win \in Int /\ now \in Int
          BY <1>5, <2>0, WalkerSizes
        <5> QED BY <1>7, <5>1
      <4> QED BY <1>5, <4>2, <4>3, <4>4, <4>5, WalkerSizes
    <3> QED BY <3>1 DEF Promised
  <2> QED BY <1>1, <1>2, <1>3, <2>2, <2>3, <2>4, <2>5, <2>6, <2>7
<1> QED BY <1>6, <1>7

---------------------------------------------------------------------------
(* The theorems about the walker. *)

LEMMA WalkerInvStep == ASSUME WalkerInv, [WalkerNext]_walkerVars PROVE WalkerInv'
<1>1. CASE UNCHANGED walkerVars
  BY <1>1 DEF walkerVars, sim, book, counts, WalkerInv, WindowTyped, SimTyped, BookTyped, RingsTyped,
              AirTyped, CountsTyped, InStep, Promised, InReach
<1>2. ASSUME NEW u \in Unit, Rollover(u) \/ Resync(u) \/ Step(u) \/ Draw(u) \/ Leave(u) \/ Enter(u)
      PROVE  WalkerInv'
  BY <1>2, RolloverInv, ResyncInv, StepInv, DrawInv, LeaveInv, EnterInv
<1>3. ASSUME NEW m \in net, Deliver(m) \/ Lose(m) PROVE WalkerInv'
  BY <1>3, DeliverInv, LoseInv
<1>4. CASE NextTick
  BY <1>4, TickInv
<1> QED BY <1>1, <1>2, <1>3, <1>4 DEF WalkerNext

LEMMA WalkerInvHolds == WalkerSpec => []WalkerInv
<1>1. WalkerInit => WalkerInv
  BY WalkerInitInv
<1>2. WalkerInv /\ [WalkerNext]_walkerVars => WalkerInv'
  BY WalkerInvStep
<1> QED BY <1>1, <1>2, PTL DEF WalkerSpec

\* Rings keep at most WKF_N promises of distinct steps, no simulation leaves its window,
\* and owners, ages and grace keep their ranges, for any number of panels, any width of
\* theirs, any script of moves and any beacons lost or late.
THEOREM WalkerTypeCorrect == WalkerSpec => []WalkerTypeOK
<1>1. WalkerInv => WalkerTypeOK
  <2>1. RingsTyped => \A u \in Unit : /\ Cardinality(ring[u]) <= RingMax
                                      /\ \A e, f \in ring[u] : e.step = f.step => e = f
    BY DEF RingsTyped, IsRing
  <2>2. AirTyped => \A m \in net : m.from \in Unit /\ m.owner \in Unit /\ m.x \in Int /\ m.age \in 0 .. Delay
    BY DEF AirTyped, Datagram
  <2> QED BY <2>1, <2>2 DEF WalkerInv, WindowTyped, SimTyped, BookTyped, CountsTyped, WalkerTypeOK
<1> QED BY <1>1, WalkerInvHolds, PTL

\* The latest beacon of one window is still too far ahead for a simulation of the next:
\* the corridor (240 steps) and the delay are short beside the window (18181 steps).
CorridorShort == Delay + Future <= Win

LEMMA StragglerStrays ==
    ASSUME CorridorShort, WalkerInv, NEW u \in anchored, NEW m \in net, InCorridor(u, m)
    PROVE  ~m.old
<1> SUFFICES ASSUME m.old PROVE FALSE
  OBVIOUS
<1>1. m.step + m.age > now + Win
  BY DEF WalkerInv, Promised
<1>2. m.step \in Int /\ m.age \in Int /\ m.age <= Delay
  BY WalkerSizes DEF WalkerInv, AirTyped, Datagram
<1>3. steps[u] \in Int /\ steps[u] <= now /\ now \in Int
  BY WalkerSizes DEF WalkerInv, InStep, SimTyped, WindowTyped
<1>4. m.step <= steps[u] + Future
  BY DEF InCorridor
<1> QED BY <1>1, <1>2, <1>3, <1>4, WalkerSizes DEF CorridorShort

LEMMA OwnRingsStep ==
    ASSUME CorridorShort, WalkerInv, OwnRings, [WalkerNext]_walkerVars PROVE OwnRings'
<1> USE DEF OwnRings
<1>1. CASE UNCHANGED walkerVars
  BY <1>1 DEF walkerVars
<1>2. ASSUME NEW u \in Unit, Rollover(u) PROVE OwnRings'
  <2>1. anchored' = anchored \cup {u} /\ ring' = [ring EXCEPT ![u] = {}]
    BY <1>2 DEF Rollover
  <2> QED BY <2>1 DEF WalkerInv, RingsTyped, WindowTyped
<1>3. ASSUME NEW u \in Unit, Step(u) PROVE OwnRings'
  <2>1. anchored' = anchored /\ Adopt(u, steps[u], Move(x[u], steps[u]))
    BY <1>3 DEF Step
  <2>2. steps[u] \in 0 .. Win - 1 /\ Move(x[u], steps[u]) \in Int
    BY MoveTyped DEF WalkerInv, SimTyped, WindowTyped
  <2>3. \A v \in Unit : ring'[v] \subseteq ring[v]
    BY <2>1, <2>2, AdoptIs
  <2> QED BY <2>1, <2>3 DEF WalkerInv, WindowTyped
<1>4. ASSUME NEW u \in Unit, Resync(u) \/ Draw(u) \/ Leave(u) \/ Enter(u) PROVE OwnRings'
  <2>1. ring' = ring /\ anchored' \subseteq anchored
    BY <1>4 DEF Resync, Draw, Leave, Enter, book
  <2> QED BY <2>1
<1>5. ASSUME NEW m \in net, Deliver(m) PROVE OwnRings'
  <2>1. PICK u \in Unit : Receive(u, m)
    BY <1>5 DEF Deliver
  <2>2. anchored' = anchored /\ m \in Datagram
    BY <1>5 DEF Deliver, WalkerInv, AirTyped
  <2>3. Bank(u, m)
    BY <2>1 DEF Receive
  <2> DEFINE e == [step |-> m.step, x |-> m.x, old |-> m.old]
  <2>4. /\ \A v \in Unit \ {u} : ring'[v] = ring[v]
        /\ ring'[u] = ring[u] \/ InCorridor(u, m)
        /\ ring'[u] \subseteq ring[u] \cup {e}
    BY <2>2, <2>3, BankIs
  <2>5. e.old = m.old
    OBVIOUS
  <2> HIDE DEF e
  <2>6. ASSUME NEW v \in anchored, NEW f \in ring'[v] PROVE ~f.old
    <3>1. v \in Unit
      BY DEF WalkerInv, WindowTyped
    <3>2. CASE f \in ring[v]
      BY <3>2
    <3>3. CASE f \notin ring[v]
      <4>1. v = u /\ f = e /\ InCorridor(u, m)
        BY <2>4, <2>6, <3>1, <3>3
      <4>2. ~m.old
        BY <4>1, StragglerStrays
      <4> QED BY <2>5, <4>1, <4>2
    <3> QED BY <3>2, <3>3
  <2> QED BY <2>2, <2>6
<1>6. ASSUME NEW m \in net, Lose(m) PROVE OwnRings'
  BY <1>6 DEF Lose
<1>7. CASE NextTick
  <2>1. anchored' = {} \/ (anchored' = anchored /\ ring' = ring)
    BY <1>7 DEF NextTick
  <2> QED BY <2>1
<1> QED BY <1>1, <1>2, <1>3, <1>4, <1>5, <1>6, <1>7 DEF WalkerNext

LEMMA OwnRingsHold == ASSUME CorridorShort PROVE WalkerSpec => []OwnRings
<1>1. WalkerInit => OwnRings
  BY WalkerInitInv
<1>2. WalkerInv /\ OwnRings /\ [WalkerNext]_walkerVars => OwnRings'
  BY OwnRingsStep
<1> QED BY <1>1, <1>2, WalkerInvHolds, PTL DEF WalkerSpec

\* No panel ever banks a keyframe of the window before, whenever it turns to the new one
\* and however late the beacon: such a frame names a step beyond the corridor.
THEOREM OwnWindowHeld == ASSUME CorridorShort PROVE WalkerSpec => []OwnWindow
<1>1. OwnRings => OwnWindow
  BY DEF OwnRings, OwnWindow
<1> QED BY <1>1, OwnRingsHold, PTL

\* The step a promise is kept through.
KeepsPromises ==
    \A u \in Unit :
       u \in shown \cap anchored /\ u \in anchored' /\ now - steps[u] <= 2
       => {e.step : e \in {f \in ring[u] : f.step > steps'[u]}} \subseteq {e.step : e \in ring'[u]}

LEMMA KeepsSubset ==
    ASSUME \A u \in anchored \cap anchored' : now - steps[u] <= 2 =>
             \A f \in ring[u] : f.step > steps'[u] => \E g \in ring'[u] : g.step = f.step
    PROVE  KeepsPromises
BY DEF KeepsPromises

LEMMA KeepsStep ==
    ASSUME CorridorShort, WalkerInv, OwnRings, [WalkerNext]_walkerVars PROVE KeepsPromises
<1>1. CASE UNCHANGED walkerVars
  BY <1>1, KeepsSubset DEF walkerVars
<1>2. ASSUME NEW u \in Unit, Rollover(u) PROVE KeepsPromises
  <2>1. u \notin anchored /\ ring' = [ring EXCEPT ![u] = {}]
    BY <1>2 DEF Rollover
  <2>2. \A v \in anchored : ring'[v] = ring[v]
    BY <2>1 DEF WalkerInv, RingsTyped, WindowTyped
  <2> QED BY <2>2, KeepsSubset
<1>3. ASSUME NEW u \in Unit, Step(u) PROVE KeepsPromises
  <2>1. steps' = [steps EXCEPT ![u] = steps[u] + 1] /\ Adopt(u, steps[u], Move(x[u], steps[u]))
    BY <1>3 DEF Step
  <2>2. steps[u] \in 0 .. Win - 1 /\ Move(x[u], steps[u]) \in Int
    BY MoveTyped DEF WalkerInv, SimTyped, WindowTyped
  <2>3. /\ ring'[u] = IF Owns(u) THEN ring[u] ELSE {e \in ring[u] : e.step > steps[u]}
        /\ \A v \in Unit \ {u} : ring'[v] = ring[v]
    BY <2>1, <2>2, AdoptIs
  <2>4. ASSUME NEW v \in anchored, NEW f \in ring[v], f.step > steps'[v] PROVE f \in ring'[v]
    <3>1. CASE v = u
      <4>1. steps'[u] = steps[u] + 1 /\ steps[u] \in Int
        BY <2>1, <2>2 DEF WalkerInv, SimTyped
      <4>2. f.step \in Int
        BY <3>1 DEF WalkerInv, RingsTyped, Frame
      <4>3. f.step > steps[u]
        BY <2>4, <3>1, <4>1, <4>2
      <4> QED BY <2>3, <2>4, <3>1, <4>3
    <3>2. CASE v # u
      BY <2>3, <3>2 DEF WalkerInv, WindowTyped
    <3> QED BY <3>1, <3>2
  <2> QED BY <2>4, KeepsSubset
<1>4. ASSUME NEW u \in Unit, Resync(u) \/ Draw(u) \/ Leave(u) \/ Enter(u) PROVE KeepsPromises
  <2>1. ring' = ring
    BY <1>4 DEF Resync, Draw, Leave, Enter, book
  <2> QED BY <2>1, KeepsSubset
<1>5. ASSUME NEW m \in net, Deliver(m) PROVE KeepsPromises
  <2>1. PICK u \in Unit : Receive(u, m)
    BY <1>5 DEF Deliver
  <2>2. steps' = steps /\ m \in Datagram
    BY <1>5 DEF Deliver, sim, WalkerInv, AirTyped
  <2>3. Bank(u, m)
    BY <2>1 DEF Receive
  <2> DEFINE e == [step |-> m.step, x |-> m.x, old |-> m.old]
  <2>4. /\ e \in Frame /\ \A v \in Unit \ {u} : ring'[v] = ring[v]
        /\ \/ ring'[u] = ring[u]
           \/ ring'[u] = Banked(ring[u], e) /\ InCorridor(u, m) /\ m.step > steps[u]
    BY <2>2, <2>3, BankIs
  <2>5. e.step = m.step /\ e.old = m.old
    OBVIOUS
  <2> HIDE DEF e
  <2>6. ASSUME NEW v \in anchored, now - steps[v] <= 2, NEW f \in ring[v], f.step > steps[v]
        PROVE  \E g \in ring'[v] : g.step = f.step
    <3>1. CASE ring'[v] = ring[v]
      BY <2>6, <3>1
    <3>2. CASE ring'[v] # ring[v]
      <4>1. v = u /\ ring'[u] = Banked(ring[u], e) /\ m.step > steps[u] /\ InCorridor(u, m)
        BY <2>4, <3>2 DEF WalkerInv, WindowTyped
      <4>2. /\ IsRing(ring[u]) /\ steps[u] \in Nat /\ now \in Int /\ now <= steps[u] + 2
            /\ u \in anchored
        BY <2>6, <4>1, WalkerSizes DEF WalkerInv, RingsTyped, SimTyped, WindowTyped
      <4>3. m.step <= now + RingMax - 2
        <5>1. ~m.old => m.step + m.age <= now + RingMax - 2
          BY DEF WalkerInv, Promised
        <5>2. m.step \in Int /\ m.age \in Nat
          BY <2>2, WalkerSizes DEF Datagram
        <5>3. ~m.old
          BY <4>1, <4>2, StragglerStrays
        <5> QED BY <4>2, <5>1, <5>2, <5>3, WalkerSizes
      <4>4. ASSUME NEW g \in ring[u] \cup {e} PROVE g.step <= steps[u] + RingMax
        <5>1. g.step \in Int
          BY <2>4, <4>2 DEF IsRing, Frame
        <5>2. g.step <= now + RingMax - 2
          BY <2>5, <4>2, <4>3 DEF WalkerInv, InReach, OwnRings
        <5> QED BY <4>2, <5>1, <5>2, WalkerSizes
      <4>5. \E g \in Banked(ring[u], e) : g.step = f.step
        BY <2>4, <2>5, <2>6, <4>1, <4>2, <4>4, BankedKeeps
      <4> QED BY <4>1, <4>5
    <3> QED BY <3>1, <3>2
  <2> QED BY <2>2, <2>6, KeepsSubset
<1>6. ASSUME NEW m \in net, Lose(m) PROVE KeepsPromises
  BY <1>6, KeepsSubset DEF Lose
<1>7. CASE NextTick
  <2>1. anchored' = {} \/ ring' = ring
    BY <1>7 DEF NextTick
  <2> QED BY <2>1, KeepsSubset
<1> QED BY <1>1, <1>2, <1>3, <1>4, <1>5, <1>6, <1>7 DEF WalkerNext

\* A panel that is at most two steps behind has every promise at hand when its step comes:
\* no promise is evicted for a later one while it still lies ahead.
THEOREM PromisesAreKept == ASSUME CorridorShort PROVE WalkerSpec => PromisesKept
<1>1. WalkerInv /\ OwnRings /\ [WalkerNext]_walkerVars => [KeepsPromises]_walkerVars
  BY KeepsStep
<1>2. WalkerSpec => [][KeepsPromises]_walkerVars
  BY <1>1, WalkerInvHolds, OwnRingsHold, PTL DEF WalkerSpec
<1> QED BY <1>2, PTL DEF PromisesKept, KeepsPromises
=============================================================================
