--------------------------- MODULE PanelLink_proofs ---------------------------
(***************************************************************************)
(* The panel's Bluetooth glue for any fuse, window, queue and number of    *)
(* pairings, commands and boots: the boot fuse stops an unhealthy panel,   *)
(* there is one bond and the live session is the bond's, and a console     *)
(* command runs at most once, in its turn.                                 *)
(***************************************************************************)
EXTENDS PanelLink, FiniteSetTheorems, SequenceTheorems, TLAPS

---------------------------------------------------------------------------
(* The inductive invariant. *)

Command == 1 .. MaxCmd

StateTyped ==
    /\ up \in {"off", "starting", "none", "up"} /\ fuse \in 0 .. FuseMax /\ disable \in BOOLEAN
    /\ bond \in 0 .. MaxKey /\ ram \in 0 .. MaxKey /\ est \in 0 .. MaxKey
    /\ pair \in {"idle", "resp", "sas"} /\ hooks \in BOOLEAN /\ synced \in BOOLEAN
    /\ conn \in BOOLEAN /\ notify \in BOOLEAN /\ closing \in BOOLEAN
    /\ window \in 0 .. WindowLen /\ adv \in {"none", "full", "pseud"}

CommandsTyped ==
    /\ queue \in Seq(Command) /\ Len(queue) <= QueueMax /\ running \in 0 .. MaxCmd
    /\ acks \in Seq(Command) /\ ran \in Seq(Command) /\ refused \in SUBSET Command
    /\ received \in 0 .. MaxCmd

\* Every start that was not healthy is counted.
FuseCounts == rapid = fuse

\* The pairings confirmed are the first so many.
Pairings == \E n \in 0 .. MaxKey : confirmed = 1 .. n

\* A panel whose Bluetooth is not up has no session, and nobody is connected to it.
Down == up # "up" => ram = 0 /\ est = 0 /\ adv = "none" /\ ~conn /\ pair = "idle"

\* What is stored comes from a pairing too.
Bonded ==
    /\ OneBond /\ Down /\ Pairings
    /\ bond # 0 => bond \in confirmed
    /\ ram # 0 => ram \in confirmed

Rising(s) == \A i, j \in 1 .. Len(s) : i < j => s[i] < s[j]

\* Commands wait behind those that ran; what was answered waits no longer and is not running.
Turns ==
    /\ Rising(ran) /\ Rising(queue)
    /\ \A i \in 1 .. Len(ran), j \in 1 .. Len(queue) : ran[i] < queue[j]
    /\ \A i \in 1 .. Len(ran) : ran[i] <= received /\ ran[i] \notin refused
    /\ \A i \in 1 .. Len(queue) : queue[i] <= received /\ queue[i] \notin refused
    /\ \A c \in refused : c <= received
    /\ \A i \in 1 .. Len(acks) :
         \/ acks[i] \in refused
         \/ acks[i] # running /\ \E j \in 1 .. Len(ran) : ran[j] = acks[i]
    /\ running # 0 => \E j \in 1 .. Len(ran) : ran[j] = running
    /\ \A i, j \in 1 .. Len(acks) : acks[i] = acks[j] => i = j

Inv == StateTyped /\ CommandsTyped /\ FuseCounts /\ Bonded /\ Turns

---------------------------------------------------------------------------
(* Types. *)

USE DEF radio, commands, answers, flash, session, bonds, Ram

\* What a proof uses of the constants.
LEMMA Sizes ==
    /\ FuseMax \in Nat /\ FuseMax >= 1 /\ WindowLen \in Nat /\ QueueMax \in Nat
    /\ QueueMax >= 1 /\ MaxKey \in Nat /\ MaxCmd \in Nat
BY PanelAssumption

\* Each command that waits, ran or was answered is one of the commands received.
LEMMA CommandTypes ==
    ASSUME CommandsTyped
    PROVE  /\ Len(queue) \in Nat /\ Len(ran) \in Nat /\ Len(acks) \in Nat /\ received \in Nat
           /\ \A i \in 1 .. Len(queue) : queue[i] \in Nat /\ queue[i] # 0
           /\ \A i \in 1 .. Len(ran) : ran[i] \in Nat /\ ran[i] # 0
           /\ \A i \in 1 .. Len(acks) : acks[i] \in Nat /\ acks[i] # 0
           /\ \A d \in refused : d \in Nat
<1>1. \A d \in Command : d \in Nat /\ d # 0
  BY Sizes DEF Command
<1>2. /\ queue \in Seq(Command) /\ ran \in Seq(Command) /\ acks \in Seq(Command)
      /\ refused \subseteq Command
  BY DEF CommandsTyped
<1>3. \A s \in Seq(Command) : Len(s) \in Nat /\ \A i \in 1 .. Len(s) : s[i] \in Command
  BY ElementOfSeq, LenProperties
<1>4. received \in Nat
  BY Sizes DEF CommandsTyped
<1> QED BY <1>1, <1>2, <1>3, <1>4

\* What it is to append to a list.
LEMMA Appended ==
    ASSUME NEW S, NEW s \in Seq(S), NEW c \in S
    PROVE  /\ Append(s, c) \in Seq(S) /\ Len(s) \in Nat /\ Len(Append(s, c)) = Len(s) + 1
           /\ \A i \in 1 .. Len(s) : Append(s, c)[i] = s[i]
           /\ Append(s, c)[Len(s) + 1] = c
           /\ \A i \in 1 .. Len(s) + 1 : i = Len(s) + 1 \/ i \in 1 .. Len(s)
OBVIOUS

\* A rising list, and a list without repetition, keep so with a new last element.
LEMMA AppendRises ==
    ASSUME NEW s \in Seq(Command), NEW c \in Command, Rising(s),
           \A i \in 1 .. Len(s) : s[i] < c
    PROVE  Rising(Append(s, c))
<1> DEFINE t == Append(s, c)
<1> DEFINE n == Len(s)
<1>1. /\ n \in Nat /\ Len(t) = n + 1 /\ \A i \in 1 .. n : t[i] = s[i]
      /\ t[n + 1] = c
  BY Appended
<1>2. \A i, j \in 1 .. n : i < j => s[i] < s[j]
  BY DEF Rising
<1>3. \A i \in 1 .. n : s[i] < c
  OBVIOUS
<1> HIDE DEF t, n
<1> SUFFICES ASSUME NEW i \in 1 .. n + 1, NEW j \in 1 .. n + 1, i < j PROVE t[i] < t[j]
  BY <1>1 DEF Rising, t
<1>4. i \in 1 .. n
  BY <1>1
<1>5. CASE j = n + 1
  BY <1>1, <1>3, <1>4, <1>5
<1>6. CASE j \in 1 .. n
  BY <1>1, <1>2, <1>4, <1>6
<1> QED BY <1>1, <1>5, <1>6

\* A step of the radio, the UI or the flash leaves the console's commands alone.
LEMMA CommandsKept ==
    ASSUME \/ Boot \/ InitSkips \/ InitDone \/ HostSync \/ Healthy
           \/ PairWindow \/ Tick \/ Forget \/ Off \/ Switch \/ Ota
           \/ Connect \/ ConnectFails \/ Disconnect \/ Subscribe
           \/ PairReq \/ PairNa \/ Match \/ Mismatch \/ StatusOrFeed \/ UNCHANGED vars
    PROVE  UNCHANGED <<queue, running, ran, received, acks, refused>>
<1>1. CASE Boot \/ InitSkips \/ InitDone \/ HostSync \/ Healthy
  BY <1>1 DEF Boot, InitSkips, InitDone, HostSync, Healthy
<1>2. CASE PairWindow \/ Tick \/ Forget \/ Off \/ Switch \/ Ota
  BY <1>2 DEF PairWindow, Tick, Forget, Off, Switch, Ota
<1>3. CASE Connect \/ ConnectFails \/ Disconnect \/ Subscribe
  BY <1>3 DEF Connect, ConnectFails, Disconnect, Subscribe
<1>4. CASE PairReq \/ PairNa \/ Match \/ Mismatch \/ StatusOrFeed
  BY <1>4 DEF PairReq, PairNa, Match, Mismatch, StatusOrFeed
<1>5. CASE UNCHANGED vars
  BY <1>5 DEF vars
<1> QED BY <1>1, <1>2, <1>3, <1>4, <1>5

\* Without power the panel is blank; only flash and history stay.
LEMMA RestartedStep ==
    ASSUME Inv, Restarted PROVE Inv'
<1>1. StateTyped' /\ CommandsTyped'
  <2>1. <<>> \in Seq(Command) /\ Len(<<>>) <= QueueMax
    BY Sizes
  <2>2. CommandsTyped'
    BY <2>1, Sizes DEF CommandsTyped, Restarted
  <2>3. 0 \in 0 .. MaxKey /\ 0 \in 0 .. WindowLen
    BY Sizes
  <2>4. StateTyped'
    BY <2>3 DEF Inv, StateTyped, Restarted
  <2> QED BY <2>2, <2>4
<1>2. FuseCounts'
  BY DEF Inv, FuseCounts, Restarted
<1>3. Bonded'
  <2>1. OneBond' /\ Down'
    BY DEF Restarted, OneBond, Down
  <2> QED BY <2>1 DEF Inv, Bonded, Pairings, Restarted
<1>4. Turns'
  BY DEF Restarted, Turns, Rising
<1> QED BY <1>1, <1>2, <1>3, <1>4 DEF Inv

---------------------------------------------------------------------------
(* The bond. *)

\* Saving the session that is established, or none, keeps flash and RAM agreed.
LEMMA SendsKeeps ==
    ASSUME StateTyped, Bonded, Sends, est # 0,
           UNCHANGED <<up, est, conn, adv, pair, confirmed>>
    PROVE  /\ bond' \in 0 .. MaxKey /\ ram' \in 0 .. MaxKey
           /\ Bonded'
<1>1. CASE UNCHANGED bonds
  BY <1>1 DEF StateTyped, Bonded, OneBond, Down, Pairings
<1>2. CASE conn /\ notify /\ SaveBond(est)
  <2>1. bond' = est /\ ram' = est /\ est \in confirmed /\ up = "up"
    BY <1>2 DEF SaveBond, Bonded, OneBond, Down
  <2>2. OneBond' /\ Down'
    BY <2>1 DEF OneBond, Down
  <2> QED BY <2>1, <2>2 DEF StateTyped, Bonded, Pairings
<1> QED BY <1>1, <1>2 DEF Sends

\* What sets the fuse leaves all else in RAM alone.
LEMMA FuseTyped ==
    ASSUME StateTyped, Boot \/ Healthy \/ Switch PROVE StateTyped'
<1>1. fuse' \in 0 .. FuseMax
  <2>1. fuse \in 0 .. FuseMax /\ 0 \in 0 .. FuseMax
    BY Sizes DEF StateTyped
  <2>2. CASE Boot
    BY <2>1, <2>2, Sizes DEF Boot
  <2>3. CASE Healthy
    BY <2>1, <2>3 DEF Healthy
  <2>4. CASE Switch
    BY <2>1, <2>4 DEF Switch
  <2> QED BY <2>2, <2>3, <2>4
<1>2. up' \in {"starting", "none", up} /\ disable' \in {TRUE, FALSE, disable} /\ UNCHANGED Ram
  <2>1. CASE Boot
    BY <2>1 DEF Boot
  <2>2. CASE Healthy
    BY <2>2 DEF Healthy
  <2>3. CASE Switch
    BY <2>3 DEF Switch
  <2> QED BY <2>1, <2>2, <2>3
<1>3. up' \in {"off", "starting", "none", "up"}
  BY <1>2 DEF StateTyped
<1>4. disable' \in BOOLEAN
  BY <1>2, Zenon DEF StateTyped
<1>5. UNCHANGED <<bond, ram, est, pair, hooks, synced, conn, notify, closing, window, adv>>
  BY <1>2
<1> QED BY <1>1, <1>3, <1>4, <1>5, Zenon DEF StateTyped

\* The state keeps its types.
LEMMA StateStep ==
    ASSUME Inv, [Next]_vars PROVE StateTyped'
<1>1. CASE Boot \/ Healthy \/ Switch
  BY <1>1, FuseTyped DEF Inv
<1> USE DEF StateTyped, Inv
<1>2. CASE InitSkips \/ InitDone \/ HostSync
  <2>1. CASE InitSkips
    BY <2>1 DEF InitSkips
  <2>2. CASE InitDone
    BY <2>2 DEF InitDone
  <2>3. CASE HostSync
    BY <2>3 DEF HostSync
  <2> QED BY <1>2, <2>1, <2>2, <2>3
<1>3. CASE PowerLoss \/ SubscribeFaults \/ PairReqFaults \/ ExecFaults
  BY <1>3, RestartedStep DEF PowerLoss, SubscribeFaults, PairReqFaults, ExecFaults, Faults
<1>4. CASE PairWindow
  BY <1>4, Sizes DEF PairWindow, AdvAfter
<1>5. CASE Tick
  BY <1>5, Sizes DEF Tick
<1>6. CASE Forget \/ Ota
  BY <1>6, Sizes DEF Forget, EraseBond, Ota
<1>7. CASE Off
  BY <1>7, Sizes DEF Off
<1>8. CASE Connect
  BY <1>8 DEF Connect, SaveBond
<1>9. CASE ConnectFails
  BY <1>9 DEF ConnectFails, AdvAfter, EstAfter
<1>10. CASE Disconnect
  <2>1. adv' \in {"none", "full", "pseud"}
    BY <1>10 DEF Disconnect, AdvAfter
  <2>2. hooks' \in BOOLEAN /\ pair' \in {"idle", "resp", "sas"}
    <3>1. CASE hooks
      BY <1>10, <3>1 DEF Disconnect, ClearContext
    <3>2. CASE ~hooks
      BY <1>10, <3>2 DEF Disconnect, ClearContext
    <3> QED BY <3>1, <3>2
  <2>3. est' \in {0, est, ram}
    BY <1>10 DEF Disconnect, ClearContext, EstAfter
  <2>4. est' \in 0 .. MaxKey
    BY <2>3, Sizes
  <2> QED BY <1>10, <2>1, <2>2, <2>4 DEF Disconnect
<1>11. CASE Subscribe
  BY <1>11 DEF Subscribe
<1>12. CASE PairReq \/ PairNa \/ Mismatch
  BY <1>12 DEF PairReq, PairNa, Mismatch
<1>13. CASE Match
  <2>1. PICK n \in 0 .. MaxKey : confirmed = 1 .. n
    BY DEF Bonded, Pairings
  <2>2. Cardinality(confirmed) = n
    BY <2>1, Sizes, FS_Interval
  <2> QED BY <1>13, <2>1, <2>2, Sizes DEF Match, SaveBond
<1>14. CASE StatusOrFeed
  BY <1>14, SendsKeeps DEF StatusOrFeed
<1>15. CASE OnConsole \/ ExecDone
  <2>1. bond' \in 0 .. MaxKey /\ ram' \in 0 .. MaxKey
    BY <1>15 DEF OnConsole, ExecDone, Sends, SaveBond
  <2> QED BY <1>15, <2>1 DEF OnConsole, ExecDone
<1>16. CASE ExecTake
  BY <1>16 DEF ExecTake
<1>17. CASE UNCHANGED vars
  BY <1>17 DEF vars
<1> QED BY <1>1, <1>2, <1>3, <1>4, <1>5, <1>6, <1>7, <1>8, <1>9, <1>10, <1>11, <1>12,
           <1>13, <1>14, <1>15, <1>16, <1>17 DEF Next

\* The count of unhealthy starts follows the fuse.
LEMMA FuseStep ==
    ASSUME Inv, [Next]_vars PROVE FuseCounts'
<1> USE DEF Inv, FuseCounts
<1>1. CASE Boot \/ Healthy \/ Switch
  BY <1>1 DEF Boot, Healthy, Switch
<1>2. CASE PowerLoss \/ SubscribeFaults \/ PairReqFaults \/ ExecFaults
  BY <1>2, RestartedStep DEF PowerLoss, SubscribeFaults, PairReqFaults, ExecFaults, Faults
<1>3. CASE InitSkips \/ InitDone \/ HostSync \/ PairWindow \/ Tick \/ Forget \/ Off \/ Ota
  BY <1>3 DEF InitSkips, InitDone, HostSync, PairWindow, Tick, Forget, Off, Ota
<1>4. CASE Connect \/ ConnectFails \/ Disconnect \/ Subscribe \/ PairReq \/ PairNa
  BY <1>4 DEF Connect, ConnectFails, Disconnect, Subscribe, PairReq, PairNa
<1>5. CASE Match \/ Mismatch \/ StatusOrFeed \/ OnConsole \/ ExecTake \/ ExecDone
  BY <1>5 DEF Match, Mismatch, StatusOrFeed, OnConsole, ExecTake, ExecDone
<1>6. CASE UNCHANGED vars
  BY <1>6 DEF vars
<1> QED BY <1>1, <1>2, <1>3, <1>4, <1>5, <1>6 DEF Next

\* The lists of commands keep theirs.
LEMMA CommandsStep ==
    ASSUME Inv, [Next]_vars PROVE CommandsTyped'
<1>1. CASE OnConsole
  <2>1. received + 1 \in Command /\ received' \in 0 .. MaxCmd
    BY <1>1, Sizes DEF Inv, CommandsTyped, OnConsole, Command
  <2>2. queue' \in Seq(Command) /\ Len(queue') <= QueueMax
    <3>1. CASE Len(queue) < QueueMax
      <4>1. queue' = Append(queue, received + 1)
        BY <1>1, <3>1 DEF OnConsole, Queue
      <4> QED BY <2>1, <3>1, <4>1, Sizes DEF Inv, CommandsTyped
    <3>2. CASE ~(Len(queue) < QueueMax)
      BY <1>1, <3>2 DEF OnConsole, Queue, Inv, CommandsTyped
    <3> QED BY <3>1, <3>2
  <2>3. acks' \in Seq(Command)
    <3>1. acks' = acks \/ acks' = Append(acks, received + 1)
      BY <1>1 DEF OnConsole
    <3>2. acks \in Seq(Command)
      BY DEF Inv, CommandsTyped
    <3> QED BY <2>1, <3>1, <3>2, Appended
  <2>4. refused' \in SUBSET Command
    <3>1. refused' = refused \/ refused' = refused \cup {received + 1}
      BY <1>1 DEF OnConsole
    <3> QED BY <2>1, <3>1 DEF Inv, CommandsTyped
  <2> QED BY <1>1, <2>1, <2>2, <2>3, <2>4 DEF OnConsole, Inv, CommandsTyped
<1>2. CASE ExecTake
  <2>1. Head(queue) \in Command /\ Tail(queue) \in Seq(Command) /\ Len(Tail(queue)) <= QueueMax
    BY <1>2, Sizes DEF ExecTake, Inv, CommandsTyped
  <2>2. Append(ran, Head(queue)) \in Seq(Command) /\ Head(queue) \in 0 .. MaxCmd
    BY <2>1 DEF Command, Inv, CommandsTyped
  <2> QED BY <1>2, <2>1, <2>2 DEF ExecTake, TakeNext, Inv, CommandsTyped
<1>3. CASE ExecDone
  <2>1. running \in Command /\ 0 \in 0 .. MaxCmd
    BY <1>3, Sizes DEF ExecDone, Command, Inv, CommandsTyped
  <2>2. acks' \in Seq(Command)
    BY <1>3, <2>1 DEF ExecDone, Inv, CommandsTyped
  <2> QED BY <1>3, <2>1, <2>2 DEF ExecDone, Inv, CommandsTyped
<1>4. CASE PowerLoss \/ SubscribeFaults \/ PairReqFaults \/ ExecFaults
  BY <1>4, RestartedStep DEF PowerLoss, SubscribeFaults, PairReqFaults, ExecFaults, Faults, Inv
<1>5. CASE UNCHANGED <<queue, running, ran, received, acks, refused>>
  BY <1>5 DEF Inv, CommandsTyped
<1> QED BY <1>1, <1>2, <1>3, <1>4, <1>5, CommandsKept DEF Next

\* One bond, and the live session is the bond's.
LEMMA BondStep ==
    ASSUME Inv, [Next]_vars PROVE Bonded'
<1>1. StateTyped /\ Bonded /\ OneBond /\ Down
  BY DEF Inv, Bonded
<1>2. CASE UNCHANGED <<up, bond, ram, est, conn, adv, pair, confirmed>>
  BY <1>1, <1>2 DEF Bonded, OneBond, Down, Pairings
<1>3. CASE Boot \/ InitSkips
  BY <1>1, <1>3 DEF Boot, InitSkips, Bonded, OneBond, Down, Pairings
<1>4. CASE InitDone
  BY <1>1, <1>4 DEF InitDone, Bonded, OneBond, Down, Pairings
<1>5. CASE PowerLoss \/ SubscribeFaults \/ PairReqFaults \/ ExecFaults
  BY <1>5, RestartedStep DEF PowerLoss, SubscribeFaults, PairReqFaults, ExecFaults, Faults, Inv
<1>6. CASE PairWindow \/ Off
  BY <1>1, <1>6 DEF PairWindow, Off, Bonded, OneBond, Down, Pairings
<1>7. CASE Forget
  BY <1>1, <1>7 DEF Forget, EraseBond, Bonded, OneBond, Down, Pairings
<1>8. CASE Connect
  <2>1. up = "up" /\ up' = "up" /\ UNCHANGED <<pair, confirmed>>
    BY <1>1, <1>8 DEF Connect, Down
  <2>2. CASE ram # 0
    <3>1. est' = ram /\ bond' = ram /\ ram' = ram
      BY <1>8, <2>2 DEF Connect, SaveBond
    <3> QED BY <1>1, <2>1, <2>2, <3>1 DEF Bonded, OneBond, Down, Pairings
  <2>3. CASE ram = 0
    <3>1. UNCHANGED <<est, bond, ram>>
      BY <1>8, <2>3 DEF Connect
    <3> QED BY <1>1, <2>1, <2>3, <3>1 DEF Bonded, OneBond, Down, Pairings
  <2> QED BY <2>2, <2>3
<1>9. CASE ConnectFails \/ Disconnect
  <2>1. up = "up" /\ up' = "up" /\ UNCHANGED <<bond, ram, confirmed>>
    BY <1>1, <1>9 DEF ConnectFails, Disconnect, Down
  <2>2. est' = est \/ est' = 0 \/ est' = ram
    BY <1>9 DEF ConnectFails, Disconnect, ClearContext, EstAfter
  <2> QED BY <1>1, <2>1, <2>2 DEF Bonded, OneBond, Down, Pairings
<1>10. CASE PairReq \/ PairNa
  BY <1>1, <1>10 DEF PairReq, PairNa, Bonded, OneBond, Down, Pairings
<1>11. CASE Match
  <2>1. PICK n \in 0 .. MaxKey : confirmed = 1 .. n
    BY <1>1 DEF Bonded, Pairings
  <2>2. Cardinality(confirmed) = n /\ n + 1 \in 0 .. MaxKey
    <3>1. n \in Nat /\ n \in Int /\ 1 \in Int
      BY Sizes
    <3>2. Cardinality(confirmed) = n
      BY <2>1, <3>1, FS_Interval
    <3> QED BY <1>11, <3>1, <3>2, Sizes DEF Match
  <2>3. confirmed' = 1 .. n + 1
    BY <1>11, <2>1, <2>2 DEF Match
  <2>4. est' = n + 1 /\ bond' = n + 1 /\ ram' = n + 1
    BY <1>11, <2>2 DEF Match, SaveBond
  <2>5. up = "up" /\ up' = up
    BY <1>1, <1>11 DEF Match, Down
  <2>6. OneBond' /\ Down'
    BY <2>2, <2>3, <2>4, <2>5 DEF OneBond, Down
  <2> QED BY <2>2, <2>3, <2>4, <2>6 DEF Bonded, Pairings
<1>12. CASE Mismatch
  BY <1>1, <1>12 DEF Mismatch, Bonded, OneBond, Down, Pairings
<1>13. CASE StatusOrFeed
  BY <1>1, <1>13, SendsKeeps DEF StatusOrFeed
<1>14. CASE OnConsole
  BY <1>1, <1>2, <1>14, SendsKeeps DEF OnConsole
<1>15. CASE ExecDone
  BY <1>1, <1>2, <1>15, SendsKeeps DEF ExecDone
<1>16. CASE HostSync \/ Healthy \/ Tick \/ Switch \/ Ota \/ Subscribe \/ ExecTake
  BY <1>2, <1>16 DEF HostSync, Healthy, Tick, Switch, Ota, Subscribe, ExecTake
<1>17. CASE UNCHANGED vars
  BY <1>2, <1>17 DEF vars
<1> QED BY <1>3, <1>4, <1>5, <1>6, <1>7, <1>8, <1>9, <1>10, <1>11, <1>12, <1>13, <1>14, <1>15,
           <1>16, <1>17 DEF Next

---------------------------------------------------------------------------
(* The console's commands. *)

\* A command that comes in is the youngest: it waits behind all others, or is refused.
LEMMA ReceivesInTurn ==
    ASSUME Inv, OnConsole PROVE Turns'
<1>1. PICK c \in Command : c = received + 1
  BY Sizes DEF OnConsole, Inv, CommandsTyped, Command
<1>2. received' = c /\ received < c /\ ran' = ran /\ running' = running
  BY <1>1 DEF OnConsole, Inv, CommandsTyped
<1>3. Turns /\ CommandsTyped
  BY DEF Inv
<1>4. /\ ran \in Seq(Command) /\ queue \in Seq(Command) /\ acks \in Seq(Command) /\ c \in Nat
      /\ \A i \in 1 .. Len(ran) : ran[i] \in Nat /\ ran[i] < c
      /\ \A i \in 1 .. Len(queue) : queue[i] \in Nat /\ queue[i] < c
      /\ \A d \in refused : d \in Nat /\ d < c
  <2>1. received \in Nat /\ c \in Nat
    BY <1>1, <1>3, CommandTypes
  <2>2. \A d \in Nat : d <= received => d < c
    BY <1>1, <2>1
  <2>3. \A i \in 1 .. Len(ran) : ran[i] \in Nat /\ ran[i] < c
    BY <1>3, <2>2, CommandTypes DEF Turns
  <2>4. \A i \in 1 .. Len(queue) : queue[i] \in Nat /\ queue[i] < c
    BY <1>3, <2>2, CommandTypes DEF Turns
  <2>5. \A d \in refused : d \in Nat /\ d < c
    BY <1>3, <2>2, CommandTypes DEF Turns
  <2> QED BY <1>3, <2>1, <2>3, <2>4, <2>5 DEF CommandsTyped
<1>5. CASE Len(queue) < QueueMax
  <2>1. UNCHANGED <<acks, refused>> /\ queue' = Append(queue, c)
    BY <1>1, <1>5 DEF OnConsole, Queue
  <2>2. /\ Len(queue') = Len(queue) + 1
        /\ \A j \in 1 .. Len(queue) : queue'[j] = queue[j]
        /\ queue'[Len(queue) + 1] = c
        /\ \A i \in 1 .. Len(queue) + 1 : i = Len(queue) + 1 \/ i \in 1 .. Len(queue)
    BY <1>4, <2>1, Appended
  <2>3. c \notin refused /\ c <= c /\ \A d \in Nat : d < c => d <= c
    <3>1. c \in Nat /\ \A d \in refused : d < c
      BY <1>4
    <3>2. ~(c < c) /\ c <= c /\ \A d \in Nat : d < c => d <= c
      BY <3>1
    <3> QED BY <3>1, <3>2
  <2>4. \A i \in 1 .. Len(queue') : queue'[i] <= c /\ queue'[i] \notin refused
    <3> SUFFICES ASSUME NEW i \in 1 .. Len(queue) + 1
                 PROVE  queue'[i] <= c /\ queue'[i] \notin refused
      BY <2>2
    <3>1. CASE i = Len(queue) + 1
      BY <2>2, <2>3, <3>1
    <3>2. CASE i \in 1 .. Len(queue)
      <4>1. queue'[i] = queue[i] /\ queue[i] \notin refused /\ queue[i] \in Nat /\ queue[i] < c
        BY <1>3, <1>4, <2>2, <3>2 DEF Turns
      <4> QED BY <2>3, <4>1
    <3> QED BY <2>2, <3>1, <3>2
  <2>5. Rising(queue')
    BY <1>3, <1>4, <2>1, AppendRises DEF Turns
  <2>6. \A i \in 1 .. Len(ran), j \in 1 .. Len(queue') : ran[i] < queue'[j]
    <3> SUFFICES ASSUME NEW i \in 1 .. Len(ran), NEW j \in 1 .. Len(queue) + 1
                 PROVE  ran[i] < queue'[j]
      BY <2>2
    <3>1. CASE j = Len(queue) + 1
      BY <1>4, <2>2, <3>1
    <3>2. CASE j \in 1 .. Len(queue)
      BY <1>3, <2>2, <3>2 DEF Turns
    <3> QED BY <2>2, <3>1, <3>2
  <2>7. /\ \A i \in 1 .. Len(ran) : ran[i] <= c /\ ran[i] \notin refused
        /\ \A d \in refused : d <= c
    BY <1>3, <1>4, <2>3 DEF Turns
  <2> QED BY <1>2, <1>3, <2>1, <2>4, <2>5, <2>6, <2>7 DEF Turns, Rising
<1>6. CASE ~(Len(queue) < QueueMax)
  <2>1. /\ queue' = queue /\ refused' = refused \cup {c}
        /\ acks' = acks \/ acks' = Append(acks, c)
    BY <1>1, <1>6 DEF OnConsole, Queue
  <2>2. /\ \A i \in 1 .. Len(ran) : ran[i] <= c /\ ran[i] \notin refused'
        /\ \A i \in 1 .. Len(queue) : queue[i] <= c /\ queue[i] \notin refused'
        /\ \A d \in refused' : d <= c
    <3>1. c <= c /\ \A d \in Nat : d < c => d <= c /\ d # c
      <4>1. c \in Nat
        BY <1>4
      <4> QED BY <4>1
    <3>2. \A i \in 1 .. Len(ran) : ran[i] <= c /\ ran[i] \notin refused'
      BY <1>3, <1>4, <2>1, <3>1 DEF Turns
    <3>3. \A i \in 1 .. Len(queue) : queue[i] <= c /\ queue[i] \notin refused'
      BY <1>3, <1>4, <2>1, <3>1 DEF Turns
    <3> QED BY <1>4, <2>1, <3>1, <3>2, <3>3
  <2>3. \A i \in 1 .. Len(acks) :
           /\ acks[i] \in refused' \/ (acks[i] # running /\ \E j \in 1 .. Len(ran) : ran[j] = acks[i])
           /\ acks[i] # c
    <3> SUFFICES ASSUME NEW i \in 1 .. Len(acks)
                 PROVE  /\ \/ acks[i] \in refused'
                           \/ acks[i] # running /\ \E j \in 1 .. Len(ran) : ran[j] = acks[i]
                        /\ acks[i] # c
      OBVIOUS
    <3>1. c \notin refused /\ \A j \in 1 .. Len(ran) : ran[j] # c
      BY <1>4
    <3> QED BY <1>3, <2>1, <3>1 DEF Turns
  <2>4. CASE acks' = acks
    BY <1>2, <1>3, <2>1, <2>2, <2>3, <2>4 DEF Turns, Rising
  <2>5. CASE acks' = Append(acks, c)
    <3>1. /\ Len(acks') = Len(acks) + 1 /\ Len(acks) \in Nat
          /\ \A j \in 1 .. Len(acks) : acks'[j] = acks[j]
          /\ acks'[Len(acks) + 1] = c
          /\ \A i \in 1 .. Len(acks) + 1 : i = Len(acks) + 1 \/ i \in 1 .. Len(acks)
      BY <1>4, <2>5, Appended
    <3>2. \A i \in 1 .. Len(acks') : \/ acks'[i] \in refused'
                                     \/ /\ acks'[i] # running
                                        /\ \E j \in 1 .. Len(ran) : ran[j] = acks'[i]
      <4> SUFFICES ASSUME NEW i \in 1 .. Len(acks) + 1
                   PROVE  \/ acks'[i] \in refused'
                          \/ acks'[i] # running /\ \E j \in 1 .. Len(ran) : ran[j] = acks'[i]
        BY <3>1
      <4>1. CASE i = Len(acks) + 1
        BY <2>1, <3>1, <4>1
      <4>2. CASE i \in 1 .. Len(acks)
        BY <2>3, <3>1, <4>2
      <4> QED BY <3>1, <4>1, <4>2
    <3>3. \A i, j \in 1 .. Len(acks') : acks'[i] = acks'[j] => i = j
      <4> SUFFICES ASSUME NEW i \in 1 .. Len(acks) + 1, NEW j \in 1 .. Len(acks) + 1,
                          acks'[i] = acks'[j]
                   PROVE  i = j
        BY <3>1
      <4>1. CASE i \in 1 .. Len(acks) /\ j \in 1 .. Len(acks)
        BY <1>3, <3>1, <4>1 DEF Turns
      <4>2. CASE i = Len(acks) + 1 \/ j = Len(acks) + 1
        BY <2>3, <3>1, <4>2
      <4> QED BY <3>1, <4>1, <4>2
    <3> QED BY <1>2, <1>3, <2>1, <2>2, <3>2, <3>3 DEF Turns, Rising
  <2> QED BY <2>1, <2>4, <2>5
<1> QED BY <1>5, <1>6

\* The oldest command is taken: none that waits is older, and it was never answered.
LEMMA TakesInTurn ==
    ASSUME Inv, ExecTake PROVE Turns'
<1>1. Turns /\ queue \in Seq(Command) /\ ran \in Seq(Command) /\ acks \in Seq(Command)
  BY DEF Inv, CommandsTyped
<1>2. PICK c \in Command : c = queue[1] /\ c = Head(queue)
  BY <1>1 DEF ExecTake
<1>3. /\ running' = c /\ queue' = Tail(queue) /\ ran' = Append(ran, c)
      /\ UNCHANGED <<received, acks, refused>>
  BY <1>2 DEF ExecTake, TakeNext
<1>4. /\ Len(queue) \in Nat /\ Len(queue') = Len(queue) - 1 /\ 1 \in 1 .. Len(queue)
      /\ \A j \in 1 .. Len(queue') : queue'[j] = queue[j + 1]
      /\ \A j \in 1 .. Len(queue') : j + 1 \in 1 .. Len(queue) /\ 1 < j + 1
  BY <1>1, <1>3 DEF ExecTake
<1>5. /\ Len(ran') = Len(ran) + 1 /\ Len(ran) \in Nat /\ ran'[Len(ran) + 1] = c
      /\ \A i \in 1 .. Len(ran) : ran'[i] = ran[i]
      /\ \A i \in 1 .. Len(ran) + 1 : i = Len(ran) + 1 \/ i \in 1 .. Len(ran)
  BY <1>1, <1>3, Appended
<1>6. /\ c <= received /\ c \notin refused
      /\ \A i \in 1 .. Len(ran) : ran[i] < c
  BY <1>1, <1>2, <1>4 DEF Turns
<1>7. Rising(ran')
  BY <1>1, <1>3, <1>6, AppendRises DEF Turns
<1>8. Rising(queue')
  <2> SUFFICES ASSUME NEW i \in 1 .. Len(queue'), NEW j \in 1 .. Len(queue'), i < j
               PROVE  queue'[i] < queue'[j]
    BY DEF Rising
  <2>1. i + 1 < j + 1 /\ i + 1 \in 1 .. Len(queue) /\ j + 1 \in 1 .. Len(queue)
    BY <1>4
  <2>2. queue[i + 1] < queue[j + 1]
    BY <1>1, <2>1 DEF Turns, Rising
  <2> QED BY <1>4, <2>2
<1>9. \A i \in 1 .. Len(ran'), j \in 1 .. Len(queue') : ran'[i] < queue'[j]
  <2> SUFFICES ASSUME NEW i \in 1 .. Len(ran) + 1, NEW j \in 1 .. Len(queue')
               PROVE  ran'[i] < queue'[j]
    BY <1>5
  <2>1. queue'[j] = queue[j + 1] /\ j + 1 \in 1 .. Len(queue) /\ 1 < j + 1
    BY <1>4
  <2>2. CASE i = Len(ran) + 1
    <3>1. queue[1] < queue[j + 1]
      BY <1>1, <1>4, <2>1 DEF Turns, Rising
    <3> QED BY <1>2, <1>5, <2>1, <2>2, <3>1
  <2>3. CASE i \in 1 .. Len(ran)
    <3>1. ran[i] < queue[j + 1]
      BY <1>1, <2>1, <2>3 DEF Turns
    <3> QED BY <1>5, <2>1, <2>3, <3>1
  <2> QED BY <1>5, <2>2, <2>3
<1>10. \A i \in 1 .. Len(ran') : ran'[i] <= received /\ ran'[i] \notin refused
  <2> SUFFICES ASSUME NEW i \in 1 .. Len(ran) + 1
               PROVE  ran'[i] <= received /\ ran'[i] \notin refused
    BY <1>5
  <2>1. CASE i = Len(ran) + 1
    BY <1>5, <1>6, <2>1
  <2>2. CASE i \in 1 .. Len(ran)
    BY <1>1, <1>5, <2>2 DEF Turns
  <2> QED BY <1>5, <2>1, <2>2
<1>11. \A i \in 1 .. Len(queue') : queue'[i] <= received /\ queue'[i] \notin refused
  BY <1>1, <1>4 DEF Turns
<1>12. \A i \in 1 .. Len(acks) : \/ acks[i] \in refused
                                 \/ /\ acks[i] # c
                                    /\ \E j \in 1 .. Len(ran') : ran'[j] = acks[i]
  <2> SUFFICES ASSUME NEW i \in 1 .. Len(acks), acks[i] \notin refused
               PROVE  acks[i] # c /\ \E j \in 1 .. Len(ran') : ran'[j] = acks[i]
    OBVIOUS
  <2>1. PICK j \in 1 .. Len(ran) : ran[j] = acks[i]
    BY <1>1 DEF Turns
  <2>2. j \in 1 .. Len(ran') /\ ran'[j] = acks[i] /\ acks[i] < c
    BY <1>5, <1>6, <2>1
  <2>3. acks[i] \in Nat /\ c \in Nat
    BY Sizes, CommandTypes DEF Inv, Command
  <2> QED BY <2>2, <2>3
<1>13. running' # 0 => \E j \in 1 .. Len(ran') : ran'[j] = running'
  BY <1>3, <1>5
<1> QED BY <1>1, <1>3, <1>7, <1>8, <1>9, <1>10, <1>11, <1>12, <1>13 DEF Turns

\* A command that returns is answered, if at all, for the first time.
LEMMA AnswersOnce ==
    ASSUME Inv, ExecDone PROVE Turns'
<1>1. Turns /\ acks \in Seq(Command) /\ running \in Command
  BY DEF ExecDone, Inv, CommandsTyped, Command
<1>2. UNCHANGED <<queue, ran, received, refused>> /\ running' = 0 /\ running # 0
  BY DEF ExecDone
<1>3. PICK j \in 1 .. Len(ran) : ran[j] = running
  BY <1>1, <1>2 DEF Turns
<1>4. \A i \in 1 .. Len(acks) :
         /\ acks[i] # running /\ acks[i] \in Command
         /\ acks[i] \in refused \/ \E k \in 1 .. Len(ran) : ran[k] = acks[i]
  BY <1>1, <1>3, ElementOfSeq DEF Turns
<1>0. \A d \in Command : d # 0
  BY Sizes DEF Command
<1>5. CASE acks' = acks
  <2>1. \A i \in 1 .. Len(acks) :
           acks[i] \in refused \/ (acks[i] # 0 /\ \E k \in 1 .. Len(ran) : ran[k] = acks[i])
    <3> SUFFICES ASSUME NEW i \in 1 .. Len(acks), acks[i] \notin refused
                 PROVE  acks[i] # 0 /\ \E k \in 1 .. Len(ran) : ran[k] = acks[i]
      OBVIOUS
    <3> QED BY <1>0, <1>4
  <2> QED BY <1>1, <1>2, <1>5, <2>1 DEF Turns, Rising
<1>6. CASE acks' = Append(acks, running)
  <2>1. /\ Len(acks') = Len(acks) + 1 /\ Len(acks) \in Nat
        /\ \A i \in 1 .. Len(acks) : acks'[i] = acks[i]
        /\ acks'[Len(acks) + 1] = running
        /\ \A i \in 1 .. Len(acks) + 1 : i = Len(acks) + 1 \/ i \in 1 .. Len(acks)
    BY <1>1, <1>6, Appended
  <2>2. \A i \in 1 .. Len(acks') : \/ acks'[i] \in refused
                                   \/ /\ acks'[i] # 0
                                      /\ \E k \in 1 .. Len(ran) : ran[k] = acks'[i]
    <3> SUFFICES ASSUME NEW i \in 1 .. Len(acks) + 1
                 PROVE  \/ acks'[i] \in refused
                        \/ acks'[i] # 0 /\ \E k \in 1 .. Len(ran) : ran[k] = acks'[i]
      BY <2>1
    <3>1. CASE i = Len(acks) + 1
      BY <1>2, <1>3, <2>1, <3>1
    <3>2. CASE i \in 1 .. Len(acks)
      BY <1>0, <1>4, <2>1, <3>2
    <3> QED BY <2>1, <3>1, <3>2
  <2>3. \A i, k \in 1 .. Len(acks') : acks'[i] = acks'[k] => i = k
    <3> SUFFICES ASSUME NEW i \in 1 .. Len(acks) + 1, NEW k \in 1 .. Len(acks) + 1,
                        acks'[i] = acks'[k]
                 PROVE  i = k
      BY <2>1
    <3>1. CASE i \in 1 .. Len(acks) /\ k \in 1 .. Len(acks)
      BY <1>1, <2>1, <3>1 DEF Turns
    <3>2. CASE i = Len(acks) + 1 \/ k = Len(acks) + 1
      BY <1>4, <2>1, <3>2
    <3> QED BY <2>1, <3>1, <3>2
  <2> QED BY <1>1, <1>2, <2>2, <2>3 DEF Turns, Rising
<1> QED BY <1>5, <1>6 DEF ExecDone

\* Each command has its turn.
LEMMA TurnsStep ==
    ASSUME Inv, [Next]_vars PROVE Turns'
<1>1. CASE OnConsole
  BY <1>1, ReceivesInTurn
<1>2. CASE ExecTake
  BY <1>2, TakesInTurn
<1>3. CASE ExecDone
  BY <1>3, AnswersOnce
<1>4. CASE PowerLoss \/ SubscribeFaults \/ PairReqFaults \/ ExecFaults
  BY <1>4, RestartedStep DEF PowerLoss, SubscribeFaults, PairReqFaults, ExecFaults, Faults, Inv
<1>5. CASE UNCHANGED <<queue, running, ran, received, acks, refused>>
  BY <1>5 DEF Inv, Turns, Rising
<1> QED BY <1>1, <1>2, <1>3, <1>4, <1>5, CommandsKept DEF Next

---------------------------------------------------------------------------
(* The invariant. *)

\* A panel that was never switched on.
LEMMA InitInv == ASSUME Init PROVE Inv
<1>1. StateTyped
  <2>1. 0 \in 0 .. FuseMax /\ 0 \in 0 .. MaxKey /\ 0 \in 0 .. WindowLen
    BY Sizes
  <2> QED BY <2>1 DEF Init, StateTyped
<1>2. CommandsTyped
  <2>1. <<>> \in Seq(Command) /\ Len(<<>>) <= QueueMax
    BY Sizes
  <2> QED BY <2>1, Sizes DEF CommandsTyped, Init
<1>3. Bonded
  <2>1. confirmed = 1 .. 0 /\ 0 \in 0 .. MaxKey
    BY Sizes DEF Init
  <2> QED BY <2>1 DEF Init, Bonded, OneBond, Down, Pairings
<1>4. FuseCounts /\ Turns
  BY DEF Init, FuseCounts, Turns, Rising
<1> QED BY <1>1, <1>2, <1>3, <1>4 DEF Inv

\* The invariant holds in every state.
LEMMA InvHolds == Spec => []Inv
<1>1. Init => Inv
  BY InitInv
<1>2. Inv /\ [Next]_vars => Inv'
  BY StateStep, CommandsStep, FuseStep, BondStep, TurnsStep DEF Inv
<1> QED BY <1>1, <1>2, PTL DEF Spec

---------------------------------------------------------------------------
(* What the glue promises. *)

\* Every variable keeps its type, and no more commands wait than there is room for.
THEOREM TypeCorrect == Spec => []TypeOK
<1>1. Inv => TypeOK
  BY DEF Inv, StateTyped, CommandsTyped, TypeOK
<1> QED BY <1>1, InvHolds, PTL

\* A panel that never stays up with Bluetooth tries it no more than FuseMax times
\* (whm_whlink_init).
THEOREM BootFuse == Spec => []FuseStops
<1>1. Inv => FuseStops
  BY Sizes DEF Inv, StateTyped, FuseCounts, FuseStops
<1> QED BY <1>1, InvHolds, PTL

\* Flash and RAM agree on the bond, and the live session is the bond's (bond_save_from_ctx,
\* bond_forget).
THEOREM SessionIsBonds == Spec => []OneBond
<1>1. Inv => OneBond
  BY DEF Inv, Bonded
<1> QED BY <1>1, InvHolds, PTL

\* A console command runs at most once, in its turn, never after it was refused, and is
\* answered at most once (wl_exec_task, cb_on_message).
THEOREM CommandsOnce == Spec => []CommandOnce
<1>1. ASSUME Inv PROVE CommandOnce
  <2>1. /\ Turns /\ DOMAIN ran = 1 .. Len(ran) /\ DOMAIN acks = 1 .. Len(acks)
        /\ Len(ran) \in Nat
    BY <1>1, LenProperties DEF Inv, CommandsTyped
  <2>2. IsInjective(acks)
    <3>1. \A i, j \in DOMAIN acks : acks[i] = acks[j] => i = j
      BY <2>1 DEF Turns
    <3> QED BY <3>1 DEF IsInjective
  <2>3. IsInjective(ran)
    <3>1. \A i \in 1 .. Len(ran) : ran[i] \in Nat
      BY <1>1, CommandTypes DEF Inv
    <3>2. \A i, j \in 1 .. Len(ran) : ran[i] = ran[j] => i = j
      BY <2>1, <3>1 DEF Turns, Rising
    <3> QED BY <2>1, <3>2 DEF IsInjective
  <2> QED BY <2>1, <2>2, <2>3 DEF CommandOnce, Turns, Rising
<1> QED BY <1>1, InvHolds, PTL
=============================================================================
