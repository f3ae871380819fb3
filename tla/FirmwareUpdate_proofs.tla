----------------------- MODULE FirmwareUpdate_proofs -----------------------
(* Any number of units, tasks, blocks, versions and faults: the running slot *)
(* of a unit is always one complete image, and an update no other has        *)
(* disturbed stages exactly what its source ran.                             *)
EXTENDS FirmwareUpdate, TLAPS

USE DEF Block, Blank, Junk

Stage == {"idle", "erase", "connect", "asked", "pull", "cut", "switch", "count"}
Cell == Version \cup {Blank, Junk}
TaskType ==
    [at : Stage, src : Unit, got : 0 .. Size, ver : Version \cup {0}, alone : BOOLEAN]

\* The slot a task writes to.
Spare(k) == flash[Home[k]][Target(Home[k])]

\* A task at t that erases has a block left to erase, one that waits for its source has
\* received nothing, and one that pulls is served the image it was promised: its source
\* still runs it.
PullsAs(t) ==
    /\ t.at = "erase" => t.got < Size
    /\ t.at \in {"connect", "asked"} => t.got = 0
    /\ t.at = "pull" => Served(t.src) = Image(t.ver)
    /\ t.at \in {"pull", "switch", "count"} => t.ver \in Version

\* What the slot of an undisturbed task k holds when the task is at t.
UndisturbedAs(k, t) ==
    t.alone =>
        /\ t.at = "erase" => \A i \in 1 .. t.got : Spare(k)[i] = Blank
        /\ t.at \in {"connect", "asked"} => \A i \in Block : Spare(k)[i] = Blank
        /\ t.at = "pull" =>
              \A i \in Block : Spare(k)[i] = IF i <= t.got THEN t.ver ELSE Blank
        /\ t.at \in {"switch", "count"} => Spare(k) = Image(t.ver)
        /\ t.at = "count" => boot[Home[k]] = Target(Home[k])

TasksOK == \A k \in Task : PullsAs(task[k]) /\ UndisturbedAs(k, task[k])

Inv == TypeOK /\ RunsWhole /\ TasksOK

---------------------------------------------------------------------------
(* The operators the steps are made of.                                    *)

\* What a proof uses of the constants.
LEMMA Constants ==
    /\ Home \in [Task -> Unit] /\ Version \subseteq Nat \ {0} /\ Size \in Nat \ {0}
    /\ Source \in Unit /\ First \in [Unit -> Version]
BY UpdateAssumption

\* The types of the variables, with names.
LEMMA TypeParts ==
    ASSUME TypeOK
    PROVE  /\ flash \in [Unit -> [Slot -> [Block -> Cell]]]
           /\ run \in [Unit -> Slot] /\ boot \in [Unit -> Slot]
           /\ task \in [Task -> TaskType]
BY DEF TypeOK, Cell, TaskType, Stage

\* The two slots of a unit.
LEMMA TargetBeside ==
    ASSUME TypeOK, NEW u \in Unit
    PROVE  /\ run[u] \in Slot /\ boot[u] \in Slot
           /\ Target(u) \in Slot /\ Target(u) # run[u]
           /\ boot[u] # Target(u) => boot[u] = run[u]
<1>1. run[u] \in {0, 1} /\ boot[u] \in {0, 1}
  BY TypeParts DEF Slot
<1> QED BY <1>1 DEF Target, Slot

\* A task at rest is a task.
LEMMA IdleType == Idle \in TaskType /\ Idle.at = "idle"
BY Constants DEF Idle, TaskType, Stage

\* A unit that runs a complete image runs a version.
LEMMA RunsVersion ==
    ASSUME TypeOK, RunsWhole, NEW u \in Unit
    PROVE  Runs(u) \in Version /\ Served(u) = Image(Runs(u))
<1>1. PICK v \in Version : flash[u][run[u]] = Image(v)
  BY DEF RunsWhole, Whole
<1>2. 1 \in Block
  BY Constants
<1> QED BY <1>1, <1>2 DEF Runs, Served, Image

\* A write changes one block of the slot beside the running one, and no other slot.
LEMMA WriteFrame ==
    ASSUME TypeOK, NEW k \in Task, NEW i \in Block, NEW c \in Cell, WriteSlot(k, i, c),
           UNCHANGED run
    PROVE  /\ flash' \in [Unit -> [Slot -> [Block -> Cell]]]
           /\ \A u \in Unit : flash'[u][run[u]] = flash[u][run[u]]
           /\ \A u \in Unit : u # Home[k] => flash'[u] = flash[u]
           /\ flash'[Home[k]][Target(Home[k])]
                = [flash[Home[k]][Target(Home[k])] EXCEPT ![i] = c]
<1> HIDE DEF Block
<1>1. PICK h \in Unit : h = Home[k]
  BY Constants
<1>2. PICK g \in Slot : g = Target(h) /\ g # run[h]
  BY TargetBeside
<1>3. flash \in [Unit -> [Slot -> [Block -> Cell]]] /\ run \in [Unit -> Slot]
  BY TypeParts
<1>4. flash[h] \in [Slot -> [Block -> Cell]] /\ flash[h][g] \in [Block -> Cell]
  BY <1>3
<1>5. flash' = [flash EXCEPT ![h][g][i] = c]
  BY <1>1, <1>2 DEF WriteSlot
<1>6. flash'[h] = [flash[h] EXCEPT ![g][i] = c]
  BY <1>3, <1>5
<1>7. \A u \in Unit : u # h => flash'[u] = flash[u]
  BY <1>3, <1>5
<1>8. flash'[h][g] = [flash[h][g] EXCEPT ![i] = c]
  BY <1>4, <1>6
<1>9. flash'[h][run[h]] = flash[h][run[h]]
  BY <1>2, <1>3, <1>4, <1>6
<1>10. [flash[h][g] EXCEPT ![i] = c] \in [Block -> Cell]
  BY <1>4
<1>11. flash'[h] \in [Slot -> [Block -> Cell]]
  BY <1>4, <1>6, <1>10
<1>12. flash' \in [Unit -> [Slot -> [Block -> Cell]]]
  BY <1>3, <1>5, <1>6, <1>11
<1> QED BY <1>1, <1>2, <1>7, <1>8, <1>9, <1>12

---------------------------------------------------------------------------
(* The kinds of steps.                                                     *)

\* A task goes on; the slots and the choice of boot stay.
LEMMA QuietStep ==
    ASSUME Inv, NEW k \in Task, NEW t \in TaskType, Goes(k, t),
           UNCHANGED <<flash, run, boot>>,
           asks' \in 0 .. MaxAsk, faults' \in 0 .. MaxFault,
           t.at = "pull" => Serving(t.src) = {},
           PullsAs(t), UndisturbedAs(k, t)
    PROVE  Inv'
<1>1. task' \in [Task -> TaskType]
  BY TypeParts DEF Inv, Goes
<1>2. task'[k] = t /\ \A j \in Task \ {k} : task'[j] = task[j]
  BY TypeParts DEF Inv, Goes
<1>3. \A s \in Unit : \A i, j \in Serving(s)' : i = j
  <2> SUFFICES ASSUME NEW s \in Unit, NEW i \in Task, NEW j \in Task,
                      task'[i].at = "pull", task'[i].src = s,
                      task'[j].at = "pull", task'[j].src = s
               PROVE  i = j
    BY DEF Serving
  <2>1. CASE i # k /\ j # k
    BY <1>2, <2>1 DEF Inv, TypeOK, Serving
  <2>2. CASE i = k \/ j = k
    BY <1>2, <2>2 DEF Serving
  <2> QED BY <2>1, <2>2
<1>4. TypeOK'
  BY <1>1, <1>3 DEF Inv, TypeOK, TaskType, Stage
<1>5. RunsWhole'
  BY DEF Inv, RunsWhole, Whole
<1>6. TasksOK'
  <2> SUFFICES ASSUME NEW j \in Task PROVE (PullsAs(task[j]) /\ UndisturbedAs(j, task[j]))'
    BY DEF TasksOK
  <2>1. CASE j = k
    BY <1>2, <2>1 DEF PullsAs, UndisturbedAs, Spare, Served, Target
  <2>2. CASE j # k
    BY <1>2, <2>2 DEF Inv, TasksOK, PullsAs, UndisturbedAs, Spare, Served, Target
  <2> QED BY <2>1, <2>2
<1> QED BY <1>4, <1>5, <1>6 DEF Inv

\* A task writes a block of its slot; other updates of the unit are disturbed.
LEMMA WriteStep ==
    ASSUME Inv, NEW k \in Task, NEW i \in Block, NEW c \in Cell, NEW t \in TaskType,
           WriteSlot(k, i, c), Disturbs(k, t), UNCHANGED <<run, boot, asks, faults>>,
           t.at = "pull" => task[k].at = "pull" /\ t.src = task[k].src,
           PullsAs(t), UndisturbedAs(k, t)'
    PROVE  Inv'
<1>1. TypeOK /\ RunsWhole /\ TasksOK
  BY DEF Inv
<1>2. /\ flash' \in [Unit -> [Slot -> [Block -> Cell]]]
      /\ \A u \in Unit : flash'[u][run[u]] = flash[u][run[u]]
      /\ \A u \in Unit : u # Home[k] => flash'[u] = flash[u]
  BY <1>1, WriteFrame
<1>3. task \in [Task -> TaskType]
  BY <1>1, TypeParts
<1>4. ASSUME NEW j \in Task, j # k
      PROVE  /\ task'[j] \in TaskType
             /\ task'[j].at = task[j].at /\ task'[j].src = task[j].src
             /\ task'[j].got = task[j].got /\ task'[j].ver = task[j].ver
             /\ task'[j] # task[j] => ~task'[j].alone
             /\ Home[j] = Home[k] => task'[j] = Idle \/ ~task'[j].alone
             /\ Home[j] # Home[k] => task'[j] = task[j]
  <2>1. task[j] \in TaskType
    BY <1>3
  <2>2. task'[j] = IF Home[j] = Home[k] /\ task[j] # Idle
                   THEN [task[j] EXCEPT !.alone = FALSE] ELSE task[j]
    BY <1>4 DEF Disturbs
  <2>3. CASE Home[j] = Home[k] /\ task[j] # Idle
    BY <2>1, <2>2, <2>3 DEF TaskType
  <2>4. CASE ~(Home[j] = Home[k] /\ task[j] # Idle)
    BY <2>1, <2>2, <2>4
  <2> QED BY <2>3, <2>4
<1>5. task'[k] = t
  BY DEF Disturbs
<1>6. task' \in [Task -> TaskType]
  <2>1. \A j \in Task : task'[j] \in TaskType
    BY <1>4, <1>5
  <2>2. task' = [j \in Task |-> task'[j]]
    BY DEF Disturbs
  <2> QED BY <2>1, <2>2
<1>7. \A s \in Unit : \A m, j \in Serving(s)' : m = j
  <2> SUFFICES ASSUME NEW s \in Unit, NEW m \in Task, NEW j \in Task,
                      task'[m].at = "pull", task'[m].src = s,
                      task'[j].at = "pull", task'[j].src = s
               PROVE  m = j
    BY DEF Serving
  <2>1. task[m].at = "pull" /\ task[m].src = s
    BY <1>4, <1>5
  <2>2. task[j].at = "pull" /\ task[j].src = s
    BY <1>4, <1>5
  <2> QED BY <1>1, <2>1, <2>2 DEF TypeOK, Serving
<1>8. TypeOK'
  BY <1>1, <1>2, <1>6, <1>7 DEF TypeOK, Cell, TaskType, Stage
<1>9. RunsWhole'
  BY <1>1, <1>2 DEF RunsWhole, Whole
<1>10. ASSUME NEW s \in Unit PROVE Served(s)' = Served(s)
  BY <1>2 DEF Served
<1>11. ASSUME NEW j \in Task PROVE (PullsAs(task[j]) /\ UndisturbedAs(j, task[j]))'
  <2>1. CASE j = k
    <3>1. t.src \in Unit
      BY DEF TaskType
    <3> QED BY <1>5, <1>10, <2>1, <3>1 DEF PullsAs, UndisturbedAs
  <2>2. CASE j # k
    <3>1. task[j].src \in Unit
      BY <1>3 DEF TaskType
    <3>2. PullsAs(task[j]) /\ UndisturbedAs(j, task[j])
      BY <1>1 DEF TasksOK
    <3>3. PullsAs(task[j])'
      BY <1>4, <1>10, <2>2, <3>1, <3>2 DEF PullsAs
    <3>4. UndisturbedAs(j, task[j])'
      <4>1. CASE Home[j] = Home[k]
        BY <1>4, <2>2, <4>1, IdleType DEF UndisturbedAs
      <4>2. CASE Home[j] # Home[k]
        <5>1. Home[j] \in Unit
          BY Constants
        <5>2. Spare(j)' = Spare(j)
          BY <1>2, <4>2, <5>1 DEF Spare, Target
        <5> QED BY <1>4, <2>2, <3>2, <4>2, <5>2 DEF UndisturbedAs, Target
      <4> QED BY <4>1, <4>2
    <3> QED BY <3>3, <3>4
  <2> QED BY <2>1, <2>2
<1> QED BY <1>8, <1>9, <1>11 DEF Inv, TasksOK

\* A unit restarts: what it boots is complete, and nobody pulls from it any more.
LEMMA RebootStep ==
    ASSUME Inv, NEW u \in Unit, Reboot(u), faults' \in 0 .. MaxFault
    PROVE  Inv'
<1>1. TypeOK /\ RunsWhole /\ TasksOK
  BY DEF Inv
<1>2. UNCHANGED <<flash, boot, asks>>
  BY DEF Reboot
<1>3. run \in [Unit -> Slot] /\ boot \in [Unit -> Slot] /\ task \in [Task -> TaskType]
  BY <1>1, TypeParts
<1>4. BootChoice(u) \in Slot /\ Whole(u, BootChoice(u))
  <2>1. run[u] \in {0, 1} /\ boot[u] \in {0, 1}
    BY <1>3 DEF Slot
  <2>2. Whole(u, run[u])
    BY <1>1 DEF RunsWhole
  <2>3. ~Whole(u, boot[u]) => 1 - boot[u] = run[u]
    BY <2>1, <2>2
  <2> QED BY <2>1, <2>2, <2>3 DEF BootChoice, Slot
<1>5. /\ run' \in [Unit -> Slot] /\ run'[u] = BootChoice(u)
      /\ \A w \in Unit : w # u => run'[w] = run[w]
  BY <1>3, <1>4 DEF Reboot
<1>6. RunsWhole'
  BY <1>1, <1>2, <1>4, <1>5 DEF RunsWhole, Whole
<1>7. ASSUME NEW j \in Task
      PROVE  /\ task'[j] \in TaskType
             /\ \/ task'[j] = Idle
                \/ task'[j].at = "cut"
                \/ /\ task'[j] = task[j] /\ Home[j] # u
                   /\ task[j].at \in {"asked", "pull"} => task[j].src # u
  <2>1. task[j] \in TaskType
    BY <1>3
  <2>2. task'[j] = IF Home[j] = u THEN Idle
                   ELSE IF task[j].src = u /\ task[j].at \in {"asked", "pull"}
                   THEN [task[j] EXCEPT !.at = "cut"]
                   ELSE task[j]
    BY DEF Reboot
  <2> QED BY <2>1, <2>2, IdleType DEF TaskType, Stage
<1>8. task' \in [Task -> TaskType]
  <2>1. task' = [j \in Task |-> task'[j]]
    BY DEF Reboot
  <2> QED BY <1>7, <2>1
<1>9. \A s \in Unit : \A m, j \in Serving(s)' : m = j
  <2> SUFFICES ASSUME NEW s \in Unit, NEW m \in Task, NEW j \in Task,
                      task'[m].at = "pull", task'[m].src = s,
                      task'[j].at = "pull", task'[j].src = s
               PROVE  m = j
    BY DEF Serving
  <2>1. task[m].at = "pull" /\ task[m].src = s
    BY <1>7, IdleType
  <2>2. task[j].at = "pull" /\ task[j].src = s
    BY <1>7, IdleType
  <2> QED BY <1>1, <2>1, <2>2 DEF TypeOK, Serving
<1>10. TypeOK'
  BY <1>1, <1>2, <1>5, <1>8, <1>9 DEF TypeOK, TaskType, Stage
<1>11. ASSUME NEW j \in Task PROVE (PullsAs(task[j]) /\ UndisturbedAs(j, task[j]))'
  <2>1. CASE task'[j] = Idle \/ task'[j].at = "cut"
    BY <2>1, IdleType DEF PullsAs, UndisturbedAs
  <2>2. CASE /\ task'[j] = task[j] /\ Home[j] # u
             /\ task[j].at \in {"asked", "pull"} => task[j].src # u
    <3>1. task[j].src \in Unit /\ Home[j] \in Unit
      BY <1>3, Constants DEF TaskType
    <3>2. PullsAs(task[j]) /\ UndisturbedAs(j, task[j])
      BY <1>1 DEF TasksOK
    <3>3. task[j].at = "pull" => Served(task[j].src)' = Served(task[j].src)
      BY <1>2, <1>5, <2>2, <3>1 DEF Served
    <3>4. Target(Home[j])' = Target(Home[j]) /\ Spare(j)' = Spare(j)
      BY <1>2, <1>5, <2>2, <3>1 DEF Target, Spare
    <3> QED BY <1>2, <2>2, <3>2, <3>3, <3>4 DEF PullsAs, UndisturbedAs
  <2> QED BY <1>7, <2>1, <2>2
<1> QED BY <1>6, <1>10, <1>11 DEF Inv, TasksOK

---------------------------------------------------------------------------
(* The steps one by one.                                                   *)

\* A command that ends early leaves the slots as they are.
LEMMA StopsStep ==
    ASSUME Inv, NEW k \in Task, Stops(k), asks' \in 0 .. MaxAsk, faults' \in 0 .. MaxFault
    PROVE  Inv'
BY QuietStep, IdleType DEF Stops, PullsAs, UndisturbedAs

\* An update begins: nothing is erased yet, so nothing is claimed of the slot.
LEMMA StartStep ==
    ASSUME Inv, NEW k \in Task, NEW s \in Unit, NEW force \in BOOLEAN, Starts(k, s, force),
           asks' \in 0 .. MaxAsk
    PROVE  Inv'
<1>1. PICK t \in TaskType : t = [Idle EXCEPT !.at = "erase", !.src = s]
  <2>1. [Idle EXCEPT !.at = "erase", !.src = s] \in TaskType
    BY IdleType DEF TaskType, Stage
  <2> QED BY <2>1
<1>2. t.at = "erase" /\ t.got = 0
  BY <1>1 DEF Idle
<1>3. Size > 0
  BY Constants
<1>4. PullsAs(t) /\ UndisturbedAs(k, t)
  BY <1>2, <1>3 DEF PullsAs, UndisturbedAs
<1> QED BY <1>1, <1>2, <1>4, QuietStep DEF Starts, Inv, TypeOK

\* The erased part of an undisturbed slot grows until all of it is blank.
LEMMA EraseStep ==
    ASSUME Inv, NEW k \in Task, Erase(k) PROVE Inv'
<1>1. task[k] \in TaskType /\ task[k].at = "erase" /\ task[k].got < Size
  BY TypeParts DEF Erase, Inv, TasksOK, PullsAs
<1>2. PICK i \in Block : i = task[k].got + 1
  BY <1>1, Constants DEF TaskType
<1>3. PICK t \in TaskType :
         t = IF task[k].got + 1 = Size THEN [task[k] EXCEPT !.at = "connect", !.got = 0]
             ELSE [task[k] EXCEPT !.got = @ + 1]
  <2>1. task[k].got + 1 \in 0 .. Size /\ 0 \in 0 .. Size
    BY <1>1, Constants DEF TaskType
  <2>2. [task[k] EXCEPT !.at = "connect", !.got = 0] \in TaskType
    BY <1>1, <2>1 DEF TaskType, Stage
  <2>3. [task[k] EXCEPT !.got = @ + 1] \in TaskType
    BY <1>1, <2>1 DEF TaskType, Stage
  <2> QED BY <2>2, <2>3
<1>4. WriteSlot(k, i, Blank) /\ Disturbs(k, t) /\ UNCHANGED <<run, boot, asks, faults>>
  BY <1>2, <1>3 DEF Erase
<1>5. /\ t.at = "connect" => t.got = 0 /\ i = Size
      /\ t.at = "erase" => t.got = i /\ i < Size
      /\ t.at \in {"connect", "erase"} /\ t.alone = task[k].alone
  BY <1>1, <1>2, <1>3, Constants DEF TaskType
<1>6. PullsAs(t)
  BY <1>5 DEF PullsAs
<1>11. Blank \in Cell
  BY DEF Cell
<1>7. \A b \in Block : Spare(k)'[b] = IF b = i THEN Blank ELSE Spare(k)[b]
  <2>1. Home[k] \in Unit /\ Spare(k) \in [Block -> Cell]
    BY Constants, TypeParts, TargetBeside DEF Inv, Spare
  <2>2. Spare(k)' = [Spare(k) EXCEPT ![i] = Blank]
    <3>1. Target(Home[k])' = Target(Home[k])
      BY <1>4 DEF Target
    <3>2. flash'[Home[k]][Target(Home[k])] = [Spare(k) EXCEPT ![i] = Blank]
      BY <1>4, <1>11, WriteFrame DEF Inv, Spare
    <3> QED BY <3>1, <3>2 DEF Spare
  <2> QED BY <2>1, <2>2
<1>8. task[k].alone => \A b \in 1 .. task[k].got : Spare(k)[b] = Blank
  BY <1>1 DEF Inv, TasksOK, UndisturbedAs
<1>9. t.alone => \A b \in 1 .. i : Spare(k)'[b] = Blank
  <2> SUFFICES ASSUME t.alone, NEW b \in 1 .. i PROVE Spare(k)'[b] = Blank
    OBVIOUS
  <2>1. b \in Block /\ (b = i \/ b \in 1 .. task[k].got)
    <3>1. task[k].got \in Int /\ Size \in Int /\ i \in 1 .. Size /\ i = task[k].got + 1
      BY <1>1, <1>2, Constants DEF TaskType
    <3> QED BY <3>1
  <2> QED BY <1>5, <1>7, <1>8, <2>1
<1>10. UndisturbedAs(k, t)'
  BY <1>5, <1>9 DEF UndisturbedAs
<1> QED BY <1>4, <1>5, <1>6, <1>10, <1>11, WriteStep

\* The connection is open; the slot is blank still.
LEMMA ConnectStep ==
    ASSUME Inv, NEW k \in Task, Connect(k) PROVE Inv'
<1>1. task[k] \in TaskType /\ task[k].at = "connect"
  BY TypeParts DEF Connect, Inv
<1>2. PICK t \in TaskType : t = [task[k] EXCEPT !.at = "asked"]
  <2>1. [task[k] EXCEPT !.at = "asked"] \in TaskType
    BY <1>1 DEF TaskType, Stage
  <2> QED BY <2>1
<1>3. t.at = "asked" /\ t.alone = task[k].alone /\ t.got = task[k].got
  BY <1>1, <1>2 DEF TaskType
<1>4. PullsAs(t) /\ UndisturbedAs(k, t)
  BY <1>1, <1>3 DEF Inv, TasksOK, PullsAs, UndisturbedAs
<1> QED BY <1>2, <1>3, <1>4, QuietStep DEF Connect, Inv, TypeOK

\* The source begins to stream: it runs one complete image, and serves nobody else.
LEMMA ServeStep ==
    ASSUME Inv, NEW k \in Task, Serve(k) PROVE Inv'
<1>1. task[k] \in TaskType /\ task[k].at = "asked" /\ task[k].src \in Unit
  BY TypeParts DEF Serve, Inv, TaskType
<1>2. Runs(task[k].src) \in Version /\ Served(task[k].src) = Image(Runs(task[k].src))
  BY <1>1, RunsVersion DEF Inv
<1>3. PICK t \in TaskType : t = [task[k] EXCEPT !.at = "pull", !.ver = Runs(task[k].src)]
  <2>1. [task[k] EXCEPT !.at = "pull", !.ver = Runs(task[k].src)] \in TaskType
    BY <1>1, <1>2 DEF TaskType, Stage
  <2> QED BY <2>1
<1>4. /\ t.at = "pull" /\ t.src = task[k].src /\ t.ver = Runs(task[k].src)
      /\ t.alone = task[k].alone /\ t.got = task[k].got
  BY <1>1, <1>3 DEF TaskType
<1>5. task[k].got = 0
  BY <1>1 DEF Inv, TasksOK, PullsAs
<1>6. PullsAs(t)
  BY <1>2, <1>4 DEF PullsAs
<1>7. UndisturbedAs(k, t)
  <2>1. t.alone => \A i \in Block : Spare(k)[i] = Blank
    BY <1>1, <1>4 DEF Inv, TasksOK, UndisturbedAs
  <2>2. \A i \in Block : ~(i <= t.got)
    BY <1>4, <1>5, Constants
  <2> QED BY <1>4, <2>1, <2>2 DEF UndisturbedAs
<1> QED BY <1>3, <1>4, <1>6, <1>7, QuietStep DEF Serve, Inv, TypeOK

\* An undisturbed block was blank, so it takes what the source runs.
LEMMA ChunkStep ==
    ASSUME Inv, NEW k \in Task, Chunk(k) PROVE Inv'
<1>1. task[k] \in TaskType /\ task[k].at = "pull" /\ task[k].got < Size
  BY TypeParts DEF Chunk, Inv
<1>2. PICK i \in Block : i = task[k].got + 1
  BY <1>1, Constants DEF TaskType
<1>3. PICK t \in TaskType : t = [task[k] EXCEPT !.got = i]
  <2>1. [task[k] EXCEPT !.got = i] \in TaskType
    BY <1>1, <1>2, Constants DEF TaskType
  <2> QED BY <2>1
<1>4. /\ t.at = "pull" /\ t.src = task[k].src /\ t.ver = task[k].ver
      /\ t.alone = task[k].alone /\ t.got = i
  BY <1>1, <1>3 DEF TaskType
<1>5. /\ task[k].ver \in Version /\ Served(task[k].src) = Image(task[k].ver)
      /\ Served(task[k].src)[i] = task[k].ver
  BY <1>1, <1>2 DEF Inv, TasksOK, PullsAs, Image
<1>6. Home[k] \in Unit /\ Spare(k) \in [Block -> Cell]
  BY Constants, TypeParts, TargetBeside DEF Inv, Spare
<1>7. PICK c \in Cell : c = Burnt(Spare(k)[i], task[k].ver)
  <2>1. Burnt(Spare(k)[i], task[k].ver) \in Cell
    BY <1>5 DEF Burnt, Cell
  <2> QED BY <2>1
<1>8. WriteSlot(k, i, c) /\ Disturbs(k, t) /\ UNCHANGED <<run, boot, asks, faults>>
  BY <1>2, <1>3, <1>5, <1>7 DEF Chunk, Spare
<1>9. \A b \in Block : Spare(k)'[b] = IF b = i THEN c ELSE Spare(k)[b]
  <2>1. Target(Home[k])' = Target(Home[k])
    BY <1>8 DEF Target
  <2>2. flash'[Home[k]][Target(Home[k])] = [Spare(k) EXCEPT ![i] = c]
    BY <1>8, WriteFrame DEF Inv, Spare
  <2>3. Spare(k)' = [Spare(k) EXCEPT ![i] = c]
    BY <2>1, <2>2 DEF Spare
  <2> QED BY <1>6, <2>3
<1>10. PullsAs(t)
  BY <1>4, <1>5 DEF PullsAs
<1>11. ASSUME t.alone, NEW b \in Block
       PROVE  Spare(k)'[b] = IF b <= t.got THEN t.ver ELSE Blank
  <2>1. \A d \in Block : Spare(k)[d] = IF d <= task[k].got THEN task[k].ver ELSE Blank
    BY <1>1, <1>4, <1>11 DEF Inv, TasksOK, UndisturbedAs
  <2>2. task[k].got \in Int /\ i \in Int /\ b \in Int
    BY <1>1, <1>2, Constants DEF TaskType
  <2>3. c = task[k].ver
    BY <1>2, <1>7, <2>1, <2>2 DEF Burnt
  <2>4. CASE b = i
    BY <1>4, <1>9, <2>2, <2>3, <2>4
  <2>5. CASE b # i
    <3>1. b <= i <=> b <= task[k].got
      BY <1>2, <2>2, <2>5
    <3> QED BY <1>4, <1>9, <2>1, <2>5, <3>1
  <2> QED BY <2>4, <2>5
<1>12. UndisturbedAs(k, t)'
  BY <1>4, <1>11 DEF UndisturbedAs
<1> QED BY <1>1, <1>4, <1>8, <1>10, <1>12, WriteStep

\* All blocks have arrived: an undisturbed slot holds the image of the source.
LEMMA ValidateStep ==
    ASSUME Inv, NEW k \in Task, Validate(k) PROVE Inv'
<1>1. task[k] \in TaskType /\ task[k].at = "pull" /\ task[k].got = Size
  BY TypeParts DEF Validate, Inv
<1>2. CASE Whole(Home[k], Target(Home[k]))
  <2>1. PICK t \in TaskType : t = [task[k] EXCEPT !.at = "switch"]
    <3>1. [task[k] EXCEPT !.at = "switch"] \in TaskType
      BY <1>1 DEF TaskType, Stage
    <3> QED BY <3>1
  <2>2. t.at = "switch" /\ t.ver = task[k].ver /\ t.alone = task[k].alone
    BY <1>1, <2>1 DEF TaskType
  <2>3. PullsAs(t)
    BY <1>1, <2>2 DEF Inv, TasksOK, PullsAs
  <2>4. ASSUME t.alone PROVE Spare(k) = Image(t.ver)
    <3>1. \A b \in Block : Spare(k)[b] = IF b <= Size THEN t.ver ELSE Blank
      BY <1>1, <2>2, <2>4 DEF Inv, TasksOK, UndisturbedAs
    <3>2. \A b \in Block : b <= Size
      BY Constants
    <3>3. Spare(k) \in [Block -> Cell]
      BY Constants, TypeParts, TargetBeside DEF Inv, Spare
    <3>4. \A b \in Block : Spare(k)[b] = t.ver
      BY <3>1, <3>2
    <3> QED BY <3>3, <3>4 DEF Image
  <2>5. UndisturbedAs(k, t)
    BY <2>2, <2>4 DEF UndisturbedAs
  <2> QED BY <1>2, <2>1, <2>2, <2>3, <2>5, QuietStep DEF Validate, Inv, TypeOK
<1>3. CASE ~Whole(Home[k], Target(Home[k]))
  BY <1>3, StopsStep DEF Validate, Stops, Inv, TypeOK
<1> QED BY <1>2, <1>3

\* Every command for the unit names the same slot, and it is whole.
LEMMA SetBootStep ==
    ASSUME Inv, NEW k \in Task, SetBoot(k) PROVE Inv'
<1>1. task[k] \in TaskType /\ task[k].at = "switch" /\ Home[k] \in Unit
  BY TypeParts, Constants DEF SetBoot, Inv
<1>2. CASE ~Whole(Home[k], Target(Home[k]))
  BY <1>2, StopsStep DEF SetBoot, Stops, Inv, TypeOK
<1>3. CASE Whole(Home[k], Target(Home[k]))
  <2>1. PICK t \in TaskType : t = [task[k] EXCEPT !.at = "count"]
    <3>1. [task[k] EXCEPT !.at = "count"] \in TaskType
      BY <1>1 DEF TaskType, Stage
    <3> QED BY <3>1
  <2>2. t.at = "count" /\ t.ver = task[k].ver /\ t.alone = task[k].alone
    BY <1>1, <2>1 DEF TaskType
  <2>3. /\ task' = [task EXCEPT ![k] = t] /\ boot' = [boot EXCEPT ![Home[k]] = Target(Home[k])]
        /\ UNCHANGED <<flash, run, asks, faults>>
    BY <1>3, <2>1 DEF SetBoot, Goes
  <2>4. /\ task' \in [Task -> TaskType] /\ task'[k] = t
        /\ \A j \in Task : j # k => task'[j] = task[j]
    BY <2>3, TypeParts DEF Inv
  <2>5. /\ boot' \in [Unit -> Slot] /\ boot'[Home[k]] = Target(Home[k])
        /\ \A u \in Unit : u # Home[k] => boot'[u] = boot[u]
    BY <1>1, <2>3, TypeParts, TargetBeside DEF Inv
  <2>6. \A s \in Unit : \A i, j \in Serving(s)' : i = j
    <3> SUFFICES ASSUME NEW s \in Unit, NEW i \in Task, NEW j \in Task,
                        task'[i].at = "pull", task'[i].src = s,
                        task'[j].at = "pull", task'[j].src = s
                 PROVE  i = j
      BY DEF Serving
    <3>1. i # k /\ j # k
      BY <2>2, <2>4
    <3> QED BY <2>4, <3>1 DEF Inv, TypeOK, Serving
  <2>7. TypeOK'
    BY <2>3, <2>4, <2>5, <2>6 DEF Inv, TypeOK, TaskType, Stage
  <2>8. RunsWhole'
    BY <2>3 DEF Inv, RunsWhole, Whole
  <2>9. ASSUME NEW j \in Task PROVE (PullsAs(task[j]) /\ UndisturbedAs(j, task[j]))'
    <3>1. PullsAs(task[j]) /\ UndisturbedAs(j, task[j]) /\ Home[j] \in Unit
      BY Constants DEF Inv, TasksOK
    <3>2. Spare(j)' = Spare(j) /\ Target(Home[j])' = Target(Home[j])
      BY <2>3 DEF Spare, Target
    <3>3. \A x : Served(x)' = Served(x)
      BY <2>3 DEF Served
    <3>4. CASE j = k
      BY <1>1, <2>2, <2>4, <2>5, <3>1, <3>2, <3>4 DEF PullsAs, UndisturbedAs
    <3>5. CASE j # k
      <4>1. boot[Home[j]] = Target(Home[j]) => boot'[Home[j]] = Target(Home[j])
        BY <2>5, <3>1
      <4> QED BY <2>4, <3>1, <3>2, <3>3, <3>5, <4>1 DEF PullsAs, UndisturbedAs
    <3> QED BY <3>4, <3>5
  <2> QED BY <2>7, <2>8, <2>9 DEF Inv, TasksOK
<1> QED BY <1>2, <1>3

\* A connection breaks; the slot keeps what has arrived.
LEMMA LinkBreaksStep ==
    ASSUME Inv, NEW k \in Task, LinkBreaks(k) PROVE Inv'
<1>1. task[k] \in TaskType
  BY TypeParts DEF Inv
<1>2. PICK t \in TaskType : t = [task[k] EXCEPT !.at = "cut"]
  <2>1. [task[k] EXCEPT !.at = "cut"] \in TaskType
    BY <1>1 DEF TaskType, Stage
  <2> QED BY <2>1
<1>3. t.at = "cut"
  BY <1>1, <1>2 DEF TaskType
<1>4. PullsAs(t) /\ UndisturbedAs(k, t)
  BY <1>3 DEF PullsAs, UndisturbedAs
<1>5. asks' \in 0 .. MaxAsk /\ faults' \in 0 .. MaxFault
  BY UpdateAssumption DEF LinkBreaks, Fault, Inv, TypeOK
<1> QED BY <1>2, <1>3, <1>4, <1>5, QuietStep DEF LinkBreaks

\* The counters stay in their bounds.
LEMMA Bounds ==
    ASSUME TypeOK
    PROVE  /\ UNCHANGED asks => asks' \in 0 .. MaxAsk
           /\ UNCHANGED faults => faults' \in 0 .. MaxFault
           /\ Fault => faults' \in 0 .. MaxFault
           /\ asks < MaxAsk /\ asks' = asks + 1 => asks' \in 0 .. MaxAsk
BY UpdateAssumption DEF TypeOK, Fault

---------------------------------------------------------------------------
(* The theorems.                                                           *)

\* A unit fresh from the cable runs slot 0, which is whole, and no update is under way.
LEMMA InitInv == Init => Inv
<1> SUFFICES ASSUME Init PROVE Inv
  OBVIOUS
<1>1. \A v \in Version \cup {Blank} : Image(v) \in [Block -> Cell]
  BY DEF Image, Cell
<1>2. TypeOK
  <2>1. flash \in [Unit -> [Slot -> [Block -> Cell]]]
    <3>1. \A u \in Unit, s \in Slot :
             (IF s = 0 THEN First[u] ELSE Blank) \in Version \cup {Blank}
      BY Constants
    <3>2. flash = [u \in Unit |-> [s \in Slot |-> Image(IF s = 0 THEN First[u] ELSE Blank)]]
      BY DEF Init
    <3> HIDE DEF Block, Blank
    <3> QED BY <1>1, <3>1, <3>2
  <2>2. task \in [Task -> TaskType]
    BY IdleType DEF Init
  <2>3. \A s \in Unit : Serving(s) = {}
    BY IdleType DEF Init, Serving
  <2>4. /\ run \in [Unit -> Slot] /\ boot \in [Unit -> Slot]
        /\ asks \in 0 .. MaxAsk /\ faults \in 0 .. MaxFault
    BY UpdateAssumption DEF Init, Slot
  <2> QED BY <2>1, <2>2, <2>3, <2>4 DEF TypeOK, Cell, TaskType, Stage
<1>3. RunsWhole
  <2>1. \A u \in Unit : flash[u][run[u]] = Image(First[u])
    BY DEF Init, Slot
  <2> QED BY <2>1, Constants DEF RunsWhole, Whole
<1>4. TasksOK
  BY IdleType DEF Init, TasksOK, PullsAs, UndisturbedAs
<1> QED BY <1>2, <1>3, <1>4 DEF Inv

\* Every step of every task, fault and restart keeps the invariant.
LEMMA NextInv == Inv /\ [Next]_vars => Inv'
<1> SUFFICES ASSUME Inv, [Next]_vars PROVE Inv'
  OBVIOUS
<1>1. TypeOK /\ Home \in [Task -> Unit]
  BY Constants DEF Inv
<1>2. CASE UNCHANGED vars
  <2> USE <1>2 DEF vars
  <2>1. TypeOK'
    BY <1>1 DEF TypeOK, Serving
  <2>2. RunsWhole'
    BY DEF Inv, RunsWhole, Whole
  <2>3. ASSUME NEW k \in Task PROVE (PullsAs(task[k]) /\ UndisturbedAs(k, task[k]))'
    <3>1. PullsAs(task[k]) /\ UndisturbedAs(k, task[k])
      BY DEF Inv, TasksOK
    <3>2. Spare(k)' = Spare(k) /\ Target(Home[k])' = Target(Home[k])
      BY DEF Spare, Target
    <3>3. \A s : Served(s)' = Served(s)
      BY DEF Served
    <3> QED BY <3>1, <3>2, <3>3 DEF PullsAs, UndisturbedAs
  <2> QED BY <2>1, <2>2, <2>3 DEF Inv, TasksOK
<1>3. ASSUME NEW k \in Task, Proceeds(k) PROVE Inv'
  <2>1. CASE Erase(k) \/ Connect(k) \/ Serve(k) \/ Chunk(k) \/ Validate(k) \/ SetBoot(k)
    BY <2>1, EraseStep, ConnectStep, ServeStep, ChunkStep, ValidateStep, SetBootStep
  <2>2. CASE GiveUp(k) \/ Broken(k)
    BY <1>1, <2>2, StopsStep, Bounds DEF GiveUp, Broken
  <2>3. CASE Restart(k)
    BY <1>1, <2>3, RebootStep, Bounds DEF Restart
  <2> QED BY <1>3, <2>1, <2>2, <2>3 DEF Proceeds
<1>4. ASSUME NEW k \in Task, FleetAsk(k) PROVE Inv'
  BY <1>1, <1>4, StartStep, Bounds, Constants DEF FleetAsk
<1>5. ASSUME NEW k \in Task, Fails(k) PROVE Inv'
  BY <1>1, <1>5, StopsStep, Bounds DEF Fails
<1>6. ASSUME NEW k \in Task, LinkBreaks(k) PROVE Inv'
  BY <1>6, LinkBreaksStep
<1>7. ASSUME NEW k \in Task, NEW s \in Unit, NEW force \in BOOLEAN, Ask(k, s, force)
      PROVE  Inv'
  BY <1>1, <1>7, StartStep, Bounds DEF Ask
<1>8. ASSUME NEW u \in Unit, PowerLoss(u) PROVE Inv'
  BY <1>1, <1>8, RebootStep, Bounds DEF PowerLoss
<1> QED BY <1>2, <1>3, <1>4, <1>5, <1>6, <1>7, <1>8 DEF Next

\* Types hold, and a unit streams to one other at a time, for any fleet and any bounds.
THEOREM TypeCorrect == Spec => []TypeOK
<1>1. Inv => TypeOK
  BY DEF Inv
<1> QED BY <1>1, InitInv, NextInv, PTL DEF Spec

\* The program a unit runs is one complete image, whatever updates of it run side by side
\* and wherever they fail: no write goes to the running slot, and the bootloader leaves a
\* damaged one for the slot that ran.
THEOREM RunningSlotWhole == Spec => []RunsWhole
<1>1. Inv => RunsWhole
  BY DEF Inv
<1> QED BY <1>1, InitInv, NextInv, PTL DEF Spec

\* An update no other has disturbed restarts into the image its source ran as it began to
\* serve: every block of the slot was blank when it was written, and what a unit runs does
\* not change while it serves.
THEOREM UndisturbedBoots == Spec => []LeftAloneBoots
<1>1. Inv => LeftAloneBoots
  <2> SUFFICES ASSUME Inv, NEW k \in Task, task[k].at = "count", task[k].alone
               PROVE  /\ BootChoice(Home[k]) = Target(Home[k])
                      /\ flash[Home[k]][Target(Home[k])] = Image(task[k].ver)
    BY DEF LeftAloneBoots
  <2>1. /\ task[k].ver \in Version /\ boot[Home[k]] = Target(Home[k])
        /\ Spare(k) = Image(task[k].ver)
    BY DEF Inv, TasksOK, PullsAs, UndisturbedAs
  <2>2. Whole(Home[k], boot[Home[k]])
    BY <2>1 DEF Whole, Spare
  <2> QED BY <2>1, <2>2 DEF BootChoice, Spare
<1> QED BY <1>1, InitInv, NextInv, PTL DEF Spec
=============================================================================
