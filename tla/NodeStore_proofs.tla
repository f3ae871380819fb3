-------------------------- MODULE NodeStore_proofs --------------------------
(***************************************************************************)
(* The settings store for any number of shells, peers, values, jobs,       *)
(* refusals of flash and losses of power and any length of the broker's    *)
(* queue: the name served is the name stored, a unit keeps the identity it *)
(* first came up with, a label fits its zone, and a pin is never replaced. *)
(* What the store holds between two calls of a job is what the job's next  *)
(* call relies on, as long as no other task does the same job.             *)
(***************************************************************************)
EXTENDS NodeStore, SequenceTheorems, TLAPS

---------------------------------------------------------------------------
(* Types. *)

Stored == Val \cup Name \cup {0} \cup 1 .. MaxLoss + 1
Job == [kind : {"none", "mint", "ident", "unpin", "zone", "name"}, n : Peer \cup {0},
        v : Stored, pc : 0 .. 5, reg : SUBSET Peer]
Call == [st : {"none", "queued", "done"}, ok : BOOLEAN, v : Stored, reg : SUBSET Peer]

\* What a job of each kind is about, and the task that does it.
JobFits(t, j) ==
    \/ j.kind = "none" /\ j.pc = 0
    \/ j.kind = "mint" /\ t = Main /\ j.pc \in 1 .. 4 /\ j.v \in 1 .. MaxLoss + 1
    \/ j.kind = "ident" /\ t = Recv /\ j.pc \in 1 .. 5 /\ j.n \in Peer /\ j.v \in Val
    \/ j.kind = "unpin" /\ t \in Shell /\ j.pc \in 1 .. 4 /\ j.n \in Peer
    \/ j.kind = "zone" /\ t \in Shell /\ j.pc \in 1 .. 3 /\ j.v \in Val
    \/ j.kind = "name" /\ t \in Shell /\ j.pc = 1 /\ j.v \in Name \cup {0}

StoreTyped ==
    /\ flash \in [Key -> Stored] /\ flash[<<"node">>] \in Name \cup {0}
    /\ idx \subseteq Peer /\ cache \in Name \cup {0} /\ losses \in 0 .. MaxLoss

JobsTyped ==
    /\ job \in [Task -> Job] /\ \A t \in Task : JobFits(t, job[t])
    /\ on \in BOOLEAN /\ (~on => \A t \in Task : job[t].kind = "none")

CallsTyped ==
    /\ call \in [Task -> Call]
    /\ \A t \in Task : job[t].kind = "none" => call[t].st = "none"

QueueTyped ==
    /\ queue \in Seq(Task) /\ Len(queue) <= QueueMax
    /\ \A i \in 1 .. Len(queue) : call[queue[i]].st = "queued"
    /\ \A i, j \in 1 .. Len(queue) : queue[i] = queue[j] => i = j
    /\ \A t \in Task : call[t].st = "queued" => \E i \in 1 .. Len(queue) : queue[i] = t

---------------------------------------------------------------------------
(* The inductive invariant. *)

Served(t) == call[t].st = "done"

\* At most one shell has a job of this kind.
Alone(kind) == \A c, d \in Shell : job[c].kind = kind /\ job[d].kind = kind => c = d

\* A shell has stored a name and has yet to learn it.
Learning(c) == job[c].kind = "name" /\ Served(c) /\ call[c].ok

\* The copy of the name differs from flash only while a shell has yet to learn that it stored one.
NameKnown ==
    "name" \notin lapse =>
      /\ Alone("name")
      /\ on => /\ \A c \in Shell : Learning(c) => flash[<<"node">>] = job[c].v
               /\ (\A c \in Shell : ~Learning(c)) => cache = flash[<<"node">>]

IdFlash(i) == flash[<<IdKey[i]>>]

\* A unit that is minting its identity has stored the keys so far, and never the last one
\* before; one that came up once has all four keys stored and speaks with them.
IdKept ==
    /\ job[Main].kind = "mint" =>
         /\ first = <<>>
         /\ \A i \in 1 .. 4 : i < job[Main].pc \/ (i = job[Main].pc /\ Served(Main))
                                => IdFlash(i) = job[Main].v
         /\ job[Main].pc < 4 \/ ~Served(Main) => IdFlash(4) = 0
    /\ IdFlash(4) # 0 => \A i \in 1 .. 4 : IdFlash(i) = IdFlash(4)
    /\ first # <<>> => first = [i \in 1 .. 4 |-> IdFlash(i)] /\ IdFlash(4) # 0
    /\ identity # <<>> => identity = first

\* The label is away while a shell changes the zone.
ZoneFits(c) ==
    job[c].kind = "zone" =>
      /\ (job[c].pc = 1 /\ Served(c)) \/ job[c].pc = 2 => flash[<<"tz_lbl">>] = 0
      /\ (job[c].pc = 2 /\ Served(c)) \/ job[c].pc = 3 => flash[<<"tz">>] = job[c].v

ZoneKept ==
    "zone" \notin lapse =>
      /\ flash[<<"tz_lbl">>] \in {0, flash[<<"tz">>]}
      /\ Alone("zone") /\ \A c \in Shell : ZoneFits(c)

\* A name that is about to be pinned has no pin.
PinFree ==
    job[Recv].kind = "ident" =>
      /\ job[Recv].pc = 1 /\ Served(Recv) /\ ~call[Recv].ok => flash[Pin(job[Recv].n)] = 0
      /\ job[Recv].pc = 2 /\ ~Served(Recv) => flash[Pin(job[Recv].n)] = 0

\* A key of the identity and a zone that were to be stored are stored.
WellServed ==
    \A t \in Task : Served(t) /\ ~call[t].ok
                      => job[t].kind # "mint" /\ (job[t].kind = "zone" => job[t].pc # 2)

\* What holds as long as no call has given up or failed.
InTime == WellServed /\ IdKept /\ ZoneKept /\ PinFree

LapseTyped == lapse \subseteq {"call", "name", "zone"}

Typed == StoreTyped /\ JobsTyped /\ CallsTyped /\ QueueTyped /\ LapseTyped

Inv == Typed /\ NameKnown /\ ("call" \notin lapse => InTime)

---------------------------------------------------------------------------
(* The constants and the keys. *)

\* A task is a shell or one of two others.
LEMMA Tasks ==
    /\ Recv \in Task /\ Main \in Task /\ Shell \subseteq Task
    /\ Recv # Main /\ Recv \notin Shell /\ Main \notin Shell
    /\ \A t \in Task : t \in Shell \/ t = Recv \/ t = Main
BY StoreAssumption DEF Task

\* What a proof uses of the other constants.
LEMMA Sizes ==
    /\ QueueMax \in Nat /\ QueueMax >= 1 /\ MaxLoss \in Nat
    /\ 0 \notin Peer /\ 0 \notin Val /\ 0 \notin Name /\ 0 \in Stored
    /\ Val \subseteq Stored /\ Name \subseteq Stored /\ 1 .. MaxLoss + 1 \subseteq Stored
BY StoreAssumption DEF Stored

\* The keys of the settings differ.
LEMMA Keys ==
    /\ <<"node">> \in Key /\ <<"tz">> \in Key /\ <<"tz_lbl">> \in Key
    /\ \A i \in 1 .. 4 : <<IdKey[i]>> \in Key
    /\ \A n \in Peer : Pin(n) \in Key /\ Pinx(n) \in Key
    /\ <<"node">> # <<"tz">> /\ <<"node">> # <<"tz_lbl">> /\ <<"tz">> # <<"tz_lbl">>
    /\ \A i \in 1 .. 4 : /\ <<IdKey[i]>> # <<"node">> /\ <<IdKey[i]>> # <<"tz">>
                         /\ <<IdKey[i]>> # <<"tz_lbl">>
                         /\ \A k \in 1 .. 4 : i # k => <<IdKey[i]>> # <<IdKey[k]>>
                         /\ \A n \in Peer : <<IdKey[i]>> # Pin(n) /\ <<IdKey[i]>> # Pinx(n)
    /\ \A n \in Peer : /\ Pin(n) # <<"node">> /\ Pin(n) # <<"tz">> /\ Pin(n) # <<"tz_lbl">>
                       /\ Pinx(n) # <<"node">> /\ Pinx(n) # <<"tz">> /\ Pinx(n) # <<"tz_lbl">>
                       /\ \A m \in Peer : Pin(n) # Pinx(m) /\ (Pin(n) = Pin(m) => n = m)
<1>1. /\ <<"node">> \in Key /\ <<"tz">> \in Key /\ <<"tz_lbl">> \in Key
      /\ \A i \in 1 .. 4 : <<IdKey[i]>> \in Key
      /\ \A n \in Peer : Pin(n) \in Key /\ Pinx(n) \in Key
  BY DEF Key
<1>2. \A a, b : <<a>> = <<b>> => a = b
  OBVIOUS
<1>3. \A a, b, c : <<a>> # <<b, c>>
  OBVIOUS
<1>4. \A a, b, c, d : <<a, b>> = <<c, d>> => a = c /\ b = d
  OBVIOUS
<1>5. <<"node">> # <<"tz">> /\ <<"node">> # <<"tz_lbl">> /\ <<"tz">> # <<"tz_lbl">>
  BY <1>2
<1>6. ASSUME NEW i \in 1 .. 4
      PROVE  /\ IdKey[i] # "node" /\ IdKey[i] # "tz" /\ IdKey[i] # "tz_lbl"
             /\ \A k \in 1 .. 4 : i # k => IdKey[i] # IdKey[k]
  BY DEF IdKey
<1>7. ASSUME NEW i \in 1 .. 4
      PROVE  /\ <<IdKey[i]>> # <<"node">> /\ <<IdKey[i]>> # <<"tz">>
             /\ <<IdKey[i]>> # <<"tz_lbl">>
             /\ \A k \in 1 .. 4 : i # k => <<IdKey[i]>> # <<IdKey[k]>>
             /\ \A n \in Peer : <<IdKey[i]>> # Pin(n) /\ <<IdKey[i]>> # Pinx(n)
  BY <1>2, <1>3, <1>6 DEF Pin, Pinx
<1>8. ASSUME NEW n \in Peer
      PROVE  /\ Pin(n) # <<"node">> /\ Pin(n) # <<"tz">> /\ Pin(n) # <<"tz_lbl">>
             /\ Pinx(n) # <<"node">> /\ Pinx(n) # <<"tz">> /\ Pinx(n) # <<"tz_lbl">>
             /\ \A m \in Peer : Pin(n) # Pinx(m) /\ (Pin(n) = Pin(m) => n = m)
  BY <1>3, <1>4 DEF Pin, Pinx
<1> QED BY <1>1, <1>5, <1>7, <1>8

---------------------------------------------------------------------------
(* The jobs. *)

\* The request a job makes at each of its steps.
LEMMA AskTells ==
    ASSUME NEW t \in Task, NEW j \in Job, JobFits(t, j), j.kind # "none"
    PROVE  /\ Ask(j).op \in {"get", "set", "erase", "getidx", "setidx"}
           /\ Ask(j).key \in Key /\ Ask(j).v \in Stored /\ Ask(j).reg \subseteq Peer
           /\ j.kind = "mint" =>
                Ask(j).op = "set" /\ Ask(j).key = <<IdKey[j.pc]>> /\ Ask(j).v = j.v
           /\ j.kind = "ident" =>
                /\ j.pc = 1 => Ask(j).op = "get" /\ Ask(j).key = Pin(j.n)
                /\ j.pc = 2 => Ask(j).op = "set" /\ Ask(j).key = Pin(j.n) /\ Ask(j).v = j.v
                /\ j.pc \in {3, 4} => Ask(j).op \in {"getidx", "setidx"}
                /\ j.pc = 5 => Ask(j).op = "set" /\ Ask(j).key = Pinx(j.n) /\ Ask(j).v = j.v
           /\ j.kind = "unpin" =>
                /\ j.pc = 1 => Ask(j).op = "erase" /\ Ask(j).key = Pin(j.n) /\ Ask(j).v = 0
                /\ j.pc = 2 => Ask(j).op = "erase" /\ Ask(j).key = Pinx(j.n) /\ Ask(j).v = 0
                /\ j.pc \in {3, 4} => Ask(j).op \in {"getidx", "setidx"}
           /\ j.kind = "zone" =>
                /\ j.pc = 1 => Ask(j).op = "erase" /\ Ask(j).key = <<"tz_lbl">> /\ Ask(j).v = 0
                /\ j.pc = 2 => Ask(j).op = "set" /\ Ask(j).key = <<"tz">> /\ Ask(j).v = j.v
                /\ j.pc = 3 => Ask(j).op = "set" /\ Ask(j).key = <<"tz_lbl">> /\ Ask(j).v = j.v
           /\ j.kind = "name" =>
                /\ Ask(j).op \in {"set", "erase"} /\ Ask(j).key = <<"node">> /\ Ask(j).v = j.v
                /\ Ask(j).op = "set" <=> j.v # 0
<1> USE DEF Get, Put, Erase, GetIdx, PutIdx
<1>1. CASE j.kind = "mint"
  BY <1>1, Keys, Sizes DEF Ask, JobFits
<1>2. CASE j.kind = "ident"
  <2>1. j.pc \in 1 .. 5 /\ j.n \in Peer /\ j.v \in Val /\ j.reg \subseteq Peer
    BY <1>2 DEF JobFits, Job
  <2>2. Ask(j) = IdentAsk(j)
    BY <1>2 DEF Ask
  <2>3. CASE j.pc = 1
    BY <1>2, <2>2, <2>1, <2>3, Keys, Sizes DEF IdentAsk
  <2>4. CASE j.pc = 2
    BY <1>2, <2>2, <2>1, <2>4, Keys, Sizes DEF IdentAsk
  <2>5. CASE j.pc = 3
    BY <1>2, <2>2, <2>1, <2>5, Keys, Sizes DEF IdentAsk
  <2>6. CASE j.pc = 4
    BY <1>2, <2>2, <2>1, <2>6, Keys, Sizes DEF IdentAsk
  <2>7. CASE j.pc = 5
    BY <1>2, <2>2, <2>1, <2>7, Keys, Sizes DEF IdentAsk
  <2> QED BY <2>1, <2>3, <2>4, <2>5, <2>6, <2>7
<1>3. CASE j.kind = "unpin"
  <2>1. j.pc \in 1 .. 4 /\ j.n \in Peer /\ j.reg \subseteq Peer
    BY <1>3 DEF JobFits, Job
  <2>2. Ask(j) = UnpinAsk(j)
    BY <1>3 DEF Ask
  <2>3. CASE j.pc = 1
    BY <1>3, <2>2, <2>1, <2>3, Keys, Sizes DEF UnpinAsk
  <2>4. CASE j.pc = 2
    BY <1>3, <2>2, <2>1, <2>4, Keys, Sizes DEF UnpinAsk
  <2>5. CASE j.pc = 3
    BY <1>3, <2>2, <2>1, <2>5, Keys, Sizes DEF UnpinAsk
  <2>6. CASE j.pc = 4
    BY <1>3, <2>2, <2>1, <2>6, Keys, Sizes DEF UnpinAsk
  <2> QED BY <2>1, <2>3, <2>4, <2>5, <2>6
<1>4. CASE j.kind = "zone"
  <2>1. j.pc \in 1 .. 3 /\ j.v \in Val
    BY <1>4 DEF JobFits
  <2>2. Ask(j) = ZoneAsk(j)
    BY <1>4 DEF Ask
  <2>3. CASE j.pc = 1
    BY <1>4, <2>2, <2>1, <2>3, Keys, Sizes DEF ZoneAsk
  <2>4. CASE j.pc = 2
    BY <1>4, <2>2, <2>1, <2>4, Keys, Sizes DEF ZoneAsk
  <2>5. CASE j.pc = 3
    BY <1>4, <2>2, <2>1, <2>5, Keys, Sizes DEF ZoneAsk
  <2> QED BY <2>1, <2>3, <2>4, <2>5
<1>5. CASE j.kind = "name"
  BY <1>5, Keys, Sizes DEF Ask, JobFits
<1> QED BY <1>1, <1>2, <1>3, <1>4, <1>5 DEF Job

\* What follows an answer: the job ends, or goes on to its next step.
LEMMA AfterTells ==
    ASSUME NEW t \in Task, NEW j \in Job, NEW r \in Call, JobFits(t, j), j.kind # "none"
    PROVE  /\ After(j, r) \in Job /\ JobFits(t, After(j, r))
           /\ After(j, r) = NoJob <=> After(j, r).kind = "none"
           /\ After(j, r).kind \in {"none", j.kind}
           /\ After(j, r).kind # "none" =>
                /\ After(j, r).n = j.n /\ After(j, r).v = j.v
                /\ j.kind = "mint" => After(j, r).pc = j.pc + 1
                /\ j.kind = "ident" =>
                     After(j, r).pc # 1 /\ (After(j, r).pc = 2 => j.pc = 1 /\ ~r.ok)
                /\ j.kind = "zone" =>
                     After(j, r).pc = j.pc + 1 /\ (After(j, r).pc = 3 => j.pc = 2 /\ r.ok)
                /\ j.kind # "name"
           /\ j.kind = "mint" => (After(j, r).kind = "none" <=> j.pc = 4)
<1>1. j.kind \in {"mint", "ident", "unpin", "zone", "name"} /\ j.pc \in 1 .. 5
  BY DEF Job, JobFits
<1> DEFINE next == CASE j.kind = "ident" -> IdentAfter(j, r)
                     [] j.kind = "zone" -> ZoneAfter(j, r)
                     [] OTHER -> j.pc + 1
<1>2. After(j, r) = IF next > Last(j) THEN NoJob ELSE [j EXCEPT !.pc = next, !.reg = r.reg]
  BY DEF After
<1>3. NoJob \in Job /\ NoJob.kind = "none" /\ NoJob.pc = 0
  BY Sizes DEF NoJob, Job
<1>4. next \in 2 .. 6 /\ Last(j) \in 1 .. 5
  BY <1>1 DEF IdentAfter, ZoneAfter, Last
<1>5. /\ j.kind = "mint" => next = j.pc + 1 /\ Last(j) = 4
      /\ j.kind = "ident" => Last(j) = 5 /\ (next = 2 => j.pc = 1 /\ ~r.ok)
      /\ j.kind = "unpin" => Last(j) = 4
      /\ j.kind = "zone" => /\ next <= 3 => next = j.pc + 1
                            /\ next = 3 => j.pc = 2 /\ r.ok
                            /\ Last(j) = 3
      /\ j.kind = "name" => next = 2 /\ Last(j) = 1
  BY <1>1 DEF IdentAfter, ZoneAfter, Last, JobFits
<1> HIDE DEF next
<1>6. CASE next > Last(j)
  <2>1. After(j, r) = NoJob
    BY <1>2, <1>6
  <2>2. j.kind = "mint" => j.pc = 4
    BY <1>1, <1>5, <1>6 DEF JobFits
  <2> QED BY <1>3, <2>1, <2>2 DEF JobFits
<1>7. CASE ~(next > Last(j))
  <2>1. After(j, r) = [j EXCEPT !.pc = next, !.reg = r.reg]
    BY <1>2, <1>7
  <2>2. next \in 0 .. 5 /\ r.reg \in SUBSET Peer /\ next <= Last(j)
    BY <1>4, <1>7 DEF Call
  <2>3. /\ After(j, r) \in Job /\ After(j, r).kind = j.kind /\ After(j, r).n = j.n
        /\ After(j, r).v = j.v /\ After(j, r).pc = next
    BY <2>1, <2>2 DEF Job
  <2>4. JobFits(t, After(j, r))
    BY <1>1, <1>4, <1>5, <2>2, <2>3 DEF JobFits
  <2>5. j.kind = "mint" => j.pc # 4
    BY <1>1, <1>5, <2>2
  <2> QED BY <1>1, <1>3, <1>4, <1>5, <2>2, <2>3, <2>4, <2>5
<1> QED BY <1>6, <1>7

---------------------------------------------------------------------------
(* The broker. *)

\* The broker takes the request of task t, which has its answer.
Taken(t) ==
    /\ t = Head(queue) /\ queue' = Tail(queue) /\ queue # <<>>
    /\ call[t].st = "queued" /\ job[t].kind # "none"
    /\ call' \in [Task -> Call] /\ call'[t].st = "done" /\ \A u \in Task : u # t => call'[u] = call[u]
    /\ UNCHANGED <<job, cache, identity, on, first, losses>>

\* The broker serves task t: one key changes at most.
Serves(t) ==
    /\ Taken(t) /\ lapse' = lapse
    /\ flash' \in [Key -> Stored] /\ idx' \subseteq Peer
    /\ Ask(job[t]).op \in {"set", "erase"} =>
         /\ flash'[Ask(job[t]).key] = Ask(job[t]).v
         /\ \A k \in Key : k # Ask(job[t]).key => flash'[k] = flash[k]
    /\ Ask(job[t]).op \notin {"set", "erase"} => flash' = flash
    /\ Ask(job[t]).op \notin {"get", "erase"} => call'[t].ok
    /\ Ask(job[t]).op \in {"get", "erase"} => (call'[t].ok <=> flash[Ask(job[t]).key] # 0)

\* Task t gets an answer without the broker, or flash refuses its request: nothing is stored.
Answered(t) ==
    /\ call' \in [Task -> Call] /\ call'[t].st = "done" /\ \A u \in Task : u # t => call'[u] = call[u]
    /\ call[t].st # "done" /\ job[t].kind # "none"
    /\ ~call'[t].ok => lapse' = lapse \cup {"call"}
    /\ call'[t].ok => t = Recv /\ job[t].kind = "ident" /\ job[t].pc = 3 /\ lapse' = lapse
    /\ UNCHANGED <<flash, idx, job, cache, identity, on, first, losses>>

\* A call fails that was not answered before.
LEMMA FailStep ==
    ASSUME Typed, NEW t \in Task, call' = [call EXCEPT ![t] = Failed]
    PROVE  /\ call' \in [Task -> Call] /\ call'[t].st = "done" /\ ~call'[t].ok
           /\ \A u \in Task : u # t => call'[u] = call[u]
<1>1. Failed \in Call /\ Failed.st = "done" /\ ~Failed.ok
  BY Sizes DEF Failed, NoCall, Call
<1> QED BY <1>1 DEF Typed, CallsTyped

LEMMA TimeOutStep ==
    ASSUME Typed, NEW t \in Task, TimeOut(t)
    PROVE  Answered(t) /\ call[t].st = "none" /\ queue' = queue
<1>1. call' = [call EXCEPT ![t] = Failed]
  BY DEF TimeOut
<1> QED BY <1>1, FailStep DEF TimeOut, Lapse, Answered

LEMMA ReadDirectStep ==
    ASSUME Typed, NEW t \in Task, ReadDirect(t)
    PROVE  Answered(t) /\ call[t].st = "none" /\ queue' = queue
<1>1. job[t].kind = "ident" /\ job[t].pc = 3 /\ call[t].st = "none"
  BY DEF ReadDirect, Direct
<1>2. t = Recv
  BY <1>1 DEF Typed, JobsTyped, JobFits
<1>3. CASE call' = [call EXCEPT ![t] = Failed] /\ Lapse({"call"})
  BY <1>1, <1>3, FailStep DEF ReadDirect, Lapse, Answered
<1>4. CASE call' = [call EXCEPT ![t] = [Failed EXCEPT !.ok = TRUE, !.reg = idx]] /\ Lapse({})
  <2> DEFINE c == [Failed EXCEPT !.ok = TRUE, !.reg = idx]
  <2>1. c \in Call /\ c.st = "done" /\ c.ok
    BY Sizes DEF Failed, NoCall, Call, Typed, StoreTyped
  <2> HIDE DEF c
  <2>2. call' = [call EXCEPT ![t] = c]
    BY <1>4 DEF c
  <2>3. /\ call' \in [Task -> Call] /\ call'[t].st = "done" /\ call'[t].ok
        /\ \A u \in Task : u # t => call'[u] = call[u]
    BY <2>1, <2>2 DEF Typed, CallsTyped
  <2>4. lapse' = lapse
    BY <1>4 DEF Lapse
  <2> QED BY <1>1, <1>2, <2>3, <2>4 DEF ReadDirect, Answered
<1> QED BY <1>3, <1>4 DEF ReadDirect

\* The task at the head of the queue waits for an answer to its request.
LEMMA HeadStep ==
    ASSUME Typed, queue # <<>>
    PROVE  /\ Head(queue) \in Task /\ call[Head(queue)].st = "queued"
           /\ job[Head(queue)].kind # "none"
<1> DEFINE t == Head(queue)
<1>1. queue \in Seq(Task) /\ queue # <<>>
  BY DEF Typed, QueueTyped
<1>2. t \in Task /\ 1 \in 1 .. Len(queue) /\ queue[1] = t
  BY <1>1
<1>3. call[t].st = "queued"
  BY <1>2 DEF Typed, QueueTyped
<1> QED BY <1>2, <1>3 DEF Typed, CallsTyped

LEMMA ServeFailsStep ==
    ASSUME Typed, ServeFails
    PROVE  \E t \in Task : Taken(t) /\ Answered(t)
<1> DEFINE t == Head(queue)
<1>1. t \in Task /\ call[t].st = "queued" /\ job[t].kind # "none" /\ queue # <<>>
  BY HeadStep DEF ServeFails
<1>2. call' = [call EXCEPT ![t] = Failed]
  BY DEF ServeFails
<1>3. /\ call' \in [Task -> Call] /\ call'[t].st = "done" /\ ~call'[t].ok
      /\ \A u \in Task : u # t => call'[u] = call[u]
  BY <1>1, <1>2, FailStep
<1>4. Taken(t) /\ Answered(t)
  BY <1>1, <1>3 DEF ServeFails, Lapse, Taken, Answered
<1> QED BY <1>1, <1>4

LEMMA ServeStep ==
    ASSUME Typed, Serve
    PROVE  \E t \in Task : Serves(t)
<1> DEFINE t == Head(queue)
<1>2. t \in Task /\ call[t].st = "queued" /\ job[t].kind # "none" /\ queue # <<>>
  BY HeadStep DEF Serve
<1>5. job[t] \in Job /\ JobFits(t, job[t]) /\ call \in [Task -> Call]
  BY <1>2 DEF Typed, JobsTyped, CallsTyped
<1>6. flash \in [Key -> Stored] /\ idx \subseteq Peer
  BY DEF Typed, StoreTyped
<1> DEFINE q == Ask(job[t])
<1>7. /\ q.op \in {"get", "set", "erase", "getidx", "setidx"}
      /\ q.key \in Key /\ q.v \in Stored /\ q.reg \subseteq Peer
  BY <1>2, <1>5, AskTells
<1> DEFINE done == [Failed EXCEPT !.ok = TRUE]
<1>8. /\ q.op = "get" => /\ call' = [call EXCEPT ![t] = Answer(q.key, flash[q.key])]
                         /\ UNCHANGED <<flash, idx>>
      /\ q.op = "set" => /\ flash' = [flash EXCEPT ![q.key] = q.v]
                         /\ call' = [call EXCEPT ![t] = done] /\ UNCHANGED idx
      /\ q.op = "erase" => /\ flash' = [flash EXCEPT ![q.key] = 0]
                           /\ call' = [call EXCEPT ![t] = Answer(q.key, flash[q.key])]
                           /\ UNCHANGED idx
      /\ q.op = "getidx" => /\ call' = [call EXCEPT ![t] = [done EXCEPT !.reg = idx]]
                            /\ UNCHANGED <<flash, idx>>
      /\ q.op = "setidx" => /\ idx' = q.reg
                            /\ call' = [call EXCEPT ![t] = done] /\ UNCHANGED flash
  BY <1>7 DEF Serve
<1>9. q.op = "erase" => q.v = 0
  BY <1>2, <1>5, Sizes, AskTells DEF Job, JobFits
<1>10. /\ done \in Call /\ done.st = "done" /\ done.ok
       /\ [done EXCEPT !.reg = idx] \in Call /\ [done EXCEPT !.reg = idx].st = "done"
       /\ [done EXCEPT !.reg = idx].ok
  BY <1>6, Sizes DEF Failed, NoCall, Call
<1>11. /\ Answer(q.key, flash[q.key]) \in Call /\ Answer(q.key, flash[q.key]).st = "done"
       /\ Answer(q.key, flash[q.key]).ok <=> flash[q.key] # 0
  BY <1>6, <1>7 DEF Answer, Call
<1>12. /\ queue' = Tail(queue)
       /\ UNCHANGED <<job, cache, identity, on, lapse, first, losses>>
  BY DEF Serve
<1> HIDE DEF t, q, done
<1>13. /\ call' \in [Task -> Call] /\ \A u \in Task : u # t => call'[u] = call[u]
       /\ call'[t].st = "done"
       /\ q.op \notin {"get", "erase"} => call'[t].ok
       /\ q.op \in {"get", "erase"} => (call'[t].ok <=> flash[q.key] # 0)
  <2>1. PICK c \in Call : /\ call' = [call EXCEPT ![t] = c] /\ c.st = "done"
                          /\ q.op \notin {"get", "erase"} => c.ok
                          /\ q.op \in {"get", "erase"} => (c.ok <=> flash[q.key] # 0)
    BY <1>7, <1>8, <1>10, <1>11
  <2>2. call'[t] = c
    BY <1>2, <1>5, <2>1
  <2> QED BY <1>2, <1>5, <2>1, <2>2
<1>14. /\ flash' \in [Key -> Stored] /\ idx' \subseteq Peer
       /\ q.op \in {"set", "erase"} =>
            flash'[q.key] = q.v /\ \A k \in Key : k # q.key => flash'[k] = flash[k]
       /\ q.op \notin {"set", "erase"} => flash' = flash
  BY <1>6, <1>7, <1>8, <1>9, Sizes
<1>15. Serves(t)
  BY <1>2, <1>12, <1>13, <1>14 DEF Serves, Taken, t, q
<1> QED BY <1>2, <1>15

\* Which keys the broker changes for a job of each kind.
LEMMA ServeWrites ==
    ASSUME Typed, NEW t \in Task, Serves(t)
    PROVE  /\ job[t] \in Job /\ JobFits(t, job[t])
           /\ job[t].kind # "none" /\ ~Served(t) /\ call'[t].st = "done"
           /\ job[t].kind # "name" => UNCHANGED flash[<<"node">>]
           /\ job[t].kind # "zone" => UNCHANGED <<flash[<<"tz">>], flash[<<"tz_lbl">>]>>
           /\ t # Main => \A i \in 1 .. 4 : UNCHANGED flash[<<IdKey[i]>>]
           /\ \A n \in Peer : flash'[Pin(n)] # flash[Pin(n)] /\ flash'[Pin(n)] # 0
                => t = Recv /\ job[t].kind = "ident" /\ job[t].pc = 2 /\ job[t].n = n
<1>1. /\ job[t] \in Job /\ JobFits(t, job[t]) /\ job[t].kind # "none"
      /\ ~Served(t) /\ call'[t].st = "done"
  BY DEF Typed, JobsTyped, Serves, Taken, Served
<1>2. /\ Ask(job[t]).op \in {"set", "erase"} =>
           /\ flash'[Ask(job[t]).key] = Ask(job[t]).v
           /\ \A k \in Key : k # Ask(job[t]).key => flash'[k] = flash[k]
      /\ Ask(job[t]).op \notin {"set", "erase"} => flash' = flash
  BY DEF Serves
<1> DEFINE q == Ask(job[t])
<1> DEFINE j == job[t]
<1>3. /\ j.kind = "mint" => q.key = <<IdKey[j.pc]>> /\ j.pc \in 1 .. 4 /\ t = Main
      /\ j.kind = "ident" =>
           /\ t = Recv /\ j.n \in Peer
           /\ q.op \in {"set", "erase"} =>
                (j.pc = 2 /\ q.key = Pin(j.n)) \/ q.key = Pinx(j.n)
      /\ j.kind = "unpin" =>
           /\ t \in Shell /\ j.n \in Peer
           /\ q.op \in {"set", "erase"} =>
                (q.key = Pin(j.n) /\ q.v = 0) \/ q.key = Pinx(j.n)
      /\ j.kind = "zone" => t \in Shell /\ q.key \in {<<"tz">>, <<"tz_lbl">>}
      /\ j.kind = "name" => t \in Shell /\ q.key = <<"node">>
  <2>1. CASE j.kind = "mint"
    BY <1>1, <2>1, AskTells DEF JobFits
  <2>2. CASE j.kind = "ident"
    <3>1. j.pc \in {1, 2, 3, 4, 5}
      BY <1>1, <2>2 DEF JobFits
    <3> QED BY <1>1, <2>2, <3>1, AskTells DEF JobFits
  <2>3. CASE j.kind = "unpin"
    <3>1. j.pc \in {1, 2, 3, 4}
      BY <1>1, <2>3 DEF JobFits
    <3> QED BY <1>1, <2>3, <3>1, AskTells DEF JobFits
  <2>4. CASE j.kind = "zone"
    <3>1. j.pc \in {1, 2, 3}
      BY <1>1, <2>4 DEF JobFits
    <3> QED BY <1>1, <2>4, <3>1, AskTells DEF JobFits
  <2>5. CASE j.kind = "name"
    BY <1>1, <2>5, AskTells DEF JobFits
  <2> QED BY <1>1, <2>1, <2>2, <2>3, <2>4, <2>5 DEF Job
<1>4. j.kind \in {"mint", "ident", "unpin", "zone", "name"}
  BY <1>1 DEF Job
<1>5. CASE q.op \notin {"set", "erase"}
  BY <1>1, <1>2, <1>5
<1>6. CASE q.op \in {"set", "erase"}
  <2>1. flash'[q.key] = q.v /\ \A k \in Key : k # q.key => flash'[k] = flash[k]
    BY <1>2, <1>6
  <2> HIDE DEF q, j
  <2>2. j.kind # "name" => UNCHANGED flash[<<"node">>]
    BY <1>3, <1>4, <1>6, <2>1, Keys
  <2>3. j.kind # "zone" => UNCHANGED <<flash[<<"tz">>], flash[<<"tz_lbl">>]>>
    BY <1>3, <1>4, <1>6, <2>1, Keys
  <2>4. t # Main => \A i \in 1 .. 4 : UNCHANGED flash[<<IdKey[i]>>]
    BY <1>3, <1>4, <1>6, <2>1, Keys
  <2>5. ASSUME NEW n \in Peer, flash'[Pin(n)] # flash[Pin(n)], flash'[Pin(n)] # 0
        PROVE  t = Recv /\ j.kind = "ident" /\ j.pc = 2 /\ j.n = n
    <3>1. q.key = Pin(n) /\ q.v # 0
      BY <2>1, <2>5, Keys
    <3> QED BY <1>3, <1>4, <1>6, <3>1, Keys
  <2> QED BY <1>1, <2>2, <2>3, <2>4, <2>5 DEF j
<1> QED BY <1>5, <1>6

---------------------------------------------------------------------------
(* Types. *)

\* A task returns from its call: its job ends or goes on.
LEMMA ReturnStep ==
    ASSUME Typed, NEW t \in Task, Return(t)
    PROVE  /\ Served(t) /\ job[t].kind # "none" /\ job[t] \in Job /\ JobFits(t, job[t])
           /\ call[t] \in Call
           /\ job'[t] = After(job[t], call[t]) /\ job' \in [Task -> Job]
           /\ call'[t] = NoCall /\ call' \in [Task -> Call]
           /\ \A u \in Task : u # t => job'[u] = job[u] /\ call'[u] = call[u]
           /\ UNCHANGED <<flash, idx, queue, on, lapse, losses>>
<1>1. Served(t) /\ call \in [Task -> Call] /\ job \in [Task -> Job] /\ JobFits(t, job[t])
  BY DEF Typed, CallsTyped, JobsTyped, Return, Served
<1>2. job[t].kind # "none"
  BY <1>1 DEF Typed, CallsTyped, Served
<1>3. After(job[t], call[t]) \in Job
  BY <1>1, <1>2, AfterTells
<1>4. NoCall \in Call
  BY Sizes DEF NoCall, Call
<1> QED BY <1>1, <1>2, <1>3, <1>4 DEF Return

\* A task that has nothing to do begins a job.
LEMMA BeginStep ==
    ASSUME Typed, NEW t \in Task, NEW j \in Job, Begin(t, j), JobFits(t, [j EXCEPT !.pc = 1]),
           j.kind # "none"
    PROVE  /\ job' \in [Task -> Job] /\ JobFits(t, job'[t])
           /\ job'[t].kind = j.kind /\ job'[t].n = j.n /\ job'[t].v = j.v /\ job'[t].pc = 1
           /\ on /\ job[t].kind = "none" /\ call[t].st = "none"
           /\ \A u \in Task : u # t => job'[u] = job[u]
           /\ UNCHANGED <<flash, idx, call, queue, cache, identity, on, first, losses>>
           /\ lapse' = lapse \cup Crossed(t, j.kind)
<1>1. job \in [Task -> Job] /\ job' = [job EXCEPT ![t] = [j EXCEPT !.pc = 1]]
  BY DEF Typed, JobsTyped, Begin
<1>2. [j EXCEPT !.pc = 1] \in Job
  BY DEF Job
<1>3. job[t].kind = "none"
  BY DEF Begin, NoJob
<1>4. call[t].st = "none"
  BY <1>3 DEF Typed, CallsTyped
<1>5. [j EXCEPT !.pc = 1].kind = j.kind /\ [j EXCEPT !.pc = 1].n = j.n
      /\ [j EXCEPT !.pc = 1].v = j.v /\ [j EXCEPT !.pc = 1].pc = 1
  BY DEF Job
<1>6. job'[t] = [j EXCEPT !.pc = 1] /\ \A u \in Task : u # t => job'[u] = job[u]
  BY <1>1
<1> QED BY <1>1, <1>2, <1>3, <1>4, <1>5, <1>6 DEF Begin, calls

\* What a job is when it begins.
Begins(t, kind, n, v) ==
    /\ job' \in [Task -> Job] /\ JobFits(t, job'[t])
    /\ job'[t].kind = kind /\ job'[t].n = n /\ job'[t].v = v /\ job'[t].pc = 1
    /\ on /\ job[t].kind = "none" /\ call[t].st = "none"
    /\ \A u \in Task : u # t => job'[u] = job[u]
    /\ UNCHANGED <<flash, idx, call, queue, cache, identity, on, first, losses>>
    /\ lapse' = lapse \cup Crossed(t, kind)

LEMMA Commands ==
    ASSUME Typed
    PROVE  /\ \A n \in Peer, k \in Val : Ident(n, k) => Begins(Recv, "ident", n, k)
           /\ \A c \in Shell, n \in Peer : Unpin(c, n) => Begins(c, "unpin", n, 0)
           /\ \A c \in Shell, z \in Val : SetZone(c, z) => Begins(c, "zone", 0, z)
           /\ \A c \in Shell, v \in Name \cup {0} : SetName(c, v) => Begins(c, "name", 0, v)
<1>1. ASSUME NEW t \in Task, NEW j \in Job, Begin(t, j), j.kind # "none",
             \A i \in Job : i.kind = j.kind /\ i.n = j.n /\ i.v = j.v /\ i.pc = 1 => JobFits(t, i)
      PROVE  Begins(t, j.kind, j.n, j.v)
  <2>1. [j EXCEPT !.pc = 1] \in Job
    BY DEF Job
  <2>2. /\ [j EXCEPT !.pc = 1].kind = j.kind /\ [j EXCEPT !.pc = 1].n = j.n
        /\ [j EXCEPT !.pc = 1].v = j.v /\ [j EXCEPT !.pc = 1].pc = 1
    BY DEF Job
  <2>3. JobFits(t, [j EXCEPT !.pc = 1])
    BY <1>1, <2>1, <2>2
  <2> QED BY <1>1, <2>3, BeginStep DEF Begins
<1>0. NoJob \in Job /\ NoJob.n = 0 /\ NoJob.v = 0
  BY Sizes DEF NoJob, Job
<1>2. ASSUME NEW n \in Peer, NEW k \in Val, Ident(n, k) PROVE Begins(Recv, "ident", n, k)
  <2> DEFINE j == [NoJob EXCEPT !.kind = "ident", !.n = n, !.v = k]
  <2>1. j \in Job /\ j.kind = "ident" /\ j.n = n /\ j.v = k
    BY <1>0, Sizes DEF Job
  <2>2. Begin(Recv, j)
    BY <1>2 DEF Ident
  <2> HIDE DEF j
  <2>3. Begins(Recv, j.kind, j.n, j.v)
    BY <1>1, <2>1, <2>2, Tasks DEF JobFits
  <2> QED BY <2>1, <2>3
<1>3. ASSUME NEW c \in Shell, NEW n \in Peer, Unpin(c, n) PROVE Begins(c, "unpin", n, 0)
  <2> DEFINE j == [NoJob EXCEPT !.kind = "unpin", !.n = n]
  <2>1. j \in Job /\ j.kind = "unpin" /\ j.n = n /\ j.v = 0
    BY <1>0, Sizes DEF Job
  <2>2. Begin(c, j)
    BY <1>3 DEF Unpin
  <2> HIDE DEF j
  <2>3. Begins(c, j.kind, j.n, j.v)
    BY <1>1, <2>1, <2>2, Tasks DEF JobFits
  <2> QED BY <2>1, <2>3
<1>4. ASSUME NEW c \in Shell, NEW z \in Val, SetZone(c, z) PROVE Begins(c, "zone", 0, z)
  <2> DEFINE j == [NoJob EXCEPT !.kind = "zone", !.v = z]
  <2>1. j \in Job /\ j.kind = "zone" /\ j.n = 0 /\ j.v = z
    BY <1>0, Sizes DEF Job
  <2>2. Begin(c, j)
    BY <1>4 DEF SetZone
  <2> HIDE DEF j
  <2>3. Begins(c, j.kind, j.n, j.v)
    BY <1>1, <2>1, <2>2, Tasks DEF JobFits
  <2> QED BY <2>1, <2>3
<1>5. ASSUME NEW c \in Shell, NEW v \in Name \cup {0}, SetName(c, v) PROVE Begins(c, "name", 0, v)
  <2> DEFINE j == [NoJob EXCEPT !.kind = "name", !.v = v]
  <2>1. j \in Job /\ j.kind = "name" /\ j.n = 0 /\ j.v = v
    BY <1>0, Sizes DEF Job
  <2>2. Begin(c, j)
    BY <1>5 DEF SetName
  <2> HIDE DEF j
  <2>3. Begins(c, j.kind, j.n, j.v)
    BY <1>1, <2>1, <2>2, Tasks DEF JobFits
  <2> QED BY <2>1, <2>3
<1> QED BY <1>2, <1>3, <1>4, <1>5

\* A unit boots with the identity it finds, or mints one.
LEMMA BootStep ==
    ASSUME Typed, Boot
    PROVE  /\ ~on /\ on' = TRUE /\ cache' \in {0, flash[<<"node">>]}
           /\ "name" \notin lapse' => cache' = flash[<<"node">>]
           /\ lapse \subseteq lapse'
           /\ "zone" \in lapse' => "zone" \in lapse
           /\ \A t \in Task : job[t].kind = "none" /\ call[t].st = "none"
           /\ job' \in [Task -> Job] /\ \A t \in Task : t # Main => job'[t] = job[t]
           /\ \/ job' = job /\ identity' = [i \in 1 .. 4 |-> IdFlash(i)] /\ HasIdentity
              \/ /\ HasIdentity => "call" \in lapse'
                 /\ job'[Main].kind = "mint" /\ job'[Main].pc = 1
                 /\ job'[Main].v \in 1 .. MaxLoss + 1 /\ JobFits(Main, job'[Main])
                 /\ identity' = identity
           /\ UNCHANGED <<flash, idx, call, queue, losses>>
<1>1. /\ ~on /\ job \in [Task -> Job] /\ losses + 1 \in 1 .. MaxLoss + 1
      /\ \A t \in Task : job[t].kind = "none" /\ call[t].st = "none"
  <2>1. losses + 1 \in 1 .. MaxLoss + 1
    BY Sizes DEF Typed, StoreTyped
  <2> QED BY <2>1 DEF Typed, JobsTyped, CallsTyped, Boot
<1>2. NoJob \in Job
  BY Sizes DEF NoJob, Job
<1> DEFINE j == [NoJob EXCEPT !.kind = "mint", !.v = losses + 1, !.pc = 1]
<1>3. /\ losses + 1 \in Stored
      /\ j \in Job /\ j.kind = "mint" /\ j.pc = 1 /\ j.v = losses + 1
  <2>1. losses + 1 \in Stored
    BY <1>1, Sizes
  <2>2. \A w \in Stored : /\ [NoJob EXCEPT !.kind = "mint", !.v = w, !.pc = 1] \in Job
                          /\ [NoJob EXCEPT !.kind = "mint", !.v = w, !.pc = 1].kind = "mint"
                          /\ [NoJob EXCEPT !.kind = "mint", !.v = w, !.pc = 1].pc = 1
                          /\ [NoJob EXCEPT !.kind = "mint", !.v = w, !.pc = 1].v = w
    <3> TAKE w \in Stored
    <3> DEFINE i == [NoJob EXCEPT !.kind = "mint", !.v = w, !.pc = 1]
    <3>1. i.kind = "mint" /\ i.v = w /\ i.pc = 1
      BY <1>2 DEF Job
    <3>2. \A p \in 0 .. 5 : [NoJob EXCEPT !.kind = "mint", !.v = w, !.pc = p] \in Job
      BY <1>2 DEF Job
    <3>3. i \in Job
      BY <3>2
    <3> QED BY <3>1, <3>3
  <2> QED BY <2>1, <2>2
<1>4. PICK bad \in SUBSET {"name", "call"} :
        /\ Lapse(bad)
        /\ cache' = IF "name" \in bad THEN 0 ELSE flash[<<"node">>]
        /\ IF "call" \notin bad /\ HasIdentity
           THEN identity' = [i \in 1 .. 4 |-> flash[<<IdKey[i]>>]] /\ UNCHANGED job
           ELSE job' = [job EXCEPT ![Main] = j] /\ UNCHANGED identity
  BY DEF Boot
<1>5. /\ cache' \in {0, flash[<<"node">>]}
      /\ "name" \notin lapse' => cache' = flash[<<"node">>]
      /\ lapse' = lapse \cup bad
      /\ lapse \subseteq lapse'
      /\ "zone" \in lapse' => "zone" \in lapse
  BY <1>4 DEF Lapse
<1>6. on' = TRUE /\ UNCHANGED <<flash, idx, call, queue, losses>>
  BY DEF Boot, calls
<1>7. CASE "call" \notin bad /\ HasIdentity
  BY <1>1, <1>4, <1>5, <1>6, <1>7 DEF IdFlash
<1>8. CASE ~("call" \notin bad /\ HasIdentity)
  <2>1. job' = [job EXCEPT ![Main] = j] /\ identity' = identity
    BY <1>4, <1>8
  <2> HIDE DEF j
  <2>2. job'[Main] = j /\ job' \in [Task -> Job] /\ \A t \in Task : t # Main => job'[t] = job[t]
    BY <1>1, <1>3, <2>1, Tasks
  <2>3. JobFits(Main, j)
    BY <1>1, <1>3 DEF JobFits
  <2>4. HasIdentity => "call" \in lapse'
    BY <1>5, <1>8
  <2> QED BY <1>1, <1>3, <1>5, <1>6, <2>1, <2>2, <2>3, <2>4
<1> QED BY <1>7, <1>8

\* Without power nothing is left but flash and history.
LEMMA PowerLossStep ==
    ASSUME Typed, PowerLoss
    PROVE  /\ ~on' /\ queue' = <<>> /\ cache' = 0 /\ identity' = <<>>
           /\ job' \in [Task -> Job] /\ call' \in [Task -> Call]
           /\ \A t \in Task : job'[t].kind = "none" /\ job'[t].pc = 0 /\ call'[t].st = "none"
           /\ losses' \in 0 .. MaxLoss
           /\ lapse' = lapse \ {"name"}
           /\ UNCHANGED <<flash, idx, first>>
<1>1. NoJob \in Job /\ NoJob.kind = "none" /\ NoJob.pc = 0 /\ NoCall \in Call /\ NoCall.st = "none"
  BY Sizes DEF NoJob, Job, NoCall, Call
<1>2. losses' \in 0 .. MaxLoss
  BY Sizes DEF PowerLoss, Typed, StoreTyped
<1> QED BY <1>1, <1>2 DEF PowerLoss

\* Every step is one of these.
Steps ==
    \/ \E t \in Task : Send(t) \/ Return(t) \/ Serves(t)
    \/ \E t \in Task : Answered(t) /\ (Taken(t) \/ (call[t].st = "none" /\ queue' = queue))
    \/ Boot \/ PowerLoss
    \/ \E t \in Task \ {Main}, k \in {"ident", "unpin", "zone", "name"}, n \in Peer \cup {0}, v \in Stored :
         Begins(t, k, n, v)
    \/ UNCHANGED vars

LEMMA Cases ==
    ASSUME Typed, [Next]_vars PROVE Steps
<1>1. CASE \E t \in Task : Send(t) \/ TimeOut(t) \/ ReadDirect(t) \/ Return(t)
  BY <1>1, TimeOutStep, ReadDirectStep DEF Steps
<1>2. CASE Serve \/ ServeFails
  BY <1>2, ServeStep, ServeFailsStep DEF Steps
<1>3. CASE Boot \/ PowerLoss
  BY <1>3 DEF Steps
<1>4. ASSUME NEW n \in Peer, NEW k \in Val, Ident(n, k) PROVE Steps
  <2>1. Begins(Recv, "ident", n, k)
    BY <1>4, Commands
  <2> QED BY <2>1, Tasks, Sizes DEF Steps
<1>5. ASSUME NEW c \in Shell, NEW n \in Peer, Unpin(c, n) PROVE Steps
  <2>1. Begins(c, "unpin", n, 0)
    BY <1>5, Commands
  <2> QED BY <2>1, Tasks, Sizes DEF Steps
<1>6. ASSUME NEW c \in Shell, NEW v \in Val, SetZone(c, v) PROVE Steps
  <2>1. Begins(c, "zone", 0, v)
    BY <1>6, Commands
  <2> QED BY <2>1, Tasks, Sizes DEF Steps
<1>7. ASSUME NEW c \in Shell, NEW v \in Name \cup {0}, SetName(c, v) PROVE Steps
  <2>1. Begins(c, "name", 0, v)
    BY <1>7, Commands
  <2> QED BY <2>1, Tasks, Sizes DEF Steps
<1>8. CASE UNCHANGED vars
  BY <1>8 DEF Steps
<1> QED BY <1>1, <1>2, <1>3, <1>4, <1>5, <1>6, <1>7, <1>8 DEF Next

\* A step keeps the types.
LEMMA StoreStep ==
    ASSUME Inv, [Next]_vars PROVE StoreTyped'
<1>0. Typed /\ StoreTyped
  BY DEF Inv, Typed
<1>1. ASSUME NEW t \in Task, Send(t) \/ Answered(t) PROVE StoreTyped'
  BY <1>0, <1>1 DEF Send, Answered, StoreTyped
<1>2. ASSUME NEW t \in Task, Return(t) PROVE StoreTyped'
  <2>1. UNCHANGED <<flash, idx, losses>> /\ JobFits(t, job[t])
    BY <1>0, <1>2, ReturnStep
  <2>2. cache' \in Name \cup {0}
    BY <1>0, <1>2, <2>1 DEF Return, CacheAfter, JobFits, StoreTyped
  <2> QED BY <1>0, <2>1, <2>2 DEF StoreTyped
<1>3. ASSUME NEW t \in Task, Serves(t) PROVE StoreTyped'
  <2>2. flash'[<<"node">>] \in Name \cup {0}
    <3>1. job[t] \in Job /\ JobFits(t, job[t]) /\ job[t].kind # "none"
      BY <1>0, <1>3, ServeWrites
    <3>2. CASE job[t].kind = "name"
      <4>1. /\ Ask(job[t]).op \in {"set", "erase"} /\ Ask(job[t]).key = <<"node">>
            /\ Ask(job[t]).v = job[t].v
        BY <3>1, <3>2, AskTells
      <4> QED BY <1>3, <3>1, <3>2, <4>1 DEF Serves, JobFits
    <3>3. CASE job[t].kind # "name"
      BY <1>0, <1>3, <3>3, ServeWrites DEF StoreTyped
    <3> QED BY <3>2, <3>3
  <2> QED BY <1>0, <1>3, <2>2 DEF Serves, Taken, StoreTyped
<1>4. CASE Boot
  BY <1>0, <1>4, BootStep DEF StoreTyped
<1>5. CASE PowerLoss
  BY <1>0, <1>5, PowerLossStep DEF StoreTyped
<1>6. ASSUME NEW t, NEW k, NEW n, NEW v, Begins(t, k, n, v) PROVE StoreTyped'
  BY <1>0, <1>6 DEF Begins, StoreTyped
<1>7. CASE UNCHANGED vars
  BY <1>0, <1>7 DEF vars, StoreTyped
<1> QED BY <1>0, <1>1, <1>2, <1>3, <1>4, <1>5, <1>6, <1>7, Cases DEF Steps

LEMMA LapseStep ==
    ASSUME Inv, [Next]_vars PROVE LapseTyped'
<1>0. Typed /\ LapseTyped
  BY DEF Inv, Typed
<1>1. ASSUME NEW t \in Task, Send(t) \/ Return(t) \/ Serves(t) \/ Answered(t) PROVE LapseTyped'
  BY <1>0, <1>1 DEF Send, Return, Serves, Answered, LapseTyped
<1>2. CASE Boot
  BY <1>0, <1>2 DEF Boot, Lapse, LapseTyped
<1>3. CASE PowerLoss
  BY <1>0, <1>3 DEF PowerLoss, LapseTyped
<1>4. ASSUME NEW t \in Task, NEW k, NEW n, NEW v, Begins(t, k, n, v) PROVE LapseTyped'
  BY <1>0, <1>4 DEF Begins, Crossed, LapseTyped
<1>5. CASE UNCHANGED vars
  BY <1>0, <1>5 DEF vars, LapseTyped
<1> QED BY <1>0, <1>1, <1>2, <1>3, <1>4, <1>5, Cases DEF Steps

LEMMA JobsStep ==
    ASSUME Inv, [Next]_vars PROVE JobsTyped' /\ CallsTyped'
<1>0. Typed /\ JobsTyped /\ CallsTyped
  BY DEF Inv, Typed
<1>1. ASSUME NEW t \in Task, Send(t) PROVE JobsTyped' /\ CallsTyped'
  <2>1. UNCHANGED <<job, on>> /\ job[t].kind # "none"
    BY <1>1 DEF Send
  <2>2. [call[t] EXCEPT !.st = "queued"] \in Call
    BY <1>0 DEF Call, CallsTyped
  <2>3. call' \in [Task -> Call] /\ \A u \in Task : u # t => call'[u] = call[u]
    BY <1>0, <1>1, <2>2 DEF CallsTyped, Send
  <2> QED BY <1>0, <2>1, <2>3 DEF JobsTyped, CallsTyped
<1>8. ASSUME NEW t \in Task, Answered(t) PROVE JobsTyped' /\ CallsTyped'
  BY <1>0, <1>8 DEF Answered, JobsTyped, CallsTyped
<1>2. ASSUME NEW t \in Task, Return(t) PROVE JobsTyped' /\ CallsTyped'
  <2>1. /\ job'[t] = After(job[t], call[t]) /\ JobFits(t, job[t]) /\ job[t].kind # "none"
        /\ job' \in [Task -> Job] /\ call' \in [Task -> Call] /\ call'[t] = NoCall /\ on' = on
        /\ job[t] \in Job /\ call[t] \in Call
        /\ \A u \in Task : u # t => job'[u] = job[u] /\ call'[u] = call[u]
    BY <1>0, <1>2, ReturnStep
  <2>2. JobFits(t, job'[t])
    BY <2>1, AfterTells
  <2>3. on
    BY <1>0, <2>1 DEF JobsTyped
  <2>4. NoCall.st = "none"
    BY DEF NoCall
  <2> QED BY <1>0, <2>1, <2>2, <2>3, <2>4 DEF JobsTyped, CallsTyped
<1>3. ASSUME NEW t \in Task, Serves(t) PROVE JobsTyped' /\ CallsTyped'
  BY <1>0, <1>3 DEF Serves, Taken, JobsTyped, CallsTyped
<1>4. CASE Boot
  <2>1. /\ on' = TRUE /\ UNCHANGED call
        /\ job' \in [Task -> Job] /\ \A t \in Task : t # Main => job'[t] = job[t]
        /\ job' = job \/ (JobFits(Main, job'[Main]) /\ job'[Main].kind = "mint")
    BY <1>0, <1>4, BootStep
  <2> QED BY <1>0, <2>1, Tasks DEF JobsTyped, CallsTyped
<1>5. CASE PowerLoss
  <2>1. on' = FALSE
    BY <1>5 DEF PowerLoss
  <2> QED BY <1>0, <1>5, <2>1, PowerLossStep DEF JobsTyped, CallsTyped, JobFits
<1>6. ASSUME NEW t \in Task, NEW k \in {"ident", "unpin", "zone", "name"}, NEW n, NEW v,
             Begins(t, k, n, v)
      PROVE  JobsTyped' /\ CallsTyped'
  BY <1>0, <1>6 DEF Begins, JobsTyped, CallsTyped
<1>7. CASE UNCHANGED vars
  BY <1>0, <1>7 DEF vars, JobsTyped, CallsTyped
<1> QED BY <1>0, <1>1, <1>2, <1>3, <1>4, <1>5, <1>6, <1>7, <1>8, Cases DEF Steps

LEMMA QueueStep ==
    ASSUME Inv, [Next]_vars PROVE QueueTyped'
<1>0. Typed /\ QueueTyped
  BY DEF Inv, Typed
<1>1. ASSUME NEW t \in Task, Send(t) PROVE QueueTyped'
  <2>1. /\ queue \in Seq(Task) /\ queue' = Append(queue, t) /\ Len(queue) < QueueMax
        /\ call[t].st = "none" /\ call \in [Task -> Call]
        /\ call' = [call EXCEPT ![t].st = "queued"]
    BY <1>0, <1>1 DEF Send, QueueTyped, Typed, CallsTyped
  <2>2. call'[t].st = "queued" /\ \A u \in Task : u # t => call'[u] = call[u]
    BY <2>1 DEF Call
  <2>3. /\ queue' \in Seq(Task) /\ Len(queue) \in Nat /\ Len(queue') = Len(queue) + 1
        /\ \A i \in 1 .. Len(queue) : queue'[i] = queue[i] /\ queue[i] \in Task
        /\ queue'[Len(queue) + 1] = t
        /\ \A i \in 1 .. Len(queue) + 1 : i = Len(queue) + 1 \/ i \in 1 .. Len(queue)
        /\ \A i \in 1 .. Len(queue) : i \in 1 .. Len(queue) + 1
        /\ Len(queue) + 1 \in 1 .. Len(queue) + 1
    BY <2>1
  <2>4. Len(queue') <= QueueMax
    BY <2>1, <2>3, Sizes
  <2>5. \A i \in 1 .. Len(queue) : queue[i] # t
    BY <1>0, <2>1 DEF QueueTyped
  <2>6. \A i \in 1 .. Len(queue') : call'[queue'[i]].st = "queued"
    <3> SUFFICES ASSUME NEW i \in 1 .. Len(queue) + 1 PROVE call'[queue'[i]].st = "queued"
      BY <2>3
    <3>1. CASE i = Len(queue) + 1
      BY <2>2, <2>3, <3>1
    <3>2. CASE i \in 1 .. Len(queue)
      BY <1>0, <2>2, <2>3, <2>5, <3>2 DEF QueueTyped
    <3> QED BY <2>3, <3>1, <3>2
  <2>7. \A i, j \in 1 .. Len(queue') : queue'[i] = queue'[j] => i = j
    <3> SUFFICES ASSUME NEW i \in 1 .. Len(queue) + 1, NEW j \in 1 .. Len(queue) + 1,
                        queue'[i] = queue'[j]
                 PROVE  i = j
      BY <2>3
    <3>1. CASE i \in 1 .. Len(queue) /\ j \in 1 .. Len(queue)
      BY <1>0, <2>3, <3>1 DEF QueueTyped
    <3>2. CASE i = Len(queue) + 1 \/ j = Len(queue) + 1
      BY <2>3, <2>5, <3>2
    <3> QED BY <2>3, <3>1, <3>2
  <2>8. \A u \in Task : call'[u].st = "queued" => \E i \in 1 .. Len(queue') : queue'[i] = u
    <3> SUFFICES ASSUME NEW u \in Task, call'[u].st = "queued"
                 PROVE  \E i \in 1 .. Len(queue) + 1 : queue'[i] = u
      BY <2>3
    <3>1. CASE u = t
      BY <2>3, <3>1
    <3>2. CASE u # t
      <4>1. PICK i \in 1 .. Len(queue) : queue[i] = u
        BY <1>0, <2>2, <3>2 DEF QueueTyped
      <4> QED BY <2>3, <4>1
    <3> QED BY <3>1, <3>2
  <2> QED BY <2>3, <2>4, <2>6, <2>7, <2>8 DEF QueueTyped
<1>2. ASSUME NEW t \in Task, Return(t) \/ (Answered(t) /\ call[t].st = "none" /\ queue' = queue)
      PROVE  QueueTyped'
  <2>1. /\ UNCHANGED queue /\ call[t].st # "queued" /\ call \in [Task -> Call]
        /\ call'[t].st # "queued" /\ \A u \in Task : u # t => call'[u] = call[u]
    <3>1. call \in [Task -> Call]
      BY <1>0 DEF Typed, CallsTyped
    <3>2. CASE Answered(t) /\ call[t].st = "none" /\ queue' = queue
      BY <3>1, <3>2 DEF Answered
    <3>3. CASE Return(t)
      <4>1. NoCall.st = "none"
        BY DEF NoCall
      <4> QED BY <3>1, <3>3, <4>1 DEF Return
    <3> QED BY <1>2, <3>2, <3>3
  <2>2. \A i \in 1 .. Len(queue) : queue[i] \in Task /\ queue[i] # t
    BY <1>0, <2>1, ElementOfSeq DEF QueueTyped
  <2> QED BY <1>0, <2>1, <2>2 DEF QueueTyped
<1>3. ASSUME NEW t \in Task, Taken(t) PROVE QueueTyped'
  <2>2. /\ queue \in Seq(Task) /\ queue # <<>> /\ queue' = Tail(queue) /\ t = queue[1]
        /\ call'[t].st = "done" /\ \A u \in Task : u # t => call'[u] = call[u]
    BY <1>0, <1>3 DEF Taken, QueueTyped
  <2>3. /\ queue' \in Seq(Task) /\ Len(queue) \in Nat /\ Len(queue') = Len(queue) - 1
        /\ 1 \in 1 .. Len(queue) /\ Len(queue') \in Nat
        /\ \A i \in 1 .. Len(queue') : /\ queue'[i] = queue[i + 1] /\ i + 1 \in 1 .. Len(queue)
                                       /\ i + 1 # 1
        /\ \A i \in 1 .. Len(queue) : i # 1 => i - 1 \in 1 .. Len(queue') /\ (i - 1) + 1 = i
    BY <2>2
  <2>4. \A i \in 1 .. Len(queue) : queue[i] \in Task
    BY <2>2, ElementOfSeq
  <2>5. Len(queue') <= QueueMax
    BY <1>0, <2>3, Sizes DEF QueueTyped
  <2>6. \A i \in 1 .. Len(queue') : call'[queue'[i]].st = "queued"
    BY <1>0, <2>2, <2>3, <2>4 DEF QueueTyped
  <2>7. \A i, j \in 1 .. Len(queue') : queue'[i] = queue'[j] => i = j
    <3> SUFFICES ASSUME NEW i \in 1 .. Len(queue'), NEW j \in 1 .. Len(queue'),
                        queue'[i] = queue'[j]
                 PROVE  i = j
      OBVIOUS
    <3>1. i + 1 = j + 1
      BY <1>0, <2>3 DEF QueueTyped
    <3> QED BY <3>1
  <2>8. \A u \in Task : call'[u].st = "queued" => \E i \in 1 .. Len(queue') : queue'[i] = u
    <3> SUFFICES ASSUME NEW u \in Task, call'[u].st = "queued"
                 PROVE  \E i \in 1 .. Len(queue') : queue'[i] = u
      OBVIOUS
    <3>1. u # t
      BY <2>2
    <3>2. PICK i \in 1 .. Len(queue) : queue[i] = u
      BY <1>0, <2>2, <3>1 DEF QueueTyped
    <3>3. i # 1
      BY <2>2, <3>1, <3>2
    <3>4. i - 1 \in 1 .. Len(queue') /\ queue'[i - 1] = u
      BY <2>3, <3>2, <3>3
    <3> QED BY <3>4
  <2> QED BY <2>3, <2>5, <2>6, <2>7, <2>8 DEF QueueTyped
<1>4. CASE Boot
  BY <1>0, <1>4, BootStep DEF QueueTyped
<1>5. CASE PowerLoss
  <2>1. queue' = <<>> /\ \A t \in Task : call'[t].st = "none"
    BY <1>0, <1>5, PowerLossStep
  <2>2. <<>> \in Seq(Task) /\ Len(<<>>) = 0 /\ 1 .. 0 = {}
    OBVIOUS
  <2> QED BY <2>1, <2>2, Sizes DEF QueueTyped
<1>6. ASSUME NEW t, NEW k, NEW n, NEW v, Begins(t, k, n, v) PROVE QueueTyped'
  BY <1>0, <1>6 DEF Begins, QueueTyped
<1>7. CASE UNCHANGED vars
  BY <1>0, <1>7 DEF vars, QueueTyped
<1> QED BY <1>0, <1>1, <1>2, <1>3, <1>4, <1>5, <1>6, <1>7, Cases DEF Steps, Serves

---------------------------------------------------------------------------
(* What the store holds between two calls. *)

\* A task that sends its request has no answer, and changes nothing else.
LEMMA SendStep ==
    ASSUME Typed, NEW t \in Task, Send(t)
    PROVE  /\ ~Served(t) /\ call'[t].st # "done" /\ \A u \in Task : u # t => call'[u] = call[u]
           /\ UNCHANGED <<flash, job, identity, first>>
BY DEF Typed, CallsTyped, Send, Served, Call

\* Task t has no news of a call, before or after its step.
Mute(t) ==
    /\ ~Learning(t) /\ ~Learning(t)' /\ job'[t].kind \in {"none", job[t].kind}
    /\ \A u \in Task : u # t => job'[u] = job[u] /\ call'[u] = call[u]

\* The name.
LEMMA NameStep ==
    ASSUME Inv, [Next]_vars PROVE NameKnown'
<1>0. Typed /\ NameKnown /\ job \in [Task -> Job]
  BY DEF Inv, Typed, JobsTyped
<1> SUFFICES ASSUME "name" \notin lapse' PROVE NameKnown'
  BY DEF NameKnown
<1>1. ASSUME NEW t \in Task, Mute(t), UNCHANGED <<flash[<<"node">>], cache, on>>, lapse \subseteq lapse',
             \A c \in Shell : Learning(c) => job'[c].v = job[c].v
      PROVE  NameKnown'
  <2>1. /\ Alone("name")
        /\ on => /\ \A c \in Shell : Learning(c) => flash[<<"node">>] = job[c].v
                 /\ (\A c \in Shell : ~Learning(c)) => cache = flash[<<"node">>]
    BY <1>0, <1>1 DEF NameKnown
  <2>2. \A c \in Shell : job'[c].kind = "name" => job[c].kind = "name"
    BY <1>1, Tasks DEF Mute
  <2>3. \A c \in Shell : Learning(c)' <=> Learning(c)
    BY <1>1, Tasks DEF Mute, Learning, Served
  <2>4. Alone("name")'
    BY <2>1, <2>2 DEF Alone
  <2> QED BY <1>1, <2>1, <2>3, <2>4 DEF NameKnown
<1>2. ASSUME NEW t \in Task, Send(t) PROVE NameKnown'
  <2>1. Mute(t)
    BY <1>0, <1>2, SendStep DEF Mute, Learning, Served
  <2> QED BY <1>1, <1>2, <2>1 DEF Send
<1>3. ASSUME NEW t \in Task, Answered(t) PROVE NameKnown'
  <2>1. Mute(t)
    BY <1>3 DEF Answered, Mute, Learning, Served
  <2>2. lapse \subseteq lapse'
    BY <1>3 DEF Answered
  <2> QED BY <1>1, <1>3, <2>1, <2>2 DEF Answered
<1>4. ASSUME NEW t \in Task, Return(t) PROVE NameKnown'
  <2>1. /\ Served(t) /\ JobFits(t, job[t]) /\ job[t] \in Job /\ call[t] \in Call
        /\ job[t].kind # "none" /\ job'[t] = After(job[t], call[t]) /\ call'[t] = NoCall
        /\ \A u \in Task : u # t => job'[u] = job[u] /\ call'[u] = call[u]
        /\ UNCHANGED <<flash, on, lapse>>
    BY <1>0, <1>4, ReturnStep
  <2>2. cache' = CacheAfter(job[t], call[t])
    BY <1>4 DEF Return
  <2>3. After(job[t], call[t]).kind \in {"none", job[t].kind} /\ ~Served(t)'
    BY <2>1, AfterTells DEF Served, NoCall
  <2>4. CASE ~Learning(t)
    <3>1. cache' = cache
      BY <2>1, <2>2, <2>4 DEF CacheAfter, Learning
    <3>2. Mute(t)
      BY <2>1, <2>3, <2>4 DEF Mute, Learning, Served
    <3>3. \A c \in Shell : Learning(c) => job'[c].v = job[c].v
      BY <2>1, <2>4, Tasks
    <3> QED BY <1>1, <2>1, <3>1, <3>2, <3>3
  <2>5. CASE Learning(t)
    <3>1. job[t].kind = "name" /\ call[t].ok /\ t \in Shell
      BY <2>1, <2>5 DEF Learning, JobFits
    <3>2. Alone("name") /\ (on => flash[<<"node">>] = job[t].v)
      BY <1>0, <2>1, <2>5, <3>1 DEF NameKnown
    <3>3. \A c \in Shell : job'[c].kind = "name" => FALSE
      <4> SUFFICES ASSUME NEW c \in Shell, job'[c].kind = "name" PROVE FALSE
        OBVIOUS
      <4>1. CASE c = t
        <5>1. After(job[t], call[t]).kind # "name"
          BY <2>1, <3>1, AfterTells
        <5> QED BY <2>1, <4>1, <5>1
      <4>2. CASE c # t
        BY <2>1, <3>1, <3>2, <4>2, Tasks DEF Alone
      <4> QED BY <4>1, <4>2
    <3>4. cache' = job[t].v
      BY <2>2, <3>1 DEF CacheAfter
    <3> QED BY <2>1, <3>2, <3>3, <3>4 DEF NameKnown, Alone, Learning
  <2> QED BY <2>4, <2>5
<1>5. ASSUME NEW t \in Task, Serves(t) PROVE NameKnown'
  <2>1. /\ UNCHANGED <<job, cache, on, lapse>> /\ \A u \in Task : u # t => call'[u] = call[u]
    BY <1>5 DEF Serves, Taken
  <2>2. job[t] \in Job /\ JobFits(t, job[t]) /\ ~Served(t) /\ job[t].kind # "none"
    BY <1>0, <1>5, ServeWrites
  <2>3. CASE job[t].kind # "name"
    <3>1. Mute(t) /\ UNCHANGED flash[<<"node">>]
      BY <1>0, <1>5, <2>1, <2>3, ServeWrites DEF Mute, Learning
    <3> QED BY <1>1, <2>1, <3>1
  <2>4. CASE job[t].kind = "name"
    <3>1. /\ Ask(job[t]).op \in {"set", "erase"} /\ Ask(job[t]).key = <<"node">>
          /\ Ask(job[t]).v = job[t].v /\ (Ask(job[t]).op = "set" <=> job[t].v # 0)
      BY <2>2, <2>4, AskTells
    <3>2. flash'[<<"node">>] = job[t].v
      BY <1>5, <3>1 DEF Serves
    <3>3. ~call'[t].ok => flash[<<"node">>] = 0 /\ job[t].v = 0
      BY <1>5, <3>1 DEF Serves
    <3>4. t \in Shell /\ Alone("name")
      BY <1>0, <2>1, <2>2, <2>4 DEF JobFits, NameKnown
    <3>5. \A c \in Shell : c # t => job[c].kind # "name"
      BY <2>4, <3>4 DEF Alone
    <3>6. on => ((\A c \in Shell : ~Learning(c)) => cache = flash[<<"node">>])
      BY <1>0, <2>1 DEF NameKnown
    <3>7. \A c \in Shell : ~Learning(c)
      BY <2>2, <3>5 DEF Learning
    <3>8. \A c \in Shell : Learning(c)' => c = t
      BY <2>1, <3>5 DEF Learning
    <3>9. Alone("name")'
      BY <2>1, <3>4 DEF Alone
    <3>10. \A c \in Shell : Learning(c)' => flash'[<<"node">>] = job'[c].v
      BY <2>1, <3>2, <3>8
    <3>11. CASE call'[t].ok
      <4>1. Learning(t)'
        <5>1. call'[t].st = "done" /\ job'[t] = job[t]
          BY <1>5, <2>1 DEF Serves, Taken
        <5> QED BY <2>4, <3>11, <5>1 DEF Learning, Served
      <4> QED BY <2>1, <3>4, <3>9, <3>10, <4>1 DEF NameKnown
    <3>12. CASE ~call'[t].ok
      <4>1. on' => cache' = flash'[<<"node">>]
        BY <2>1, <3>2, <3>3, <3>6, <3>7, <3>12
      <4> QED BY <2>1, <3>9, <3>10, <4>1 DEF NameKnown
    <3> QED BY <3>11, <3>12
  <2> QED BY <2>3, <2>4
<1>6. CASE Boot
  <2>1. /\ cache' = flash[<<"node">>] /\ UNCHANGED flash
        /\ \A c \in Shell : job'[c].kind = "none"
    BY <1>0, <1>6, BootStep, Tasks
  <2> QED BY <2>1 DEF NameKnown, Alone, Learning
<1>7. CASE PowerLoss
  <2>1. ~on' /\ \A c \in Shell : job'[c].kind = "none"
    BY <1>0, <1>7, PowerLossStep, Tasks
  <2> QED BY <2>1 DEF NameKnown, Alone
<1>8. ASSUME NEW t \in Task, NEW k, NEW n, NEW v, Begins(t, k, n, v) PROVE NameKnown'
  <2>1. /\ UNCHANGED <<flash, call, cache, on>> /\ call[t].st = "none" /\ job[t].kind = "none"
        /\ job'[t].kind = k /\ \A u \in Task : u # t => job'[u] = job[u]
        /\ lapse' = lapse \cup Crossed(t, k)
    BY <1>8 DEF Begins
  <2>2. /\ Alone("name")
        /\ on => /\ \A c \in Shell : Learning(c) => flash[<<"node">>] = job[c].v
                 /\ (\A c \in Shell : ~Learning(c)) => cache = flash[<<"node">>]
    BY <1>0, <2>1 DEF NameKnown
  <2>3. k = "name" => \A u \in Shell \ {t} : job[u].kind # "name"
    BY <2>1 DEF Crossed
  <2>4. Alone("name")'
    <3> SUFFICES ASSUME NEW c \in Shell, NEW d \in Shell, job'[c].kind = "name", job'[d].kind = "name",
                        c # d
                 PROVE  FALSE
      BY DEF Alone
    <3>1. CASE c # t /\ d # t
      BY <2>1, <2>2, <3>1, Tasks DEF Alone
    <3>2. CASE c = t
      BY <2>1, <2>3, <3>2, Tasks
    <3>3. CASE d = t
      BY <2>1, <2>3, <3>3, Tasks
    <3> QED BY <3>1, <3>2, <3>3
  <2>5. ~Learning(t) /\ ~Learning(t)'
    BY <2>1 DEF Learning, Served
  <2>6. \A c \in Shell : (Learning(c)' <=> Learning(c)) /\ (Learning(c) => job'[c] = job[c])
    <3> SUFFICES ASSUME NEW c \in Shell, c # t
                 PROVE  (Learning(c)' <=> Learning(c)) /\ job'[c] = job[c]
      BY <2>5
    <3>1. job'[c] = job[c] /\ call'[c] = call[c]
      BY <2>1, Tasks
    <3> QED BY <3>1 DEF Learning, Served
  <2> QED BY <2>1, <2>2, <2>4, <2>6 DEF NameKnown
<1>9. CASE UNCHANGED vars
  <2>1. UNCHANGED <<flash, job, call, cache, on, lapse>>
    BY <1>9 DEF vars, calls
  <2> QED BY <1>0, <2>1 DEF NameKnown, Alone, Learning, Served
<1> QED BY <1>0, <1>2, <1>3, <1>4, <1>5, <1>6, <1>7, <1>8, <1>9, Cases DEF Steps

\* Nothing takes back that a call failed.
LEMMA StaysInTime ==
    ASSUME Inv, [Next]_vars, "call" \notin lapse'
    PROVE  /\ "call" \notin lapse /\ InTime
           /\ \A t \in Task : Answered(t) => /\ t = Recv /\ job[t].kind = "ident" /\ job[t].pc = 3
                                           /\ lapse' = lapse /\ call'[t].ok
<1>1. Typed
  BY DEF Inv
<1>2. "call" \notin lapse
  <2>1. ASSUME NEW t \in Task, Send(t) \/ Return(t) \/ Serves(t) \/ Answered(t) PROVE lapse \subseteq lapse'
    BY <2>1 DEF Send, Return, Serves, Answered
  <2>2. CASE Boot
    BY <1>1, <2>2, BootStep
  <2>3. CASE PowerLoss
    BY <1>1, <2>3, PowerLossStep
  <2>4. ASSUME NEW t \in Task, NEW k, NEW n, NEW v, Begins(t, k, n, v) PROVE lapse \subseteq lapse'
    BY <2>4 DEF Begins
  <2>5. CASE UNCHANGED vars
    BY <2>5 DEF vars
  <2> QED BY <1>1, <2>1, <2>2, <2>3, <2>4, <2>5, Cases DEF Steps
<1> QED BY <1>2 DEF Inv, Answered

\* Every request of an identity or a zone that is served is done.
LEMMA ServedStep ==
    ASSUME Inv, [Next]_vars, "call" \notin lapse' PROVE WellServed'
<1>0. Typed /\ WellServed /\ Steps
  BY StaysInTime, Cases DEF Inv, InTime
<1>1. ASSUME NEW t \in Task, Send(t) PROVE WellServed'
  BY <1>0, <1>1, SendStep DEF WellServed, Served
<1>2. ASSUME NEW t \in Task, Return(t) PROVE WellServed'
  <2>1. NoCall.st = "none"
    BY DEF NoCall
  <2> QED BY <1>0, <1>2, <2>1, ReturnStep DEF WellServed, Served
<1>3. ASSUME NEW t \in Task, Serves(t) PROVE WellServed'
  <2>1. job[t] \in Job /\ JobFits(t, job[t]) /\ job[t].kind # "none"
    BY <1>0, <1>3, ServeWrites
  <2>2. job[t].kind = "mint" => call'[t].ok
    BY <1>3, <2>1, AskTells DEF Serves
  <2>3. job[t].kind = "zone" /\ job[t].pc = 2 => call'[t].ok
    BY <1>3, <2>1, AskTells DEF Serves
  <2> QED BY <1>0, <1>3, <2>2, <2>3 DEF Serves, Taken, WellServed, Served
<1>8. ASSUME NEW t \in Task, Answered(t) PROVE WellServed'
  <2>1. call'[t].ok
    BY <1>8, StaysInTime
  <2> QED BY <1>0, <1>8, <2>1 DEF Answered, WellServed, Served
<1>4. CASE Boot
  BY <1>0, <1>4, BootStep DEF WellServed, Served
<1>5. CASE PowerLoss
  BY <1>0, <1>5, PowerLossStep DEF WellServed, Served
<1>6. ASSUME NEW t \in Task, NEW k, NEW n, NEW v, Begins(t, k, n, v) PROVE WellServed'
  BY <1>0, <1>6 DEF Begins, WellServed, Served
<1>7. CASE UNCHANGED vars
  BY <1>0, <1>7 DEF vars, WellServed, Served
<1> QED BY <1>0, <1>1, <1>2, <1>3, <1>4, <1>5, <1>6, <1>7, <1>8 DEF Steps

\* The identity.
LEMMA IdStep ==
    ASSUME Inv, [Next]_vars, "call" \notin lapse' PROVE IdKept'
<1>0. Typed /\ IdKept /\ Steps /\ Main \in Task /\ JobFits(Main, job[Main])
  BY StaysInTime, Cases, Tasks DEF Inv, InTime, Typed, JobsTyped
<1>1. ASSUME NEW t \in Task, Send(t) PROVE IdKept'
  <2>1. UNCHANGED <<flash, job, identity, first>> /\ (Served(Main)' => Served(Main))
    BY <1>0, <1>1, SendStep DEF Served
  <2>2. (\A i \in 1 .. 4 : IdFlash(i)' = IdFlash(i)) /\ IdFlash(4)' = IdFlash(4)
    BY <2>1 DEF IdFlash
  <2>3. CASE Served(Main)' = Served(Main)
    BY <1>0, <2>1, <2>2, <2>3 DEF IdKept
  <2>4. CASE Served(Main) /\ ~Served(Main)'
    <3>1. FALSE
      BY <1>0, <1>1, <2>4, SendStep DEF Served
    <3> QED BY <3>1
  <2> QED BY <2>1, <2>3, <2>4 DEF Served
<1>2. ASSUME NEW t \in Task, Return(t) PROVE IdKept'
  <2>1. /\ Served(t) /\ JobFits(t, job[t]) /\ job[t] \in Job /\ call[t] \in Call
        /\ job[t].kind # "none" /\ job'[t] = After(job[t], call[t]) /\ call'[t] = NoCall
        /\ \A u \in Task : u # t => job'[u] = job[u] /\ call'[u] = call[u]
        /\ UNCHANGED flash
    BY <1>0, <1>2, ReturnStep
  <2>2. /\ first' = IF first = <<>> THEN identity' ELSE first
        /\ identity' = IF job[t].kind = "mint" /\ job'[t] = NoJob
                       THEN [i \in 1 .. 4 |-> job[t].v] ELSE identity
    BY <1>2 DEF Return
  <2>3. CASE job[t].kind # "mint"
    <3>1. identity' = identity /\ first' = first
      BY <1>0, <2>2, <2>3 DEF IdKept
    <3>2. CASE t # Main
      BY <1>0, <2>1, <3>1, <3>2 DEF IdKept, IdFlash, Served
    <3>3. CASE t = Main
      <4>1. job'[Main].kind # "mint"
        BY <2>1, <2>3, <3>3, AfterTells
      <4> QED BY <1>0, <2>1, <3>1, <4>1 DEF IdKept, IdFlash
    <3> QED BY <3>2, <3>3
  <2>4. CASE job[t].kind = "mint"
    <3>1. /\ t = Main /\ first = <<>> /\ identity = <<>> /\ job[t].pc \in 1 .. 4
          /\ job[t].v \in 1 .. MaxLoss + 1
      BY <1>0, <2>1, <2>4 DEF IdKept, JobFits
    <3>2. \A i \in 1 .. 4 : i < job[t].pc \/ i = job[t].pc => IdFlash(i) = job[t].v
      BY <1>0, <2>1, <2>4, <3>1 DEF IdKept
    <3>3. CASE job[t].pc # 4
      <4>1. /\ job'[t].kind = "mint" /\ job'[t].pc = job[t].pc + 1 /\ job'[t].v = job[t].v
            /\ job'[t] # NoJob
        BY <2>1, <2>4, <3>3, AfterTells
      <4>2. identity' = <<>> /\ first' = <<>>
        BY <2>2, <3>1, <4>1
      <4>3. ~Served(Main)'
        BY <2>1, <3>1 DEF Served, NoCall
      <4>4. \A i \in 1 .. 4 : i < job[t].pc + 1 => i < job[t].pc \/ i = job[t].pc
        BY <3>1
      <4>5. IdFlash(4) = 0
        BY <1>0, <2>4, <3>1, <3>3 DEF IdKept
      <4> QED BY <1>0, <2>1, <3>1, <3>2, <4>1, <4>2, <4>3, <4>4, <4>5 DEF IdKept, IdFlash
    <3>4. CASE job[t].pc = 4
      <4>1. job'[t].kind = "none" /\ job'[t] = NoJob
        BY <2>1, <2>4, <3>4, AfterTells
      <4>2. identity' = [i \in 1 .. 4 |-> job[t].v] /\ first' = identity'
        BY <2>2, <2>4, <3>1, <4>1
      <4>3. \A i \in 1 .. 4 : IdFlash(i) = job[t].v
        BY <3>2, <3>4
      <4>4. job[t].v # 0 /\ 4 \in 1 .. 4
        BY <3>1
      <4>5. UNCHANGED IdFlash(4) /\ \A i \in 1 .. 4 : UNCHANGED IdFlash(i)
        BY <2>1 DEF IdFlash
      <4> DEFINE v == job[t].v
      <4>6. \A i \in 1 .. 4 : IdFlash(i)' = v
        BY <4>3, <4>5
      <4>7. identity' = [i \in 1 .. 4 |-> IdFlash(i)']
        BY <4>2, <4>6
      <4>8. IdFlash(4)' # 0
        BY <4>4, <4>6
      <4> QED BY <3>1, <4>1, <4>2, <4>4, <4>6, <4>7, <4>8 DEF IdKept
    <3> QED BY <3>3, <3>4
  <2> QED BY <2>3, <2>4
<1>8. ASSUME NEW t \in Task, Answered(t) PROVE IdKept'
  <2>1. t # Main /\ UNCHANGED <<flash, job, identity, first>>
    BY <1>8, StaysInTime, Tasks DEF Answered
  <2>2. call'[Main] = call[Main]
    BY <1>0, <1>8, <2>1 DEF Answered
  <2> QED BY <1>0, <2>1, <2>2 DEF IdKept, IdFlash, Served
<1>3. ASSUME NEW t \in Task, Serves(t) PROVE IdKept'
  <2>2. UNCHANGED <<job, identity, first>>
    BY <1>3 DEF Serves, Taken
  <2>3. CASE t # Main
    <3>1. \A i \in 1 .. 4 : IdFlash(i)' = IdFlash(i)
      BY <1>0, <1>3, <2>3, ServeWrites DEF IdFlash
    <3>2. IdFlash(4)' = IdFlash(4) /\ call'[Main] = call[Main]
      BY <1>0, <1>3, <2>3, <3>1 DEF Serves, Taken
    <3> QED BY <1>0, <2>2, <3>1, <3>2 DEF IdKept, Served
  <2>4. CASE t = Main
    <3> DEFINE p == job[Main].pc
    <3>1. job[t] \in Job /\ JobFits(t, job[t]) /\ job[t].kind # "none"
      BY <1>0, <1>3, ServeWrites
    <3>2. job[Main].kind = "mint" /\ p \in 1 .. 4
      BY <2>4, <3>1, Tasks DEF JobFits
    <3>3. /\ Ask(job[t]).op = "set" /\ Ask(job[t]).key = <<IdKey[p]>>
          /\ Ask(job[t]).v = job[Main].v
      BY <2>4, <3>1, <3>2, AskTells
    <3>4. IdFlash(p)' = job[Main].v
      <4>1. flash'[<<IdKey[p]>>] = job[Main].v
        BY <1>3, <3>3 DEF Serves
      <4> QED BY <2>2, <4>1 DEF IdFlash
    <3>5. \A i \in 1 .. 4 : i # p => IdFlash(i)' = IdFlash(i)
      <4>1. \A k \in Key : k # <<IdKey[p]>> => flash'[k] = flash[k]
        BY <1>3, <3>3 DEF Serves
      <4>2. \A i \in 1 .. 4 : i # p => <<IdKey[i]>> \in Key /\ <<IdKey[i]>> # <<IdKey[p]>>
        BY <3>2, Keys
      <4> QED BY <4>1, <4>2 DEF IdFlash
    <3>6. Served(Main)' /\ ~Served(Main)
      BY <1>3, <2>4 DEF Serves, Taken, Served
    <3>7. first = <<>> /\ identity = <<>> /\ IdFlash(4) = 0 /\ 4 \in 1 .. 4
      BY <1>0, <3>2, <3>6 DEF IdKept
    <3>8. \A i \in 1 .. 4 : i < p \/ i = p => IdFlash(i)' = job[Main].v
      <4> SUFFICES ASSUME NEW i \in 1 .. 4, i < p \/ i = p PROVE IdFlash(i)' = job[Main].v
        OBVIOUS
      <4>1. CASE i = p
        BY <2>2, <3>4, <4>1 DEF IdFlash
      <4>2. CASE i # p
        <5>1. IdFlash(i) = job[Main].v
          BY <1>0, <3>2, <4>2 DEF IdKept
        <5> QED BY <3>5, <4>2, <5>1
      <4> QED BY <4>1, <4>2
    <3>9. p < 4 => IdFlash(4)' = 0
      BY <3>2, <3>5, <3>7
    <3>10. IdFlash(4)' # 0 => \A i \in 1 .. 4 : IdFlash(i)' = IdFlash(4)'
      <4>1. SUFFICES ASSUME IdFlash(4)' # 0 PROVE \A i \in 1 .. 4 : IdFlash(i)' = IdFlash(4)'
        OBVIOUS
      <4>2. p = 4
        BY <3>2, <3>9, <4>1
      <4>3. \A i \in 1 .. 4 : i < 4 \/ i = 4
        OBVIOUS
      <4> QED BY <3>7, <3>8, <4>2, <4>3
    <3> QED BY <2>2, <3>2, <3>6, <3>7, <3>8, <3>9, <3>10 DEF IdKept
  <2> QED BY <2>3, <2>4
<1>4. CASE Boot
  <2>1. /\ UNCHANGED <<flash, call>> /\ call[Main].st = "none"
        /\ job[Main].kind = "none" /\ first' = IF first = <<>> THEN identity' ELSE first
    BY <1>0, <1>4, BootStep DEF Boot
  <2>2. (\A i \in 1 .. 4 : IdFlash(i)' = IdFlash(i)) /\ IdFlash(4)' = IdFlash(4)
    BY <2>1 DEF IdFlash
  <2>3. CASE job' = job /\ identity' = [i \in 1 .. 4 |-> IdFlash(i)] /\ HasIdentity
    <3>1. IdFlash(4) # 0
      BY <2>3 DEF HasIdentity, IdFlash
    <3>2. first' = identity'
      BY <1>0, <2>1, <2>3 DEF IdKept
    <3> QED BY <1>0, <2>1, <2>2, <2>3, <3>1, <3>2 DEF IdKept
  <2>4. CASE ~HasIdentity /\ job'[Main].kind = "mint" /\ job'[Main].pc = 1 /\ identity' = identity
    <3>1. IdFlash(4) = 0
      <4>1. SUFFICES ASSUME IdFlash(4) # 0 PROVE FALSE
        OBVIOUS
      <4>2. \A i \in 1 .. 4 : IdFlash(i) # 0
        BY <1>0, <4>1 DEF IdKept
      <4> QED BY <2>4, <4>2 DEF HasIdentity, IdFlash
    <3>2. first = <<>> /\ identity = <<>> /\ first' = <<>>
      BY <1>0, <2>1, <2>4, <3>1 DEF IdKept
    <3>3. ~Served(Main)' /\ \A i \in 1 .. 4 : ~(i < 1)
      BY <1>0, <2>1 DEF Served
    <3> QED BY <2>2, <2>4, <3>1, <3>2, <3>3 DEF IdKept
  <2> QED BY <1>0, <1>4, <2>3, <2>4, BootStep
<1>5. CASE PowerLoss
  <2>1. /\ UNCHANGED <<flash, first>> /\ identity' = <<>> /\ job'[Main].kind = "none"
    BY <1>0, <1>5, PowerLossStep
  <2> QED BY <1>0, <2>1 DEF IdKept, IdFlash
<1>6. ASSUME NEW t \in Task, NEW k, NEW n, NEW v, Begins(t, k, n, v), t # Main PROVE IdKept'
  <2>1. job'[Main] = job[Main] /\ UNCHANGED <<flash, first, identity, call>>
    BY <1>0, <1>6 DEF Begins
  <2> QED BY <1>0, <2>1 DEF IdKept, IdFlash, Served
<1>7. CASE UNCHANGED vars
  BY <1>0, <1>7 DEF vars, IdKept, IdFlash, Served
<1> QED BY <1>0, <1>1, <1>2, <1>3, <1>4, <1>5, <1>6, <1>7, <1>8 DEF Steps

\* A step is of no matter to what shell c does to the zone.
Apart(c) == job'[c].kind # "zone" \/ (job'[c] = job[c] /\ (Served(c)' => Served(c)))

\* The zone and its label.
LEMMA ZoneStep ==
    ASSUME Inv, [Next]_vars, "call" \notin lapse' PROVE ZoneKept'
<1>0. Typed /\ ZoneKept /\ Steps /\ job \in [Task -> Job]
  BY StaysInTime, Cases DEF Inv, InTime, Typed, JobsTyped
<1> SUFFICES ASSUME "zone" \notin lapse' PROVE ZoneKept'
  BY DEF ZoneKept
<1>1. ASSUME "zone" \notin lapse, UNCHANGED <<flash[<<"tz">>], flash[<<"tz_lbl">>]>>,
             \A c \in Shell : Apart(c)
      PROVE  ZoneKept'
  <2>1. /\ flash[<<"tz_lbl">>] \in {0, flash[<<"tz">>]}
        /\ Alone("zone") /\ \A c \in Shell : ZoneFits(c)
    BY <1>0, <1>1 DEF ZoneKept
  <2>2. Alone("zone")'
    BY <1>1, <2>1 DEF Alone, Apart
  <2>3. ASSUME NEW c \in Shell PROVE ZoneFits(c)'
    BY <1>1, <2>1 DEF ZoneFits, Apart
  <2> QED BY <1>1, <2>1, <2>2, <2>3 DEF ZoneKept
<1>2. ASSUME NEW t \in Task, Send(t) PROVE ZoneKept'
  <2>1. /\ UNCHANGED <<flash, job>> /\ call'[t].st # "done" /\ \A u \in Task : u # t => call'[u] = call[u]
        /\ lapse' = lapse
    BY <1>0, <1>2, SendStep DEF Send
  <2>2. \A c \in Shell : Served(c)' => Served(c)
    BY <2>1, Tasks DEF Served
  <2> QED BY <1>1, <2>1, <2>2 DEF Apart
<1>3. ASSUME NEW t \in Task, Answered(t) PROVE ZoneKept'
  <2>1. t = Recv /\ lapse' = lapse /\ UNCHANGED <<flash, job>> /\ \A u \in Task : u # t => call'[u] = call[u]
    BY <1>3, StaysInTime DEF Answered
  <2>2. \A c \in Shell : Served(c)' => Served(c)
    BY <2>1, Tasks DEF Served
  <2> QED BY <1>1, <2>1, <2>2 DEF Apart
<1>4. ASSUME NEW t \in Task, Return(t) PROVE ZoneKept'
  <2>1. /\ Served(t) /\ JobFits(t, job[t]) /\ job[t] \in Job /\ call[t] \in Call
        /\ job[t].kind # "none" /\ job'[t] = After(job[t], call[t]) /\ call'[t] = NoCall
        /\ \A u \in Task : u # t => job'[u] = job[u] /\ call'[u] = call[u]
        /\ UNCHANGED <<flash, lapse>>
    BY <1>0, <1>4, ReturnStep
  <2>2. CASE job'[t].kind # "zone"
    <3>1. \A c \in Shell : Apart(c)
      BY <2>1, <2>2, Tasks DEF Served, Apart
    <3> QED BY <1>1, <2>1, <3>1
  <2>3. CASE job'[t].kind = "zone"
    <3>1. job[t].kind = "zone" /\ t \in Shell
      BY <2>1, <2>3, AfterTells DEF JobFits
    <3>2. /\ job'[t].v = job[t].v /\ job'[t].pc = job[t].pc + 1 /\ job[t].pc \in {1, 2, 3}
      BY <2>1, <2>3, <3>1, AfterTells DEF JobFits
    <3>3. /\ flash[<<"tz_lbl">>] \in {0, flash[<<"tz">>]} /\ Alone("zone") /\ ZoneFits(t)
      BY <1>0, <2>1, <3>1 DEF ZoneKept
    <3>4. \A c \in Shell : c # t => job'[c].kind # "zone"
      BY <2>1, <3>1, <3>3, Tasks DEF Alone
    <3>5. ~Served(t)'
      BY <2>1 DEF Served, NoCall
    <3>6. ZoneFits(t)'
      <4>1. CASE job[t].pc = 1
        BY <2>1, <3>1, <3>2, <3>3, <3>5, <4>1 DEF ZoneFits
      <4>2. CASE job[t].pc = 2
        BY <2>1, <3>1, <3>2, <3>3, <3>5, <4>2 DEF ZoneFits
      <4>3. CASE job[t].pc = 3
        BY <2>1, <3>2, <3>5, <4>3 DEF ZoneFits
      <4> QED BY <3>2, <4>1, <4>2, <4>3
    <3> QED BY <2>1, <3>3, <3>4, <3>6 DEF ZoneKept, ZoneFits, Alone
  <2> QED BY <2>2, <2>3
<1>5. ASSUME NEW t \in Task, Serves(t) PROVE ZoneKept'
  <2>1. /\ UNCHANGED <<job, lapse>> /\ \A u \in Task : u # t => call'[u] = call[u]
    BY <1>5 DEF Serves, Taken
  <2>2. /\ job[t] \in Job /\ JobFits(t, job[t]) /\ job[t].kind # "none" /\ call'[t].st = "done"
    BY <1>0, <1>5, ServeWrites
  <2>3. CASE job[t].kind # "zone"
    <3>1. UNCHANGED <<flash[<<"tz">>], flash[<<"tz_lbl">>]>>
      BY <1>0, <1>5, <2>3, ServeWrites
    <3>2. \A c \in Shell : Apart(c)
      BY <2>1, <2>3, Tasks DEF Served, Apart
    <3> QED BY <1>1, <2>1, <3>1, <3>2
  <2>4. CASE job[t].kind = "zone"
    <3>1. job[t].pc \in {1, 2, 3} /\ t \in Shell
      BY <2>2, <2>4 DEF JobFits
    <3>2. /\ flash[<<"tz_lbl">>] \in {0, flash[<<"tz">>]} /\ Alone("zone") /\ ZoneFits(t)
      BY <1>0, <2>1, <3>1 DEF ZoneKept
    <3>3. \A c \in Shell : c # t => job'[c].kind # "zone"
      BY <2>1, <2>4, <3>1, <3>2 DEF Alone
    <3>4. Alone("zone")'
      BY <2>1, <3>2 DEF Alone
    <3>5. SUFFICES flash'[<<"tz_lbl">>] \in {0, flash'[<<"tz">>]} /\ ZoneFits(t)'
      BY <3>3, <3>4 DEF ZoneKept, ZoneFits
    <3>6. CASE job[t].pc = 1
      <4>1. flash'[<<"tz_lbl">>] = 0 /\ flash'[<<"tz">>] = flash[<<"tz">>]
        <5>1. /\ Ask(job[t]).op \in {"set", "erase"} /\ Ask(job[t]).key = <<"tz_lbl">>
              /\ Ask(job[t]).v = 0
          BY <2>2, <2>4, <3>6, AskTells
        <5> QED BY <1>5, <5>1, Keys DEF Serves
      <4> QED BY <2>1, <2>4, <3>6, <4>1 DEF ZoneFits
    <3>7. CASE job[t].pc = 2
      <4>1. flash'[<<"tz">>] = job[t].v /\ flash'[<<"tz_lbl">>] = flash[<<"tz_lbl">>]
        <5>1. /\ Ask(job[t]).op \in {"set", "erase"} /\ Ask(job[t]).key = <<"tz">>
              /\ Ask(job[t]).v = job[t].v
          BY <2>2, <2>4, <3>7, AskTells
        <5> QED BY <1>5, <5>1, Keys DEF Serves
      <4>2. flash[<<"tz_lbl">>] = 0
        BY <2>4, <3>2, <3>7 DEF ZoneFits
      <4> QED BY <2>1, <2>4, <3>7, <4>1, <4>2 DEF ZoneFits
    <3>8. CASE job[t].pc = 3
      <4>1. flash'[<<"tz_lbl">>] = job[t].v /\ flash'[<<"tz">>] = flash[<<"tz">>]
        <5>1. /\ Ask(job[t]).op \in {"set", "erase"} /\ Ask(job[t]).key = <<"tz_lbl">>
              /\ Ask(job[t]).v = job[t].v
          BY <2>2, <2>4, <3>8, AskTells
        <5> QED BY <1>5, <5>1, Keys DEF Serves
      <4>2. flash[<<"tz">>] = job[t].v
        BY <2>4, <3>2, <3>8 DEF ZoneFits
      <4> QED BY <2>1, <2>4, <3>8, <4>1, <4>2 DEF ZoneFits
    <3> QED BY <3>1, <3>6, <3>7, <3>8
  <2> QED BY <2>3, <2>4
<1>6. CASE Boot
  <2>1. UNCHANGED flash /\ "zone" \notin lapse /\ \A c \in Shell : job'[c].kind = "none"
    BY <1>0, <1>6, BootStep, Tasks
  <2> QED BY <1>1, <2>1 DEF Apart
<1>7. CASE PowerLoss
  <2>1. UNCHANGED flash /\ "zone" \notin lapse /\ \A c \in Shell : job'[c].kind = "none"
    BY <1>0, <1>7, PowerLossStep, Tasks
  <2> QED BY <1>1, <2>1 DEF Apart
<1>8. ASSUME NEW t \in Task, NEW k, NEW n, NEW v, Begins(t, k, n, v) PROVE ZoneKept'
  <2>1. /\ UNCHANGED <<flash, call>> /\ call[t].st = "none" /\ job'[t].pc = 1 /\ job'[t].kind = k
        /\ \A u \in Task : u # t => job'[u] = job[u]
        /\ lapse' = lapse \cup Crossed(t, k)
    BY <1>8 DEF Begins
  <2>2. /\ flash[<<"tz_lbl">>] \in {0, flash[<<"tz">>]}
        /\ Alone("zone") /\ \A c \in Shell : ZoneFits(c)
    BY <1>0, <2>1 DEF ZoneKept
  <2>3. k = "zone" => \A u \in Shell \ {t} : job[u].kind # "zone"
    BY <2>1 DEF Crossed
  <2>4. Alone("zone")'
    <3> SUFFICES ASSUME NEW c \in Shell, NEW d \in Shell, job'[c].kind = "zone", job'[d].kind = "zone",
                        c # d
                 PROVE  FALSE
      BY DEF Alone
    <3>1. CASE c # t /\ d # t
      BY <2>1, <2>2, <3>1, Tasks DEF Alone
    <3>2. CASE c = t
      BY <2>1, <2>3, <3>2, Tasks
    <3>3. CASE d = t
      BY <2>1, <2>3, <3>3, Tasks
    <3> QED BY <3>1, <3>2, <3>3
  <2>5. ASSUME NEW c \in Shell PROVE ZoneFits(c)'
    <3>1. CASE c = t
      BY <2>1, <3>1 DEF ZoneFits, Served
    <3>2. CASE c # t
      <4>1. job'[c] = job[c] /\ call'[c] = call[c] /\ ZoneFits(c)
        BY <2>1, <2>2, <3>2, Tasks
      <4> QED BY <2>1, <4>1 DEF ZoneFits, Served
    <3> QED BY <3>1, <3>2
  <2> QED BY <2>1, <2>2, <2>4, <2>5 DEF ZoneKept
<1>9. CASE UNCHANGED vars
  <2>1. UNCHANGED <<flash, job, call, lapse>>
    BY <1>9 DEF vars, calls
  <2> QED BY <1>1, <2>1 DEF Served, Apart
<1> QED BY <1>0, <1>2, <1>3, <1>4, <1>5, <1>6, <1>7, <1>8, <1>9 DEF Steps

\* A pin is stored only where there was none.
LEMMA PinWritten ==
    ASSUME Typed, PinFree, NEW t \in Task, Serves(t), NEW n \in Peer
    PROVE  flash[Pin(n)] # 0 => flash'[Pin(n)] \in {0, flash[Pin(n)]}
<1> SUFFICES ASSUME flash[Pin(n)] # 0, flash'[Pin(n)] # 0, flash'[Pin(n)] # flash[Pin(n)]
             PROVE  FALSE
  OBVIOUS
<1>1. t = Recv /\ job[t].kind = "ident" /\ job[t].pc = 2 /\ job[t].n = n
  BY ServeWrites
<1>2. ~Served(Recv)
  BY <1>1 DEF Serves, Taken, Served
<1> QED BY <1>1, <1>2 DEF PinFree

\* The pins.
LEMMA PinStep ==
    ASSUME Inv, [Next]_vars, "call" \notin lapse' PROVE PinFree'
<1>0. Typed /\ PinFree /\ Steps /\ Recv \in Task
  BY StaysInTime, Cases, Tasks DEF Inv, InTime
<1>1. ASSUME NEW t \in Task, Send(t) PROVE PinFree'
  <2>1. UNCHANGED <<flash, job>> /\ ~Served(t) /\ call'[t].st # "done"
        /\ \A u \in Task : u # t => call'[u] = call[u]
    BY <1>0, <1>1, SendStep
  <2>2. CASE t = Recv
    BY <1>0, <2>1, <2>2 DEF PinFree, Served
  <2>3. CASE t # Recv
    BY <1>0, <2>1, <2>3 DEF PinFree, Served
  <2> QED BY <2>2, <2>3
<1>2. ASSUME NEW t \in Task, Return(t) PROVE PinFree'
  <2>1. /\ Served(t) /\ JobFits(t, job[t]) /\ job[t] \in Job /\ call[t] \in Call
        /\ job[t].kind # "none" /\ job'[t] = After(job[t], call[t]) /\ call'[t] = NoCall
        /\ \A u \in Task : u # t => job'[u] = job[u] /\ call'[u] = call[u]
        /\ UNCHANGED flash
    BY <1>0, <1>2, ReturnStep
  <2>2. CASE t # Recv
    BY <1>0, <2>1, <2>2 DEF PinFree, Served
  <2>3. CASE t = Recv
    <3>1. SUFFICES ASSUME job'[t].kind = "ident" PROVE PinFree'
      BY <2>3 DEF PinFree
    <3>2. job[t].kind = "ident"
      BY <2>1, <3>1, AfterTells
    <3>3. /\ job'[t].pc # 1 /\ job'[t].n = job[t].n
          /\ job'[t].pc = 2 => job[t].pc = 1 /\ ~call[t].ok
      BY <2>1, <3>1, <3>2, AfterTells
    <3>4. job'[t].pc = 2 => flash[Pin(job[t].n)] = 0
      BY <1>0, <2>1, <2>3, <3>2, <3>3 DEF PinFree
    <3> QED BY <2>1, <2>3, <3>3, <3>4 DEF PinFree
  <2> QED BY <2>2, <2>3
<1>8. ASSUME NEW t \in Task, Answered(t) PROVE PinFree'
  <2>1. /\ t = Recv /\ job[t].pc = 3 /\ UNCHANGED <<flash, job>>
    BY <1>8, StaysInTime DEF Answered
  <2> QED BY <2>1 DEF PinFree
<1>3. ASSUME NEW t \in Task, Serves(t) PROVE PinFree'
  <2>2. /\ UNCHANGED job /\ job[t] \in Job /\ JobFits(t, job[t]) /\ job[t].kind # "none"
        /\ ~Served(t) /\ call'[t].st = "done" /\ JobFits(Recv, job[Recv])
    BY <1>0, <1>3, ServeWrites DEF Serves, Taken, Typed, JobsTyped
  <2>3. SUFFICES ASSUME job[Recv].kind = "ident" PROVE PinFree'
    BY <2>2 DEF PinFree
  <2>4. job[Recv].n \in Peer
    BY <2>2, <2>3 DEF JobFits
  <2>5. CASE t = Recv
    <3>1. job[Recv].pc = 1 => flash' = flash /\ (call'[Recv].ok <=> flash[Pin(job[Recv].n)] # 0)
      <4>1. SUFFICES ASSUME job[Recv].pc = 1
                     PROVE  flash' = flash /\ (call'[Recv].ok <=> flash[Pin(job[Recv].n)] # 0)
        OBVIOUS
      <4>2. Ask(job[t]).op = "get" /\ Ask(job[t]).key = Pin(job[t].n)
        BY <2>2, <2>3, <2>5, <4>1, AskTells
      <4> QED BY <1>3, <2>5, <4>2 DEF Serves
    <3>2. Served(Recv)'
      BY <2>2, <2>5 DEF Served
    <3> QED BY <2>2, <3>1, <3>2 DEF PinFree
  <2>6. CASE t # Recv
    <3>1. flash[Pin(job[Recv].n)] = 0 => flash'[Pin(job[Recv].n)] = 0
      BY <1>0, <1>3, <2>4, <2>6, ServeWrites
    <3>2. call'[Recv] = call[Recv]
      BY <1>0, <1>3, <2>6 DEF Serves, Taken
    <3> QED BY <1>0, <2>2, <3>1, <3>2 DEF PinFree, Served
  <2> QED BY <2>5, <2>6
<1>4. CASE Boot
  <2>1. UNCHANGED <<flash, call>> /\ job'[Recv] = job[Recv]
    BY <1>0, <1>4, BootStep, Tasks
  <2> QED BY <1>0, <2>1 DEF PinFree, Served
<1>5. CASE PowerLoss
  BY <1>0, <1>5, PowerLossStep DEF PinFree
<1>6. ASSUME NEW t \in Task, NEW k, NEW n, NEW v, Begins(t, k, n, v) PROVE PinFree'
  <2>1. UNCHANGED <<flash, call>> /\ call[t].st = "none" /\ job'[t].pc = 1
    BY <1>6 DEF Begins
  <2>2. CASE t = Recv
    BY <2>1, <2>2 DEF PinFree, Served
  <2>3. CASE t # Recv
    <3>1. job'[Recv] = job[Recv]
      BY <1>0, <1>6, <2>3 DEF Begins
    <3> QED BY <1>0, <2>1, <3>1 DEF PinFree, Served
  <2> QED BY <2>2, <2>3
<1>7. CASE UNCHANGED vars
  BY <1>0, <1>7 DEF vars, PinFree, Served
<1> QED BY <1>0, <1>1, <1>2, <1>3, <1>4, <1>5, <1>6, <1>7, <1>8 DEF Steps

---------------------------------------------------------------------------
(* The invariant. *)

\* A unit that never had power stores nothing.
LEMMA InitInv == ASSUME Init PROVE Inv
<1>1. NoJob \in Job /\ NoJob.kind = "none" /\ NoJob.pc = 0 /\ NoCall \in Call /\ NoCall.st = "none"
  BY Sizes DEF NoJob, Job, NoCall, Call
<1>2. \A k \in Key : flash[k] = 0
  BY DEF Init
<1>3. StoreTyped
  BY <1>2, Sizes, Keys DEF Init, StoreTyped
<1>4. JobsTyped /\ CallsTyped
  BY <1>1 DEF Init, JobsTyped, CallsTyped, JobFits
<1>5. QueueTyped
  <2>1. <<>> \in Seq(Task) /\ Len(<<>>) = 0 /\ 1 .. 0 = {}
    OBVIOUS
  <2>2. queue = <<>> /\ \A t \in Task : call[t].st = "none"
    BY <1>1 DEF Init
  <2> QED BY <2>1, <2>2, Sizes DEF QueueTyped
<1>6. \A t \in Task : job[t].kind = "none" /\ call[t].st = "none"
  BY <1>1 DEF Init
<1>7. WellServed /\ PinFree /\ Alone("name") /\ Alone("zone") /\ \A c \in Shell : ZoneFits(c)
  BY <1>6, Tasks DEF WellServed, PinFree, Served, Alone, ZoneFits
<1>9. NameKnown /\ ZoneKept
  BY <1>2, <1>7, Keys DEF Init, NameKnown, ZoneKept
<1>8. IdKept
  <2>1. 4 \in 1 .. 4 /\ IdFlash(4) = 0
    BY <1>2, Keys DEF IdFlash
  <2> QED BY <1>6, <2>1, Tasks DEF Init, IdKept
<1> QED BY <1>3, <1>4, <1>5, <1>7, <1>8, <1>9 DEF Inv, Typed, LapseTyped, InTime, Init

LEMMA InvStep == ASSUME Inv, [Next]_vars PROVE Inv'
<1>1. Typed'
  BY StoreStep, JobsStep, QueueStep, LapseStep DEF Typed
<1>2. "call" \notin lapse' => InTime'
  BY ServedStep, IdStep, ZoneStep, PinStep DEF InTime
<1> QED BY <1>1, <1>2, NameStep DEF Inv

\* The invariant holds in every state.
LEMMA InvHolds == Spec => []Inv
<1>1. Init => Inv
  BY InitInv
<1>2. Inv /\ [Next]_vars => Inv'
  BY InvStep
<1> QED BY <1>1, <1>2, PTL DEF Spec

---------------------------------------------------------------------------
(* What the store promises. *)

\* Every setting keeps its type, and a caller waits exactly if its request is in the queue,
\* once, and the queue keeps within its length.
THEOREM TypeCorrect == Spec => []TypeOK
<1>1. ASSUME Inv PROVE TypeOK
  <2>1. StoreTyped /\ JobsTyped /\ CallsTyped /\ QueueTyped /\ LapseTyped
    BY <1>1 DEF Inv, Typed
  <2>2. ASSUME NEW t \in Task
        PROVE  /\ job[t].kind = "none" <=> job[t].pc = 0
               /\ call[t].st \in {"none", "queued", "done"}
               /\ call[t].st = "queued" <=> \E i \in DOMAIN queue : queue[i] = t
    <3>1. job[t].kind = "none" <=> job[t].pc = 0
      BY <2>1 DEF JobsTyped, JobFits
    <3>2. call[t].st \in {"none", "queued", "done"}
      BY <2>1 DEF CallsTyped, Call
    <3>3. DOMAIN queue = 1 .. Len(queue)
      BY <2>1, LenProperties DEF QueueTyped
    <3>4. call[t].st = "queued" <=> \E i \in 1 .. Len(queue) : queue[i] = t
      BY <2>1 DEF QueueTyped
    <3> QED BY <3>1, <3>2, <3>3, <3>4
  <2> QED BY <2>1, <2>2 DEF StoreTyped, JobsTyped, QueueTyped, Stored, TypeOK, LapseTyped
<1> QED BY <1>1, InvHolds, PTL

\* While no command changes the name, the name that is served is the name in flash, also
\* after calls that gave up or that flash refused; the copy strays only after a first read
\* that failed or two commands that changed the name at once (the name cache of settings.c).
THEOREM NameIsStored == Spec => []NameCoherent
<1>1. Inv => NameCoherent
  BY DEF Inv, NameKnown, Learning, NameCoherent
<1> QED BY <1>1, InvHolds, PTL

\* As long as no call gave up or failed, a unit speaks with four keys minted together,
\* always those it first came up with (whm_id_init).
THEOREM OneIdentity == Spec => []IdentityStable
<1>1. ASSUME Inv, "call" \notin lapse, identity # <<>>
      PROVE  identity = first /\ \A i \in DOMAIN identity : identity[i] = identity[1]
  <2>1. IdKept
    BY <1>1 DEF Inv, InTime
  <2>2. identity = [i \in 1 .. 4 |-> IdFlash(i)] /\ IdFlash(4) # 0 /\ identity = first
    BY <1>1, <2>1 DEF IdKept
  <2>3. \A i \in 1 .. 4 : IdFlash(i) = IdFlash(4)
    BY <2>1, <2>2 DEF IdKept
  <2>4. DOMAIN identity = 1 .. 4 /\ 1 \in 1 .. 4
    BY <2>2
  <2>5. \A i \in 1 .. 4 : identity[i] = IdFlash(4)
    BY <2>2, <2>3
  <2> QED BY <2>2, <2>4, <2>5
<1>2. identity = <<>> => \A i \in DOMAIN identity : identity[i] = identity[1]
  <2>1. DOMAIN <<>> = {}
    OBVIOUS
  <2> QED BY <2>1
<1>3. Inv => IdentityStable
  BY <1>1, <1>2 DEF IdentityStable
<1> QED BY <1>3, InvHolds, PTL

\* As long as no call gave up or failed and no two commands changed the zone at once, a
\* stored label is that of the stored zone (whm_timesync_set_tz_named).
THEOREM LabelIsZones == Spec => []LabelFitsZone
<1>1. Inv => LabelFitsZone
  BY DEF Inv, InTime, ZoneKept, LabelFitsZone
<1> QED BY <1>1, InvHolds, PTL

\* As long as no call gave up or failed, a pinned key is never replaced by another one, by any
\* shell or the receiver; only an operator takes it away (the IDENT handler).
THEOREM PinsStick == Spec => PinSticks
<1> DEFINE Sticks == \A n \in Peer : ("call" \notin lapse /\ flash[Pin(n)] # 0) =>
                                       flash'[Pin(n)] \in {0, flash[Pin(n)]}
<1>1. ASSUME Inv, [Next]_vars PROVE [Sticks]_vars
  <2>1. SUFFICES ASSUME NEW n \in Peer, "call" \notin lapse, flash[Pin(n)] # 0
                 PROVE  flash'[Pin(n)] \in {0, flash[Pin(n)]}
    OBVIOUS
  <2>2. Typed /\ PinFree
    BY <1>1, <2>1 DEF Inv, InTime
  <2>3. CASE Serve
    BY <2>1, <2>2, <2>3, ServeStep, PinWritten
  <2>4. CASE ~Serve
    <3>1. flash' = flash
      <4>1. CASE \E t \in Task : Send(t) \/ TimeOut(t) \/ ReadDirect(t) \/ Return(t)
        BY <4>1 DEF Send, TimeOut, ReadDirect, Return
      <4>2. CASE ServeFails \/ Boot \/ PowerLoss
        BY <4>2 DEF ServeFails, Boot, PowerLoss, calls
      <4>3. CASE \E k \in Peer, v \in Val : Ident(k, v)
        BY <4>3 DEF Ident, Begin, calls
      <4>4. ASSUME NEW c \in Shell,
                   (\E k \in Peer : Unpin(c, k)) \/ (\E v \in Val : SetZone(c, v))
                     \/ \E v \in Name \cup {0} : SetName(c, v)
            PROVE  flash' = flash
        BY <4>4 DEF Unpin, SetZone, SetName, Begin, calls
      <4>5. CASE UNCHANGED vars
        BY <4>5 DEF vars
      <4> QED BY <1>1, <2>4, <4>1, <4>2, <4>3, <4>4, <4>5 DEF Next
    <3> QED BY <3>1
  <2> QED BY <2>3, <2>4
<1>2. Inv /\ [Next]_vars => [Sticks]_vars
  BY <1>1
<1> QED BY <1>2, InvHolds, PTL DEF PinSticks, Spec
=============================================================================
