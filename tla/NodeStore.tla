------------------------------ MODULE NodeStore ------------------------------
(***************************************************************************)
(* settings.c and what is kept through it: the node's name, its identity   *)
(* and the pins of its peers (crypto_id.c, the IDENT handler of sync.c),   *)
(* the time zone with its label (timesync.c).                              *)
(*                                                                         *)
(* A task that wants a setting puts a request in the broker's queue and    *)
(* sleeps until it is served; if the queue stays full for 2 s it gives up, *)
(* flash may refuse, and most callers notice neither.  A call is one       *)
(* request; a job is the sequence of calls one operation makes, and power  *)
(* may fail between any two of them.  Every console has a task of its own, *)
(* and nothing keeps two of them from running the same command.  A value   *)
(* is a number, 0 if the key is not there; the list of pinned names is a   *)
(* set.                                                                    *)
(***************************************************************************)
EXTENDS Naturals, Sequences, FiniteSets

CONSTANTS
    Shell,        \* the tasks that run commands: USB, SSH, Bluetooth, the fleet's executor
    Recv, Main,   \* the receiver, app_main
    Peer,         \* names of other units
    Val,          \* values: keys of units, zones
    Name,         \* names the node is given
    QueueMax,     \* 4: requests that may wait
    MaxJobs,      \* bound on jobs begun
    MaxLoss,      \* bound on losses of power
    MaxEvents,    \* bound on both together
    MaxFault      \* bound on calls that give up or that flash refuses

ASSUME StoreAssumption ==
    /\ Recv # Main /\ Recv \notin Shell /\ Main \notin Shell
    /\ Peer \subseteq Nat \ {0} /\ Val \cup Name \subseteq Nat \ {0} /\ QueueMax \in Nat \ {0}
    /\ MaxJobs \in Nat /\ MaxLoss \in Nat /\ MaxEvents \in Nat /\ MaxFault \in Nat

Task == Shell \cup {Recv, Main}

VARIABLES
    flash,       \* flash[k]: the value stored under key k
    idx,         \* "pin.idx"
    job,         \* job[t]: what task t is doing
    call,        \* call[t]: where its current call stands
    queue,       \* s_q: tasks whose request waits
    cache,       \* s_name_cache, once s_name_valid
    identity,    \* s_sk, s_pk, s_xsk, s_xpk, once s_up; <<>> before
    on,          \* the unit has power
    lapse,       \* history: "call" gave up or failed, "name", "zone": see Begin and Boot
    first,       \* history: the first identity this unit came up with
    jobs, losses, faults

calls == <<flash, idx, call, queue>>
vars == <<flash, idx, job, call, queue, cache, identity, on, lapse, first, jobs, losses, faults>>

IdKey == <<"cid.sk", "cid.pk", "cid.xsk", "cid.xpk">>
Pin(n) == <<"pin", n>>
Pinx(n) == <<"pinx", n>>
Key == {<<IdKey[i]>> : i \in 1 .. 4} \cup {Pin(n) : n \in Peer} \cup {Pinx(n) : n \in Peer}
       \cup {<<"node">>, <<"tz">>, <<"tz_lbl">>}

NoJob == [kind |-> "none", n |-> 0, v |-> 0, pc |-> 0, reg |-> {}]
NoCall == [st |-> "none", ok |-> FALSE, v |-> 0, reg |-> {}]

Init ==
    /\ flash = [k \in Key |-> 0] /\ idx = {}
    /\ job = [t \in Task |-> NoJob] /\ call = [t \in Task |-> NoCall]
    /\ queue = <<>> /\ cache = 0 /\ identity = <<>> /\ on = FALSE
    /\ lapse = {} /\ first = <<>> /\ jobs = 0 /\ losses = 0 /\ faults = 0

---------------------------------------------------------------------------
(* What each job asks for next.                                            *)

Get(k) == [op |-> "get", key |-> k, v |-> 0, reg |-> {}]
Put(k, v) == [op |-> "set", key |-> k, v |-> v, reg |-> {}]
Erase(k) == [op |-> "erase", key |-> k, v |-> 0, reg |-> {}]
GetIdx == [op |-> "getidx", key |-> <<"tz">>, v |-> 0, reg |-> {}]
PutIdx(r) == [op |-> "setidx", key |-> <<"tz">>, v |-> 0, reg |-> r]

\* Mutant: the old label stays until the new one is stored.
KeepLabel(j) ==
    IF j.pc = 1 THEN Get(<<"tz_lbl">>) ELSE Put(<<IF j.pc = 2 THEN "tz" ELSE "tz_lbl">>, j.v)

\* whm_timesync_set_tz_named; a label is the label of the zone of its number.
ZoneAsk(j) ==
    IF j.pc = 1 THEN Erase(<<"tz_lbl">>) ELSE Put(<<IF j.pc = 2 THEN "tz" ELSE "tz_lbl">>, j.v)

\* whm_pin_get, whm_pin_put, whm_pinx_put for an IDENT.
IdentAsk(j) ==
    CASE j.pc = 1 -> Get(Pin(j.n))
      [] j.pc = 2 -> Put(Pin(j.n), j.v)
      [] j.pc = 3 -> GetIdx
      [] j.pc = 4 -> PutIdx(j.reg \cup {j.n})
      [] j.pc = 5 -> Put(Pinx(j.n), j.v)

\* whm_pin_del.
UnpinAsk(j) ==
    CASE j.pc = 1 -> Erase(Pin(j.n))
      [] j.pc = 2 -> Erase(Pinx(j.n))
      [] j.pc = 3 -> GetIdx
      [] j.pc = 4 -> PutIdx(j.reg \ {j.n})

Ask(j) ==
    CASE j.kind = "mint" -> Put(<<IdKey[j.pc]>>, j.v)
      [] j.kind = "ident" -> IdentAsk(j)
      [] j.kind = "unpin" -> UnpinAsk(j)
      [] j.kind = "zone" -> ZoneAsk(j)
      [] j.kind = "name" -> IF j.v = 0 THEN Erase(<<"node">>) ELSE Put(<<"node">>, j.v)

Last(j) == CASE j.kind = "mint" -> 4 [] j.kind = "ident" -> 5 [] j.kind = "unpin" -> 4
             [] j.kind = "zone" -> 3 [] j.kind = "name" -> 1

\* Mutant: a pinned unit that comes with another key is pinned anew.
RepinAfter(j, r) ==
    IF j.pc = 1 /\ r.ok THEN IF r.v = j.v THEN 5 ELSE 2
    ELSE IF j.pc = 3 /\ j.n \in r.reg THEN 5 ELSE j.pc + 1

\* The step of an IDENT that follows answer r: an unknown name is pinned, the
\* pinned key has its exchange key refreshed, another key is rejected.
IdentAfter(j, r) ==
    IF j.pc = 1 /\ r.ok THEN IF r.v = j.v THEN 5 ELSE 6
    ELSE IF j.pc = 3 /\ j.n \in r.reg THEN 5 ELSE j.pc + 1

\* A zone that could not be stored gets no label.
ZoneAfter(j, r) == IF j.pc = 2 /\ ~r.ok THEN 4 ELSE j.pc + 1

After(j, r) ==
    LET pc == CASE j.kind = "ident" -> IdentAfter(j, r)
                [] j.kind = "zone" -> ZoneAfter(j, r)
                [] OTHER -> j.pc + 1
    IN IF pc > Last(j) THEN NoJob ELSE [j EXCEPT !.pc = pc, !.reg = r.reg]

---------------------------------------------------------------------------
(* The calls. *)

\* The list of names is read into a buffer larger than a request holds, and so
\* from flash by the caller itself.
Direct(j) == j.kind = "ident" /\ j.pc = 3

Failed == [NoCall EXCEPT !.st = "done"]

\* A call that gives up or that flash refuses, a read of a boot that flash refuses.
Lapse(what) == faults' = faults + Cardinality(what) /\ faults' <= MaxFault /\ lapse' = lapse \cup what

\* rpc: the request is queued, or the caller gives up.
Send(t) ==
    /\ job[t].kind # "none" /\ ~Direct(job[t]) /\ call[t].st = "none" /\ Len(queue) < QueueMax
    /\ queue' = Append(queue, t)
    /\ call' = [call EXCEPT ![t].st = "queued"]
    /\ UNCHANGED <<flash, idx, job, cache, identity, on, lapse, first, jobs, losses, faults>>

TimeOut(t) ==
    /\ job[t].kind # "none" /\ ~Direct(job[t]) /\ call[t].st = "none" /\ Len(queue) = QueueMax
    /\ call' = [call EXCEPT ![t] = Failed]
    /\ Lapse({"call"})
    /\ UNCHANGED <<flash, idx, job, queue, cache, identity, on, first, jobs, losses>>

ReadDirect(t) ==
    /\ Direct(job[t]) /\ call[t].st = "none"
    /\ \/ call' = [call EXCEPT ![t] = [Failed EXCEPT !.ok = TRUE, !.reg = idx]] /\ Lapse({})
       \/ call' = [call EXCEPT ![t] = Failed] /\ Lapse({"call"})
    /\ UNCHANGED <<flash, idx, job, queue, cache, identity, on, first, jobs, losses>>

\* Mutant: a request for a key that is not there is not answered.
AnswerFound(k, v) ==
    IF v = 0 THEN [NoCall EXCEPT !.st = "queued"] ELSE [st |-> "done", ok |-> TRUE, v |-> v, reg |-> {}]

Answer(k, v) == [st |-> "done", ok |-> v # 0, v |-> v, reg |-> {}]

\* broker_task.
Serve ==
    /\ queue # <<>> /\ queue' = Tail(queue)
    /\ LET t == Head(queue)
           q == Ask(job[t])
           done == [Failed EXCEPT !.ok = TRUE]
       IN CASE q.op = "get" -> /\ call' = [call EXCEPT ![t] = Answer(q.key, flash[q.key])]
                               /\ UNCHANGED <<flash, idx>>
            [] q.op = "set" -> /\ flash' = [flash EXCEPT ![q.key] = q.v]
                               /\ call' = [call EXCEPT ![t] = done] /\ UNCHANGED idx
            [] q.op = "erase" -> /\ flash' = [flash EXCEPT ![q.key] = 0]
                                 /\ call' = [call EXCEPT ![t] = Answer(q.key, flash[q.key])]
                                 /\ UNCHANGED idx
            [] q.op = "getidx" -> /\ call' = [call EXCEPT ![t] = [done EXCEPT !.reg = idx]]
                                  /\ UNCHANGED <<flash, idx>>
            [] q.op = "setidx" -> /\ idx' = q.reg
                                  /\ call' = [call EXCEPT ![t] = done] /\ UNCHANGED flash
    /\ UNCHANGED <<job, cache, identity, on, lapse, first, jobs, losses, faults>>

\* A request that flash refuses leaves the key as it was.
ServeFails ==
    /\ queue # <<>> /\ queue' = Tail(queue)
    /\ call' = [call EXCEPT ![Head(queue)] = Failed]
    /\ Lapse({"call"})
    /\ UNCHANGED <<flash, idx, job, cache, identity, on, first, jobs, losses>>

\* Mutant: the cache takes a name whether or not it was stored.
CacheAnyway(j, r) == IF j.kind = "name" THEN j.v ELSE cache

\* The copy of the name follows a call that succeeded.
CacheAfter(j, r) == IF j.kind = "name" /\ r.ok THEN j.v ELSE cache

\* The task wakes up with its answer.
Return(t) ==
    /\ call[t].st = "done"
    /\ call' = [call EXCEPT ![t] = NoCall]
    /\ job' = [job EXCEPT ![t] = After(@, call[t])]
    /\ cache' = CacheAfter(job[t], call[t])
    /\ identity' = IF job[t].kind = "mint" /\ job'[t] = NoJob
                   THEN [i \in 1 .. 4 |-> job[t].v] ELSE identity
    /\ first' = IF first = <<>> THEN identity' ELSE first
    /\ UNCHANGED <<flash, idx, queue, on, lapse, jobs, losses, faults>>

---------------------------------------------------------------------------
(* Jobs, boot and loss of power. *)

\* A name, or a zone, is set while another shell sets one.
Crossed(t, kind) == {kind} \cap {"name", "zone"} \cap {job[u].kind : u \in Shell \ {t}}

Begin(t, j) ==
    /\ on /\ job[t] = NoJob /\ jobs < MaxJobs /\ jobs + losses < MaxEvents /\ jobs' = jobs + 1
    /\ job' = [job EXCEPT ![t] = [j EXCEPT !.pc = 1]]
    /\ lapse' = lapse \cup Crossed(t, j.kind)
    /\ UNCHANGED <<calls, cache, identity, on, first, losses, faults>>

Ident(n, k) == identity # <<>> /\ Begin(Recv, [NoJob EXCEPT !.kind = "ident", !.n = n, !.v = k])
Unpin(c, n) == Begin(c, [NoJob EXCEPT !.kind = "unpin", !.n = n])
SetZone(c, z) == Begin(c, [NoJob EXCEPT !.kind = "zone", !.v = z])
SetName(c, v) == Begin(c, [NoJob EXCEPT !.kind = "name", !.v = v])

\* Mutant: the signing key alone makes an identity.
HasSigningKey == flash[<<IdKey[1]>>] # 0

\* whm_id_init finds an identity when all four keys load.
HasIdentity == \A i \in 1 .. 4 : flash[<<IdKey[i]>>] # 0

\* The prompt reads the name before any command is taken, and whm_id_init loads
\* the identity or mints one, before the unit speaks to others.  A read that fails
\* leaves the copy of the name empty, and keys that do not load count as missing.
Boot ==
    /\ ~on /\ on' = TRUE
    /\ \E bad \in SUBSET {"name", "call"} :
        /\ Lapse(bad)
        /\ cache' = IF "name" \in bad THEN 0 ELSE flash[<<"node">>]
        /\ IF "call" \notin bad /\ HasIdentity
           THEN identity' = [i \in 1 .. 4 |-> flash[<<IdKey[i]>>]] /\ UNCHANGED job
           ELSE /\ job' = [job EXCEPT ![Main] =
                            [NoJob EXCEPT !.kind = "mint", !.v = losses + 1, !.pc = 1]]
                /\ UNCHANGED identity
    /\ first' = IF first = <<>> THEN identity' ELSE first
    /\ UNCHANGED <<calls, jobs, losses>>

PowerLoss ==
    /\ on /\ losses < MaxLoss /\ jobs + losses < MaxEvents /\ losses' = losses + 1
    /\ on' = FALSE /\ cache' = 0 /\ identity' = <<>> /\ queue' = <<>>
    /\ job' = [t \in Task |-> NoJob] /\ call' = [t \in Task |-> NoCall]
    /\ lapse' = lapse \ {"name"}
    /\ UNCHANGED <<flash, idx, first, jobs, faults>>

Next ==
    \/ \E t \in Task : Send(t) \/ TimeOut(t) \/ ReadDirect(t) \/ Return(t)
    \/ Serve \/ ServeFails \/ Boot \/ PowerLoss
    \/ \E n \in Peer, k \in Val : Ident(n, k)
    \/ \E c \in Shell :
        \/ \E n \in Peer : Unpin(c, n)
        \/ \E v \in Val : SetZone(c, v)
        \/ \E v \in Name \cup {0} : SetName(c, v)

\* The broker outranks its callers and is never blocked, and a shell wakes up when
\* it is answered; of the other tasks nothing is needed.
Spec ==
    /\ Init /\ [][Next]_vars /\ WF_vars(Serve \/ ServeFails)
    /\ \A c \in Shell : WF_vars(Send(c) \/ TimeOut(c) \/ Return(c))

---------------------------------------------------------------------------
TypeOK ==
    /\ flash \in [Key -> Val \cup Name \cup {0} \cup 1 .. MaxLoss + 1] /\ idx \subseteq Peer
    /\ \A t \in Task : /\ job[t].kind = "none" <=> job[t].pc = 0
                       /\ call[t].st \in {"none", "queued", "done"}
                       /\ call[t].st = "queued" <=> \E i \in DOMAIN queue : queue[i] = t
    /\ Len(queue) <= QueueMax /\ cache \in Name \cup {0} /\ on \in BOOLEAN
    /\ lapse \subseteq {"call", "name", "zone"}

\* Whenever no command is changing the node's name, the copy served to all readers is
\* the name in flash, also after calls that gave up or failed and with any other
\* commands under way; since the unit booted, its first read of the name succeeded
\* and no two commands changed the name at the same time.
NameCoherent ==
    on /\ "name" \notin lapse /\ (\A c \in Shell : job[c].kind # "name")
        => cache = flash[<<"node">>]

\* The four keys a unit speaks with were minted together, and a unit that once
\* came up keeps its identity however often power fails while it is stored.
IdentityStable ==
    "call" \notin lapse =>
        /\ \A i \in DOMAIN identity : identity[i] = identity[1]
        /\ identity # <<>> => identity = first

\* A stored label is the label of the stored zone, wherever power failed, if no two
\* commands changed the zone at the same time.
LabelFitsZone ==
    {"call", "zone"} \cap lapse = {} => flash[<<"tz_lbl">>] \in {0, flash[<<"tz">>]}

\* The key pinned to a name is never replaced by another one: it goes only
\* when an operator forgets the name (the IDENT handler).
PinSticks ==
    [][\A n \in Peer : ("call" \notin lapse /\ flash[Pin(n)] # 0) =>
          flash'[Pin(n)] \in {0, flash[Pin(n)]}]_vars

\* A command that changes settings comes to an end, whatever the other shells and
\* tasks ask of the broker at the same time.
CommandEnds == \A c \in Shell : job[c].kind # "none" ~> job[c].kind = "none"
=============================================================================
