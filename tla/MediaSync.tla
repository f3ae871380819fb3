----------------------------- MODULE MediaSync -----------------------------
(***************************************************************************)
(* Replication of one media file between SD cards (main/http_svc.c).       *)
(*                                                                         *)
(* Every node serves its manifest and its files over HTTP.  `sync media    *)
(* <host>` on the console of a node fetches the host's manifest, compares  *)
(* it with its own, and pulls what differs into a .part file, which a      *)
(* later attempt resumes; a .part of the announced size replaces the file. *)
(* The manifest is a table in RAM, rebuilt when it is dirty, from hashes   *)
(* kept in a sidecar file on the card.                                     *)
(*                                                                         *)
(* A file's content is a sequence of blocks, each marked with the version  *)
(* it comes from; its SHA-256 stands for the content and is the content.   *)
(***************************************************************************)
EXTENDS Integers, Sequences

CONSTANTS
    Node,        \* the nodes
    Pulls,       \* <<client, host>> of the syncs operators ask for
    Version,     \* the versions of the file that owners put on cards
    Size,        \* Size[v]: blocks of version v
    Held,        \* Held[n]: the version on the card of n at first, 0 if none
    Troubles,    \* what may go wrong: "cut", "power", "edit"
    MaxTrouble   \* bound on power losses and edits

ASSUME VersionAssumption == Version \subseteq Nat \ {0} /\ Size \in [Version -> Nat \ {0}]
ASSUME NodeAssumption == Pulls \subseteq Node \X Node /\ Held \in [Node -> Version \cup {0}]
ASSUME BoundAssumption == MaxTrouble \in Nat

VARIABLES
    media,     \* the file under its final name
    part,      \* its .part file
    lines,     \* the sidecar: lines[n][s] is the hash kept for size s
    table,     \* s_ents: the entry of the file
    dirty,     \* s_dirty
    builder,   \* where the console and the httpd task are in manifest_build
    sync,      \* where the console is in whm_media_sync
    calm,      \* from here on nothing goes wrong
    trouble    \* power losses and edits so far

card == <<media, part, lines>>
ram == <<table, dirty, builder>>
world == <<calm, trouble>>
vars == <<media, part, lines, table, dirty, builder, sync, calm, trouble>>

Absent == <<>>       \* no file, an empty file, or no hash
NoEntry == [size |-> 0, sha |-> Absent]
Whole(v) == [i \in 1 .. Size[v] |-> v]
Sizes == {Size[v] : v \in Version}
Contents == UNION {[1 .. s -> Version] : s \in {0} \cup UNION {1 .. r : r \in Sizes}}
Tasks == {"console", "httpd"}
Idle == [at |-> "idle", host |-> 0, want |-> NoEntry, body |-> Absent, tries |-> 0]

-----------------------------------------------------------------------------
(* manifest_build, run by task t of node n. *)

\* A clean table is used as it is; otherwise it is emptied.
BuildStart(n, t) ==
    IF dirty[n]
    THEN /\ table' = [table EXCEPT ![n] = NoEntry]
         /\ builder' = [builder EXCEPT ![n][t] = "scan"]
    ELSE /\ builder' = [builder EXCEPT ![n][t] = "built"]
         /\ UNCHANGED table

\* hc_get: the line for this name and size, whatever the content is now.
Hash(n) ==
    LET s == Len(media[n]) IN
    IF lines[n][s] # Absent THEN lines[n][s] ELSE media[n]

\* One file is entered, hashed when the sidecar has no line for it.
BuildScan(n, t) ==
    /\ builder[n][t] = "scan"
    /\ builder' = [builder EXCEPT ![n][t] = "scanned"]
    /\ IF media[n] = Absent THEN UNCHANGED <<table, lines>>
       ELSE /\ table' = [table EXCEPT ![n] = [size |-> Len(media[n]), sha |-> Hash(n)]]
            /\ lines' = [lines EXCEPT ![n][Len(media[n])] = Hash(n)]
    /\ UNCHANGED <<media, part, dirty, sync, world>>

BuildEnd(n, t) ==
    /\ builder[n][t] = "scanned"
    /\ builder' = [builder EXCEPT ![n][t] = "built"]
    /\ dirty' = [dirty EXCEPT ![n] = FALSE]
    /\ UNCHANGED <<card, table, sync, world>>

-----------------------------------------------------------------------------
(* whm_media_sync on the console of c. *)

At(c, step) == sync[c].at = step
Goto(c, step) == sync' = [sync EXCEPT ![c].at = step]
Leave(c) == sync' = [sync EXCEPT ![c] = Idle]

\* The request for the manifest reaches the host's httpd task, which
\* handles one request at a time.
Start(c, h) ==
    /\ <<c, h>> \in Pulls /\ At(c, "idle") /\ builder[h]["httpd"] = "idle"
    /\ sync' = [sync EXCEPT ![c] = [Idle EXCEPT !.at = "ask", !.host = h]]
    /\ BuildStart(h, "httpd")
    /\ UNCHANGED <<card, dirty, world>>

\* Anyone on the network asks for the manifest with a browser.
Browse(n) ==
    /\ builder[n]["httpd"] = "idle"
    /\ BuildStart(n, "httpd")
    /\ UNCHANGED <<card, dirty, sync, world>>

\* h_manifest sends the table to the client that asked, if it still waits.
Answer(h) ==
    /\ builder[h]["httpd"] = "built"
    /\ builder' = [builder EXCEPT ![h]["httpd"] = "idle"]
    /\ sync' = [c \in Node |->
                   IF At(c, "ask") /\ sync[c].host = h
                   THEN [sync[c] EXCEPT !.at = "own", !.want = table[h]] ELSE sync[c]]
    /\ UNCHANGED <<card, table, dirty, world>>

\* No answer: the host lost power or is still hashing after 6 s, or the
\* connection broke.
NoManifest(c) ==
    LET task == builder[sync[c].host]["httpd"] IN
    /\ At(c, "ask")
    /\ task \in {"idle", "scan"} \/ ("cut" \in Troubles /\ ~calm)
    /\ Leave(c)
    /\ UNCHANGED <<card, ram, world>>

\* The client builds the manifest of its own card.
OwnManifest(c) ==
    /\ At(c, "own") /\ Goto(c, "diff")
    /\ BuildStart(c, "console")
    /\ UNCHANGED <<card, dirty, world>>

\* Mutant: the hashes are not compared.
DiffBySize(c) ==
    /\ At(c, "diff") /\ builder[c]["console"] = "built"
    /\ builder' = [builder EXCEPT ![c]["console"] = "idle"]
    /\ IF sync[c].want = NoEntry \/ sync[c].want.size = table[c].size THEN Leave(c)
       ELSE sync' = [sync EXCEPT ![c].at = "pull", ![c].tries = 2]
    /\ UNCHANGED <<card, table, dirty, world>>

\* Skipped when size and hash agree, otherwise pulled, with one retry.
Diff(c) ==
    /\ At(c, "diff") /\ builder[c]["console"] = "built"
    /\ builder' = [builder EXCEPT ![c]["console"] = "idle"]
    /\ IF sync[c].want \in {NoEntry, table[c]} THEN Leave(c)
       ELSE sync' = [sync EXCEPT ![c].at = "pull", ![c].tries = 2]
    /\ UNCHANGED <<card, table, dirty, world>>

\* Mutant: retried for ever.
FailedForever(c) == sync' = [sync EXCEPT ![c] = [@ EXCEPT !.at = "pull", !.tries = @ - 1]]

\* A pull failed: once more, or give up.
Failed(c) ==
    sync' = [sync EXCEPT ![c] = IF @.tries = 2 THEN [@ EXCEPT !.at = "pull", !.tries = 1]
                                ELSE Idle]

\* h_media refuses a range that starts at or beyond the end of the file it has
\* now, and a file that it does not have.
Refuses(h, from) == from >= Len(media[h])

\* The first half of pull_one: a .part longer than announced is deleted, any
\* other resumed.
Open(c) ==
    LET h == sync[c].host
        kept == IF Len(part[c]) > sync[c].want.size THEN Absent ELSE part[c]
    IN
    /\ At(c, "pull")
    /\ part' = [part EXCEPT ![c] = kept]
    /\ IF Refuses(h, Len(kept)) THEN Failed(c)
       ELSE sync' = [sync EXCEPT ![c].at = "stream", ![c].body = media[h]]
    /\ UNCHANGED <<media, lines, ram, world>>

\* Mutant: whatever arrived replaces the file.
CloseAnyway(c, k) ==
    /\ At(c, "stream")
    /\ k \in Len(part[c]) .. Len(sync[c].body)
    /\ k = Len(sync[c].body) \/ ("cut" \in Troubles /\ ~calm)
    /\ part' = [part EXCEPT ![c] = @ \o SubSeq(sync[c].body, Len(@) + 1, k)]
    /\ Goto(c, "unlink")
    /\ UNCHANGED <<media, lines, ram, world>>

\* The body has been read up to block k, all of it unless the connection
\* broke, and the .part is closed; its new length is on the card from here on.
Close(c, k) ==
    /\ At(c, "stream")
    /\ k \in Len(part[c]) .. Len(sync[c].body)
    /\ k = Len(sync[c].body) \/ ("cut" \in Troubles /\ ~calm)
    /\ part' = [part EXCEPT ![c] = @ \o SubSeq(sync[c].body, Len(@) + 1, k)]
    /\ IF k = sync[c].want.size THEN Goto(c, "unlink") ELSE Failed(c)
    /\ UNCHANGED <<media, lines, ram, world>>

Unlink(c) ==
    /\ At(c, "unlink") /\ Goto(c, "rename")
    /\ media' = [media EXCEPT ![c] = Absent]
    /\ UNCHANGED <<part, lines, ram, world>>

\* The .part takes the file's name and the manifest is marked dirty.
Rename(c) ==
    /\ At(c, "rename") /\ Leave(c)
    /\ media' = [media EXCEPT ![c] = part[c]]
    /\ part' = [part EXCEPT ![c] = Absent]
    /\ dirty' = [dirty EXCEPT ![c] = TRUE]
    /\ UNCHANGED <<lines, table, builder, world>>

-----------------------------------------------------------------------------
(* What goes wrong. *)

Trouble(what) ==
    /\ what \in Troubles /\ ~calm /\ trouble < MaxTrouble
    /\ trouble' = trouble + 1 /\ UNCHANGED calm

\* RAM is gone; a .part that was open keeps the length it had when opened.
PowerLoss(n) ==
    /\ Trouble("power")
    /\ table' = [table EXCEPT ![n] = NoEntry]
    /\ dirty' = [dirty EXCEPT ![n] = TRUE]
    /\ builder' = [builder EXCEPT ![n] = [t \in Tasks |-> "idle"]]
    /\ Leave(n)
    /\ UNCHANGED card

\* The owner takes the card out, replaces the file and puts it back, which
\* marks the manifest dirty.  Nothing reads the card meanwhile.
Edit(n, v) ==
    /\ Trouble("edit")
    /\ At(n, "idle") /\ builder[n] = [t \in Tasks |-> "idle"]
    /\ \A c \in Node : ~(At(c, "stream") /\ sync[c].host = n)
    /\ media' = [media EXCEPT ![n] = Whole(v)]
    /\ dirty' = [dirty EXCEPT ![n] = TRUE]
    /\ UNCHANGED <<part, lines, table, builder, sync>>

BecomeCalm == ~calm /\ calm' = TRUE /\ UNCHANGED <<card, ram, sync, trouble>>

-----------------------------------------------------------------------------
Init ==
    /\ media = [n \in Node |-> IF Held[n] = 0 THEN Absent ELSE Whole(Held[n])]
    /\ part = [n \in Node |-> Absent]
    /\ lines = [n \in Node |-> [s \in Sizes |-> Absent]]
    /\ table = [n \in Node |-> NoEntry]
    /\ dirty = [n \in Node |-> TRUE]
    /\ builder = [n \in Node |-> [t \in Tasks |-> "idle"]]
    /\ sync = [n \in Node |-> Idle]
    /\ calm = FALSE
    /\ trouble = 0

\* The steps of a sync under way.
Proceed(c) ==
    \/ OwnManifest(c) \/ NoManifest(c) \/ Diff(c)
    \/ Open(c) \/ Unlink(c) \/ Rename(c)
    \/ \E k \in 0 .. Len(sync[c].body) : Close(c, k)

\* The steps of the tasks that serve the manifest.
Serve(n, t) == BuildScan(n, t) \/ BuildEnd(n, t) \/ (t = "httpd" /\ Answer(n))

Next ==
    \/ \E n \in Node : Proceed(n) \/ Browse(n) \/ PowerLoss(n)
    \/ \E n \in Node, t \in Tasks : Serve(n, t)
    \/ \E c, h \in Node : Start(c, h)
    \/ \E n \in Node, v \in Version : Edit(n, v)
    \/ BecomeCalm

Spec == Init /\ [][Next]_vars

\* Tasks run; the operators repeat their syncs, whose connections wait their
\* turn at the httpd task.
FairSpec ==
    /\ Spec
    /\ \A n \in Node : WF_vars(Proceed(n))
    /\ \A n \in Node, t \in Tasks : WF_vars(Serve(n, t))
    /\ \A p \in Pulls : SF_vars(Start(p[1], p[2]))
    /\ WF_vars(BecomeCalm)

-----------------------------------------------------------------------------
(* Properties *)

Entries == [size : {0} \cup Sizes, sha : Contents]
Places == {"idle", "ask", "own", "diff", "pull", "stream", "unlink", "rename"}

TypeOK ==
    /\ media \in [Node -> Contents]
    /\ part \in [Node -> Contents]
    /\ lines \in [Node -> [Sizes -> Contents]]
    /\ table \in [Node -> Entries]
    /\ dirty \in [Node -> BOOLEAN]
    /\ builder \in [Node -> [Tasks -> {"idle", "scan", "scanned", "built"}]]
    /\ sync \in [Node -> [at : Places, host : Node \cup {0}, want : Entries,
                          body : Contents, tries : 0 .. 2]]
    /\ calm \in BOOLEAN /\ trouble \in 0 .. MaxTrouble

\* Cuts, power losses and edits never leave a truncated file under the final
\* name: pull_one publishes a .part only at the size the manifest announced.
NeverTruncated == \A n \in Node : media[n] # Absent => Len(media[n]) \in Sizes

\* Nothing is left of earlier transfers: no .part, and nothing kept about the
\* file in the sidecar or in the table is wrong.
Clean(n) ==
    /\ part[n] = Absent
    /\ sync[n].at = "idle" /\ builder[n] = [t \in Tasks |-> "idle"]
    /\ media[n] # Absent => lines[n][Len(media[n])] \in {Absent, media[n]}
    /\ dirty[n] \/ table[n] = [size |-> Len(media[n]), sha |-> media[n]]

Same(c, h) == media[c] = media[h]

\* Repeated syncs make the client's file the host's, once nothing goes wrong
\* any more and provided nothing is left over from before.
CleanSyncConverges ==
    \A p \in Pulls : (calm /\ Clean(p[1]) /\ Clean(p[2])
                        /\ media[p[2]] # Absent) ~> Same(p[1], p[2])
=============================================================================
