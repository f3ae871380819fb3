--------------------------- MODULE MediaSync_proofs ---------------------------
(***************************************************************************)
(* Replication for any nodes, versions of any sizes, any syncs and any     *)
(* number of troubles: what is published under a file's final name is      *)
(* never shorter than a version somebody put on a card.                    *)
(***************************************************************************)
EXTENDS MediaSync, SequenceTheorems, TLAPS

---------------------------------------------------------------------------
(* The inductive invariant. *)

Lengths == {0} \cup UNION {1 .. r : r \in Sizes}

Session == [at : Places, host : Node \cup {0}, want : Entries, body : Contents, tries : 0 .. 2]

\* A file that is there, and what the manifest says of it, has the size of a version.
FileSized(f) == f # Absent => Len(f) \in Sizes
EntrySized(e) == e = NoEntry \/ e.size \in Sizes

CardTyped ==
    /\ media \in [Node -> Contents] /\ part \in [Node -> Contents]
    /\ lines \in [Node -> [Sizes -> Contents]]

RamTyped ==
    /\ table \in [Node -> Entries] /\ dirty \in [Node -> BOOLEAN]
    /\ builder \in [Node -> [Tasks -> {"idle", "scan", "scanned", "built"}]]

SyncTyped == sync \in [Node -> Session]

WorldTyped == calm \in BOOLEAN /\ trouble \in 0 .. MaxTrouble

\* A sync under way has a host, pulls only what its host has, and publishes
\* only a .part of the announced size.
Proceeds(s, p) ==
    /\ s.at # "idle" => s.host \in Node
    /\ EntrySized(s.want)
    /\ s.at \in {"pull", "stream", "unlink", "rename"} => s.want.size \in Sizes
    /\ s.at \in {"unlink", "rename"} => Len(p) = s.want.size

FilesSized == \A n \in Node : FileSized(media[n])
TablesSized == \A n \in Node : EntrySized(table[n])
SyncsProceed == \A c \in Node : Proceeds(sync[c], part[c])

Inv ==
    /\ CardTyped /\ RamTyped /\ SyncTyped /\ WorldTyped
    /\ FilesSized /\ TablesSized /\ SyncsProceed

---------------------------------------------------------------------------
(* Contents of files. *)

LEMMA SizesAre == Sizes \subseteq Nat \ {0} /\ Lengths \subseteq Nat /\ Sizes \subseteq Lengths
<1>1. Sizes \subseteq Nat \ {0}
  BY VersionAssumption DEF Sizes
<1>2. ASSUME NEW r \in Sizes, NEW i \in 1 .. r PROVE i \in Nat
  BY <1>1
<1>3. ASSUME NEW r \in Sizes PROVE r \in 1 .. r
  BY <1>1
<1> QED BY <1>1, <1>2, <1>3 DEF Lengths

\* A shorter piece of a content has a length that contents have.
LEMMA Shorter ==
    ASSUME NEW n \in Lengths, NEW k \in 0 .. n PROVE k \in Lengths
<1>1. CASE n = 0
  BY <1>1 DEF Lengths
<1>2. ASSUME NEW r \in Sizes, n \in 1 .. r PROVE k \in Lengths
  <2>1. r \in Nat
    BY SizesAre
  <2>2. k = 0 \/ k \in 1 .. r
    BY <1>2, <2>1
  <2> QED BY <2>2 DEF Lengths
<1> QED BY <1>1, <1>2 DEF Lengths

\* Contents are the sequences of blocks of these lengths.
LEMMA ContentsAre == \A f : f \in Contents <=> f \in Seq(Version) /\ Len(f) \in Lengths
<1>1. Contents = UNION {[1 .. s -> Version] : s \in Lengths}
  BY DEF Contents, Lengths
<1>2. ASSUME NEW f \in Contents PROVE f \in Seq(Version) /\ Len(f) \in Lengths
  <2>1. PICK s \in Lengths : f \in [1 .. s -> Version]
    BY <1>1
  <2>2. s \in Nat
    BY SizesAre
  <2> QED BY <2>1, <2>2
<1>3. ASSUME NEW f \in Seq(Version), Len(f) \in Lengths PROVE f \in Contents
  <2>1. f \in [1 .. Len(f) -> Version]
    OBVIOUS
  <2> QED BY <1>1, <1>3, <2>1
<1> QED BY <1>2, <1>3

LEMMA AbsentIs == Absent \in Contents /\ Len(Absent) = 0 /\ FileSized(Absent)
<1>1. Absent \in Seq(Version) /\ Len(Absent) = 0 /\ 0 \in Lengths
  BY DEF Absent, Lengths
<1> QED BY <1>1, ContentsAre DEF FileSized

LEMMA WholeIs ==
    ASSUME NEW v \in Version PROVE Whole(v) \in Contents /\ FileSized(Whole(v))
<1>1. Size[v] \in Sizes /\ Size[v] \in Nat
  BY VersionAssumption DEF Sizes
<1>2. Whole(v) \in Seq(Version) /\ Len(Whole(v)) = Size[v]
  BY <1>1 DEF Whole
<1> QED BY <1>1, <1>2, ContentsAre, SizesAre DEF FileSized

LEMMA IdleIs == Idle \in Session /\ \A p : Proceeds(Idle, p)
<1>1. NoEntry \in Entries
  BY AbsentIs DEF NoEntry, Entries
<1>2. Idle \in Session
  BY <1>1, AbsentIs DEF Idle, Session, Places
<1> QED BY <1>2 DEF Idle, Proceeds, EntrySized

\* The transfer ends at block k of the body, wherever it was resumed.
LEMMA Resumed ==
    ASSUME NEW p \in Contents, NEW b \in Contents, NEW k \in Len(p) .. Len(b)
    PROVE  p \o SubSeq(b, Len(p) + 1, k) \in Contents /\ Len(p \o SubSeq(b, Len(p) + 1, k)) = k
<1>1. p \in Seq(Version) /\ b \in Seq(Version) /\ Len(b) \in Lengths
  BY ContentsAre
<1>2. Len(p) \in Nat /\ Len(b) \in Nat /\ k \in 0 .. Len(b)
  BY <1>1
<1> DEFINE rest == SubSeq(b, Len(p) + 1, k)
<1>3. rest \in Seq(Version) /\ Len(rest) = k - Len(p)
  <2>1. Len(p) + 1 \in 1 .. Len(b) + 1 /\ Len(p) + 1 \in Int /\ k \in Int
    BY <1>2
  <2>2. CASE k = Len(p)
    <3>1. rest = <<>>
      BY <1>1, <1>2, <2>2
    <3> QED BY <1>2, <2>2, <3>1
  <2>3. CASE k # Len(p)
    <3>1. 1 <= Len(p) + 1 /\ Len(p) + 1 <= k /\ k <= Len(b)
      BY <1>2, <2>3
    <3> QED BY <1>1, <1>2, <3>1
  <2> QED BY <2>2, <2>3
<1> HIDE DEF rest
<1>4. p \o rest \in Seq(Version) /\ Len(p \o rest) = k
  BY <1>1, <1>2, <1>3
<1>5. k \in Lengths
  BY <1>1, <1>2, Shorter
<1>6. p \o rest \in Contents /\ Len(p \o rest) = k
  BY <1>4, <1>5, ContentsAre
<1> QED BY <1>6 DEF rest

---------------------------------------------------------------------------
(* The manifest. *)

\* The table of a node gets an entry, the stage of one of its tasks is set.
LEMMA TableSet ==
    ASSUME table \in [Node -> Entries], TablesSized, NEW n \in Node, NEW e \in Entries,
           EntrySized(e), table' = [table EXCEPT ![n] = e]
    PROVE  table' \in [Node -> Entries] /\ TablesSized'
BY DEF TablesSized

LEMMA BuilderSet ==
    ASSUME RamTyped, NEW n \in Node, NEW t \in Tasks,
           NEW b \in {"idle", "scan", "scanned", "built"},
           builder' = [builder EXCEPT ![n][t] = b]
    PROVE  builder' \in [Node -> [Tasks -> {"idle", "scan", "scanned", "built"}]]
BY DEF RamTyped

LEMMA NoEntryIs == NoEntry \in Entries /\ EntrySized(NoEntry)
BY AbsentIs DEF NoEntry, Entries, EntrySized

LEMMA BuildStarts ==
    ASSUME RamTyped, TablesSized, NEW n \in Node, NEW t \in Tasks, BuildStart(n, t),
           UNCHANGED dirty
    PROVE  RamTyped' /\ TablesSized'
<1>1. builder' \in [Node -> [Tasks -> {"idle", "scan", "scanned", "built"}]]
  BY BuilderSet DEF BuildStart
<1>2. table' \in [Node -> Entries] /\ TablesSized'
  <2>1. CASE dirty[n]
    BY <2>1, NoEntryIs, TableSet DEF BuildStart, RamTyped
  <2>2. CASE ~dirty[n]
    BY <2>2 DEF BuildStart, RamTyped, TablesSized
  <2> QED BY <2>1, <2>2
<1> QED BY <1>1, <1>2 DEF RamTyped

\* What is entered is the hash on record, or that of the file.
LEMMA Hashes ==
    ASSUME CardTyped, FilesSized, NEW n \in Node, media[n] # Absent
    PROVE  Len(media[n]) \in Sizes /\ Hash(n) \in Contents
BY DEF CardTyped, FilesSized, FileSized, Hash

---------------------------------------------------------------------------
(* The syncs. *)

\* The sync of one client moves on.
LEMMA SyncSet ==
    ASSUME SyncTyped, SyncsProceed, NEW c \in Node, NEW s \in Session,
           sync' = [sync EXCEPT ![c] = s], Proceeds(s, part'[c]),
           \A m \in Node \ {c} : part'[m] = part[m]
    PROVE  SyncTyped' /\ SyncsProceed'
<1>1. SyncTyped'
  BY DEF SyncTyped
<1>2. ASSUME NEW m \in Node PROVE Proceeds(sync'[m], part'[m])
  <2>1. CASE m = c
    BY <2>1 DEF SyncTyped
  <2>2. CASE m # c
    <3>1. sync'[m] = sync[m] /\ part'[m] = part[m] /\ Proceeds(sync[m], part[m])
      BY <2>2 DEF SyncTyped, SyncsProceed
    <3> QED BY <3>1
  <2> QED BY <2>1, <2>2
<1>3. SyncsProceed'
  BY <1>2 DEF SyncsProceed
<1> QED BY <1>1, <1>3

LEMMA LeaveSet ==
    ASSUME SyncTyped, SyncsProceed, NEW c \in Node, Leave(c),
           \A m \in Node \ {c} : part'[m] = part[m]
    PROVE  SyncTyped' /\ SyncsProceed'
BY IdleIs, SyncSet DEF Leave

\* It goes to another step.
LEMMA GotoSet ==
    ASSUME SyncTyped, SyncsProceed, NEW c \in Node, NEW step \in Places, Goto(c, step),
           step # "idle", sync[c].at # "idle",
           step \in {"pull", "stream", "unlink", "rename"} => sync[c].want.size \in Sizes,
           step \in {"unlink", "rename"} => Len(part'[c]) = sync[c].want.size,
           \A m \in Node \ {c} : part'[m] = part[m]
    PROVE  SyncTyped' /\ SyncsProceed'
<1> DEFINE s == [sync[c] EXCEPT !.at = step]
<1>0. sync[c] \in Session /\ Proceeds(sync[c], part[c])
  BY DEF SyncTyped, SyncsProceed
<1>1. sync' = [sync EXCEPT ![c] = s]
  BY DEF Goto
<1>2. s \in Session /\ s.at = step /\ s.host = sync[c].host /\ s.want = sync[c].want
  BY <1>0 DEF Session
<1> HIDE DEF s
<1>3. Proceeds(s, part'[c])
  BY <1>0, <1>2 DEF Proceeds
<1> QED BY <1>1, <1>2, <1>3, SyncSet

\* A pull is tried, whatever is left of an earlier one.
LEMMA PullSet ==
    ASSUME SyncTyped, SyncsProceed, NEW c \in Node, NEW i \in 0 .. 2,
           sync' = [sync EXCEPT ![c] = [sync[c] EXCEPT !.at = "pull", !.tries = i]],
           sync[c].at # "idle", sync[c].want.size \in Sizes,
           \A m \in Node \ {c} : part'[m] = part[m]
    PROVE  SyncTyped' /\ SyncsProceed'
<1> DEFINE s == [sync[c] EXCEPT !.at = "pull", !.tries = i]
<1>0. sync[c] \in Session /\ Proceeds(sync[c], part[c])
  BY DEF SyncTyped, SyncsProceed
<1>1. s \in Session /\ s.at = "pull" /\ s.host = sync[c].host /\ s.want = sync[c].want
  BY <1>0 DEF Session, Places
<1>2. sync' = [sync EXCEPT ![c] = s]
  OBVIOUS
<1> HIDE DEF s
<1>3. Proceeds(s, part'[c])
  BY <1>0, <1>1 DEF Proceeds
<1> QED BY <1>1, <1>2, <1>3, SyncSet

LEMMA FailedSet ==
    ASSUME SyncTyped, SyncsProceed, NEW c \in Node, Failed(c),
           sync[c].at # "idle", sync[c].want.size \in Sizes,
           \A m \in Node \ {c} : part'[m] = part[m]
    PROVE  SyncTyped' /\ SyncsProceed'
<1>1. CASE sync[c].tries = 2
  <2>1. sync' = [sync EXCEPT ![c] = [sync[c] EXCEPT !.at = "pull", !.tries = 1]]
    BY <1>1 DEF Failed
  <2>2. PICK i \in 0 .. 2 : i = 1
    OBVIOUS
  <2>3. sync' = [sync EXCEPT ![c] = [sync[c] EXCEPT !.at = "pull", !.tries = i]]
    BY <2>1, <2>2
  <2> QED BY <2>3, PullSet
<1>2. CASE sync[c].tries # 2
  <2>1. Leave(c)
    BY <1>2 DEF Failed, Leave
  <2> QED BY <2>1, LeaveSet
<1> QED BY <1>1, <1>2

---------------------------------------------------------------------------
(* The steps. *)

LEMMA Kept ==
    ASSUME Inv
    PROVE  /\ UNCHANGED media => media' \in [Node -> Contents] /\ FilesSized'
           /\ UNCHANGED card => CardTyped' /\ FilesSized'
           /\ UNCHANGED ram => RamTyped' /\ TablesSized'
           /\ UNCHANGED <<part, sync>> => SyncTyped' /\ SyncsProceed'
           /\ UNCHANGED world => WorldTyped'
BY DEF Inv, card, ram, world, CardTyped, FilesSized, RamTyped, TablesSized, SyncTyped,
       SyncsProceed, WorldTyped

\* The two tasks that build a manifest, and who asks for one.
LEMMA BuildStep ==
    ASSUME Inv, NEW n \in Node, NEW t \in Tasks, BuildScan(n, t) \/ BuildEnd(n, t)
    PROVE  Inv'
<1>0. /\ CardTyped /\ RamTyped /\ FilesSized /\ TablesSized
      /\ WorldTyped' /\ SyncTyped' /\ SyncsProceed'
  BY Kept DEF Inv, BuildScan, BuildEnd, card
<1>1. builder' \in [Node -> [Tasks -> {"idle", "scan", "scanned", "built"}]]
  BY <1>0, BuilderSet DEF BuildScan, BuildEnd
<1>2. CASE BuildScan(n, t)
  <2>1. CASE media[n] = Absent
    <3>1. UNCHANGED <<card, table, dirty>>
      BY <1>2, <2>1 DEF BuildScan, card
    <3> QED BY <1>0, <1>1, <3>1, Kept DEF Inv, card, RamTyped, TablesSized
  <2>2. CASE media[n] # Absent
    <3> DEFINE e == [size |-> Len(media[n]), sha |-> Hash(n)]
    <3>1. Len(media[n]) \in Sizes /\ Hash(n) \in Contents
      BY <1>0, <2>2, Hashes
    <3>2. e \in Entries /\ EntrySized(e)
      BY <3>1 DEF Entries, EntrySized
    <3>3. table' = [table EXCEPT ![n] = e] /\ UNCHANGED <<media, part, dirty>>
      BY <1>2, <2>2 DEF BuildScan
    <3>4. lines' \in [Node -> [Sizes -> Contents]]
      <4>1. [lines[n] EXCEPT ![Len(media[n])] = Hash(n)] \in [Sizes -> Contents]
        BY <1>0, <3>1, Zenon DEF CardTyped
      <4>2. lines' = [lines EXCEPT ![n] = [lines[n] EXCEPT ![Len(media[n])] = Hash(n)]]
        BY <1>2, <2>2 DEF BuildScan
      <4> QED BY <1>0, <4>1, <4>2, Zenon DEF CardTyped
    <3> HIDE DEF e
    <3>5. table' \in [Node -> Entries] /\ TablesSized'
      BY <1>0, <3>2, <3>3, TableSet DEF RamTyped
    <3>6. CardTyped' /\ RamTyped' /\ FilesSized'
      BY <1>0, <1>1, <3>3, <3>4, <3>5 DEF CardTyped, RamTyped, FilesSized
    <3> QED BY <1>0, <3>5, <3>6 DEF Inv
  <2> QED BY <2>1, <2>2
<1>3. CASE BuildEnd(n, t)
  <2>1. dirty' \in [Node -> BOOLEAN] /\ UNCHANGED <<card, table>>
    BY <1>0, <1>3 DEF BuildEnd, RamTyped
  <2> QED BY <1>0, <1>1, <2>1, Kept DEF Inv, RamTyped, TablesSized
<1> QED BY <1>2, <1>3

LEMMA StartStep ==
    ASSUME Inv, NEW c \in Node, NEW h \in Node, Start(c, h) PROVE Inv'
<1> DEFINE s == [Idle EXCEPT !.at = "ask", !.host = h]
<1>1. s \in Session /\ s.at = "ask" /\ s.host = h /\ s.want = NoEntry
  BY IdleIs DEF Session, Places, Idle
<1>2. sync' = [sync EXCEPT ![c] = s]
  BY DEF Start
<1> HIDE DEF s
<1>3. Proceeds(s, part'[c])
  BY <1>1 DEF Proceeds, EntrySized
<1>4. UNCHANGED <<card, dirty, world>> /\ BuildStart(h, "httpd") /\ "httpd" \in Tasks
  BY DEF Start, Tasks
<1>5. SyncTyped' /\ SyncsProceed'
  BY <1>1, <1>2, <1>3, <1>4, SyncSet DEF Inv, card
<1> QED BY <1>4, <1>5, BuildStarts, Kept DEF Inv

LEMMA BrowseStep ==
    ASSUME Inv, NEW n \in Node, Browse(n) PROVE Inv'
<1>1. UNCHANGED <<card, dirty, sync, world>> /\ BuildStart(n, "httpd") /\ "httpd" \in Tasks
  BY DEF Browse, Tasks
<1> QED BY <1>1, BuildStarts, Kept DEF Inv, card

\* Everyone that asked gets the table, which has the size of a version or says that
\* there is no file.
LEMMA AnswerStep ==
    ASSUME Inv, NEW h \in Node, Answer(h) PROVE Inv'
<1>0. /\ RamTyped /\ SyncTyped /\ SyncsProceed /\ UNCHANGED <<card, table, dirty, world>>
      /\ table[h] \in Entries /\ EntrySized(table[h])
  BY DEF Inv, Answer, RamTyped, TablesSized
<1>1. ASSUME NEW c \in Node PROVE sync'[c] \in Session /\ Proceeds(sync'[c], part'[c])
  <2>1. sync[c] \in Session /\ Proceeds(sync[c], part[c]) /\ part'[c] = part[c]
    BY <1>0 DEF SyncTyped, SyncsProceed, card
  <2>2. CASE At(c, "ask") /\ sync[c].host = h
    <3> DEFINE s == [sync[c] EXCEPT !.at = "own", !.want = table[h]]
    <3>1. sync'[c] = s
      BY <2>2 DEF Answer
    <3>2. s \in Session /\ s.at = "own" /\ s.host = h /\ s.want = table[h]
      BY <1>0, <2>1, <2>2 DEF Session, Places
    <3> HIDE DEF s
    <3> QED BY <1>0, <3>1, <3>2 DEF Proceeds
  <2>3. CASE ~(At(c, "ask") /\ sync[c].host = h)
    <3>1. sync'[c] = sync[c]
      BY <2>3 DEF Answer
    <3> QED BY <2>1, <3>1
  <2> QED BY <2>2, <2>3
<1>2. SyncTyped' /\ SyncsProceed'
  <2>1. sync' \in [Node -> Session]
    BY <1>1 DEF Answer
  <2> QED BY <1>1, <2>1 DEF SyncTyped, SyncsProceed
<1>3. builder' \in [Node -> [Tasks -> {"idle", "scan", "scanned", "built"}]]
  BY <1>0, BuilderSet DEF Answer, Tasks
<1>4. RamTyped' /\ TablesSized'
  BY <1>0, <1>3 DEF Inv, RamTyped, TablesSized
<1> QED BY <1>0, <1>2, <1>4, Kept DEF Inv

\* The client: its own manifest, the comparison, the transfer and the publication.
LEMMA AskedStep ==
    ASSUME Inv, NEW c \in Node, OwnManifest(c) \/ NoManifest(c) \/ Diff(c) PROVE Inv'
<1>0. /\ RamTyped /\ SyncTyped /\ SyncsProceed /\ TablesSized /\ "console" \in Tasks
      /\ sync[c] \in Session /\ Proceeds(sync[c], part[c])
  BY DEF Inv, SyncTyped, SyncsProceed, Tasks
<1>1. UNCHANGED <<card, world>>
  BY DEF OwnManifest, NoManifest, Diff
<1>2. CASE OwnManifest(c)
  <2>1. SyncTyped' /\ SyncsProceed'
    BY <1>0, <1>1, <1>2, GotoSet DEF OwnManifest, At, Places, card
  <2>2. RamTyped' /\ TablesSized'
    BY <1>0, <1>2, BuildStarts DEF OwnManifest
  <2> QED BY <1>1, <2>1, <2>2, Kept DEF Inv
<1>3. CASE NoManifest(c)
  <2>1. SyncTyped' /\ SyncsProceed' /\ UNCHANGED ram
    BY <1>0, <1>1, <1>3, LeaveSet DEF NoManifest, card
  <2> QED BY <1>1, <2>1, Kept DEF Inv
<1>4. CASE Diff(c)
  <2>1. builder' \in [Node -> [Tasks -> {"idle", "scan", "scanned", "built"}]]
    BY <1>0, <1>4, BuilderSet DEF Diff
  <2>2. RamTyped' /\ TablesSized'
    BY <1>0, <1>4, <2>1 DEF Diff, RamTyped, TablesSized
  <2>3. CASE Leave(c)
    <3>1. SyncTyped' /\ SyncsProceed'
      BY <1>0, <1>1, <2>3, LeaveSet DEF card
    <3> QED BY <1>1, <2>2, <3>1, Kept DEF Inv
  <2>4. CASE ~Leave(c)
    <3>1. sync[c].at # "idle" /\ sync[c].want.size \in Sizes
      BY <1>0, <1>4, <2>4 DEF Diff, At, Proceeds, EntrySized
    <3>2. PICK i \in 0 .. 2 : i = 2
      OBVIOUS
    <3>3. sync' = [sync EXCEPT ![c] = [sync[c] EXCEPT !.at = "pull", !.tries = 2]]
      BY <1>0, <1>4, <2>4 DEF Diff, SyncTyped
    <3>4. sync' = [sync EXCEPT ![c] = [sync[c] EXCEPT !.at = "pull", !.tries = i]]
      BY <3>2, <3>3
    <3>5. SyncTyped' /\ SyncsProceed'
      BY <1>0, <1>1, <3>1, <3>4, PullSet DEF card
    <3> QED BY <1>1, <2>2, <3>5, Kept DEF Inv
  <2> QED BY <2>3, <2>4
<1> QED BY <1>2, <1>3, <1>4

LEMMA OpenStep ==
    ASSUME Inv, NEW c \in Node, Open(c) PROVE Inv'
<1> DEFINE kept == IF Len(part[c]) > sync[c].want.size THEN Absent ELSE part[c]
<1>0. /\ CardTyped /\ SyncTyped /\ SyncsProceed /\ UNCHANGED <<media, lines, ram, world>>
      /\ sync[c] \in Session /\ Proceeds(sync[c], part[c]) /\ sync[c].at = "pull"
      /\ sync[c].host \in Node /\ sync[c].want.size \in Sizes
  BY DEF Inv, SyncTyped, SyncsProceed, Open, At, Proceeds
<1>1. part' = [part EXCEPT ![c] = kept] /\ kept \in Contents
  BY <1>0, AbsentIs DEF Open, CardTyped
<1>2. \/ Failed(c)
      \/ sync' = [sync EXCEPT ![c] = [sync[c] EXCEPT !.at = "stream", !.body = media[sync[c].host]]]
  BY <1>0 DEF Open, SyncTyped
<1> HIDE DEF kept
<1>3. CardTyped' /\ FilesSized' /\ \A m \in Node \ {c} : part'[m] = part[m]
  BY <1>0, <1>1 DEF Inv, CardTyped, FilesSized
<1>4. CASE Failed(c)
  <2>1. SyncTyped' /\ SyncsProceed'
    BY <1>0, <1>3, <1>4, FailedSet
  <2> QED BY <1>0, <1>3, <2>1, Kept DEF Inv
<1>5. CASE sync' = [sync EXCEPT ![c] =
                       [sync[c] EXCEPT !.at = "stream", !.body = media[sync[c].host]]]
  <2> DEFINE s == [sync[c] EXCEPT !.at = "stream", !.body = media[sync[c].host]]
  <2>1. s \in Session /\ s.at = "stream" /\ s.host = sync[c].host /\ s.want = sync[c].want
    BY <1>0 DEF Session, Places, CardTyped
  <2>2. sync' = [sync EXCEPT ![c] = s]
    BY <1>5
  <2> HIDE DEF s
  <2>3. Proceeds(s, part'[c])
    BY <1>0, <2>1 DEF Proceeds
  <2>4. SyncTyped' /\ SyncsProceed'
    BY <1>0, <1>3, <2>1, <2>2, <2>3, SyncSet
  <2> QED BY <1>0, <1>3, <2>4, Kept DEF Inv
<1> QED BY <1>2, <1>4, <1>5

\* Only a .part of the announced size goes on to replace the file.
LEMMA CloseStep ==
    ASSUME Inv, NEW c \in Node, NEW k \in 0 .. Len(sync[c].body), Close(c, k) PROVE Inv'
<1> DEFINE p == part[c] \o SubSeq(sync[c].body, Len(part[c]) + 1, k)
<1>0. /\ CardTyped /\ SyncTyped /\ SyncsProceed /\ UNCHANGED <<media, lines, ram, world>>
      /\ sync[c] \in Session /\ Proceeds(sync[c], part[c]) /\ sync[c].at = "stream"
      /\ sync[c].want.size \in Sizes /\ k \in Len(part[c]) .. Len(sync[c].body)
  BY DEF Inv, SyncTyped, SyncsProceed, Close, At, Proceeds
<1>1. part[c] \in Contents /\ sync[c].body \in Contents
  BY <1>0 DEF CardTyped, Session
<1>2. p \in Contents /\ Len(p) = k
  BY <1>0, <1>1, Resumed
<1>3. part' = [part EXCEPT ![c] = p]
  BY <1>0 DEF Close, CardTyped
<1> HIDE DEF p
<1>4. /\ CardTyped' /\ FilesSized' /\ part'[c] = p
      /\ \A m \in Node \ {c} : part'[m] = part[m]
  BY <1>0, <1>2, <1>3 DEF Inv, CardTyped, FilesSized
<1>5. CASE k = sync[c].want.size
  <2>1. Goto(c, "unlink") /\ "unlink" \in Places
    BY <1>5 DEF Close, Places
  <2>2. SyncTyped' /\ SyncsProceed'
    BY <1>0, <1>2, <1>4, <1>5, <2>1, GotoSet
  <2> QED BY <1>0, <1>4, <2>2, Kept DEF Inv
<1>6. CASE k # sync[c].want.size
  <2>1. Failed(c)
    BY <1>6 DEF Close
  <2>2. SyncTyped' /\ SyncsProceed'
    BY <1>0, <1>4, <2>1, FailedSet
  <2> QED BY <1>0, <1>4, <2>2, Kept DEF Inv
<1> QED BY <1>5, <1>6

LEMMA PublishStep ==
    ASSUME Inv, NEW c \in Node, Unlink(c) \/ Rename(c) PROVE Inv'
<1>0. /\ CardTyped /\ RamTyped /\ SyncTyped /\ SyncsProceed /\ FilesSized
      /\ Proceeds(sync[c], part[c]) /\ sync[c].at \in {"unlink", "rename"}
      /\ sync[c].want.size \in Sizes /\ Len(part[c]) = sync[c].want.size
      /\ UNCHANGED <<lines, table, builder, world>>
      /\ part[c] \in Contents
  BY DEF Inv, CardTyped, SyncsProceed, Unlink, Rename, At, Proceeds, ram
<1>1. ASSUME NEW f \in Contents, FileSized(f), media' = [media EXCEPT ![c] = f]
      PROVE  media' \in [Node -> Contents] /\ FilesSized'
  BY <1>0, <1>1 DEF CardTyped, FilesSized
<1>2. CASE Unlink(c)
  <2>1. media' \in [Node -> Contents] /\ FilesSized'
    BY <1>1, <1>2, AbsentIs DEF Unlink
  <2>2. UNCHANGED <<part, ram>> /\ Goto(c, "rename") /\ "rename" \in Places
    BY <1>2 DEF Unlink, Places
  <2>3. SyncTyped' /\ SyncsProceed'
    BY <1>0, <2>2, GotoSet
  <2> QED BY <1>0, <2>1, <2>2, <2>3, Kept DEF Inv, CardTyped
<1>3. CASE Rename(c)
  <2>1. FileSized(part[c])
    BY <1>0 DEF FileSized
  <2>2. media' \in [Node -> Contents] /\ FilesSized'
    BY <1>0, <1>1, <1>3, <2>1 DEF Rename
  <2>3. part' \in [Node -> Contents] /\ \A m \in Node \ {c} : part'[m] = part[m]
    BY <1>0, <1>3, AbsentIs DEF Rename, CardTyped
  <2>4. dirty' \in [Node -> BOOLEAN]
    BY <1>0, <1>3 DEF Rename, RamTyped
  <2>5. SyncTyped' /\ SyncsProceed'
    BY <1>0, <1>3, <2>3, LeaveSet DEF Rename
  <2>6. RamTyped' /\ TablesSized'
    BY <1>0, <2>4 DEF Inv, RamTyped, TablesSized
  <2> QED BY <1>0, <2>2, <2>3, <2>5, <2>6, Kept DEF Inv, CardTyped
<1> QED BY <1>2, <1>3

\* What goes wrong.
LEMMA TroubleStep ==
    ASSUME Inv,
           \/ \E n \in Node : PowerLoss(n)
           \/ \E n \in Node, v \in Version : Edit(n, v)
           \/ BecomeCalm
    PROVE  Inv'
<1>0. CardTyped /\ RamTyped /\ SyncTyped /\ SyncsProceed /\ FilesSized /\ TablesSized
  BY DEF Inv
<1>1. WorldTyped'
  <2>1. trouble' \in 0 .. MaxTrouble
    BY BoundAssumption DEF Inv, WorldTyped, PowerLoss, Edit, Trouble, BecomeCalm
  <2>2. calm' \in BOOLEAN
    BY Zenon DEF Inv, WorldTyped, PowerLoss, Edit, Trouble, BecomeCalm
  <2> QED BY <2>1, <2>2 DEF WorldTyped
<1>2. ASSUME NEW n \in Node, PowerLoss(n) PROVE Inv'
  <2>1. table' \in [Node -> Entries] /\ TablesSized'
    BY <1>0, <1>2, NoEntryIs, TableSet DEF PowerLoss, RamTyped
  <2>2. dirty' \in [Node -> BOOLEAN]
    BY <1>0, <1>2 DEF PowerLoss, RamTyped
  <2>3. builder' \in [Node -> [Tasks -> {"idle", "scan", "scanned", "built"}]]
    <3>1. [t \in Tasks |-> "idle"] \in [Tasks -> {"idle", "scan", "scanned", "built"}]
      OBVIOUS
    <3> QED BY <1>0, <1>2, <3>1 DEF PowerLoss, RamTyped
  <2>4. UNCHANGED card /\ Leave(n)
    BY <1>2 DEF PowerLoss
  <2>5. SyncTyped' /\ SyncsProceed'
    BY <1>0, <2>4, LeaveSet DEF card
  <2> QED BY <1>1, <2>1, <2>2, <2>3, <2>4, <2>5, Kept DEF Inv, RamTyped
<1>3. ASSUME NEW n \in Node, NEW v \in Version, Edit(n, v) PROVE Inv'
  <2>1. media' \in [Node -> Contents] /\ FilesSized'
    BY <1>0, <1>3, WholeIs DEF Edit, CardTyped, FilesSized
  <2>2. dirty' \in [Node -> BOOLEAN] /\ UNCHANGED <<part, lines, table, builder, sync>>
    BY <1>0, <1>3 DEF Edit, RamTyped
  <2>3. RamTyped' /\ TablesSized'
    BY <1>0, <2>2 DEF RamTyped, TablesSized
  <2>4. CardTyped'
    BY <1>0, <2>1, <2>2 DEF CardTyped
  <2> QED BY <1>1, <2>1, <2>2, <2>3, <2>4, Kept DEF Inv
<1>4. CASE BecomeCalm
  <2>1. UNCHANGED <<card, ram, part, sync>>
    BY <1>4 DEF BecomeCalm, card
  <2> QED BY <1>1, <2>1, Kept DEF Inv
<1> QED BY <1>2, <1>3, <1>4

---------------------------------------------------------------------------
(* The theorems. *)

LEMMA InitInv == ASSUME Init PROVE Inv
<1>1. ASSUME NEW n \in Node PROVE media[n] \in Contents /\ FileSized(media[n])
  <2>1. Held[n] \in Version \cup {0} /\ media[n] = IF Held[n] = 0 THEN Absent ELSE Whole(Held[n])
    BY NodeAssumption DEF Init
  <2>2. CASE Held[n] = 0
    BY <2>1, <2>2, AbsentIs
  <2>3. CASE Held[n] # 0
    BY <2>1, <2>3, WholeIs
  <2> QED BY <2>2, <2>3
<1>2. CardTyped /\ FilesSized
  <2>1. media \in [Node -> Contents]
    BY <1>1 DEF Init
  <2>2. [s \in Sizes |-> Absent] \in [Sizes -> Contents]
    BY AbsentIs
  <2>3. part \in [Node -> Contents] /\ lines \in [Node -> [Sizes -> Contents]]
    BY <2>2, AbsentIs DEF Init
  <2> QED BY <1>1, <2>1, <2>3 DEF CardTyped, FilesSized
<1>3. RamTyped /\ TablesSized
  BY NoEntryIs DEF Init, RamTyped, TablesSized
<1>4. SyncTyped /\ SyncsProceed
  BY IdleIs DEF Init, SyncTyped, SyncsProceed
<1>5. WorldTyped
  <2>1. trouble \in 0 .. MaxTrouble
    BY BoundAssumption DEF Init
  <2> QED BY <2>1, Zenon DEF Init, WorldTyped
<1> QED BY <1>2, <1>3, <1>4, <1>5 DEF Inv

LEMMA InvHolds == Spec => []Inv
<1>1. Init => Inv
  BY InitInv
<1>2. Inv /\ [Next]_vars => Inv'
  <2> SUFFICES ASSUME Inv, [Next]_vars PROVE Inv'
    OBVIOUS
  <2>1. CASE UNCHANGED vars
    BY <2>1, Kept DEF Inv, vars, card, ram, world
  <2>2. ASSUME NEW c \in Node, Proceed(c) PROVE Inv'
    BY <2>2, AskedStep, OpenStep, CloseStep, PublishStep DEF Proceed
  <2>3. ASSUME NEW n \in Node, Browse(n) \/ PowerLoss(n) PROVE Inv'
    BY <2>3, BrowseStep, TroubleStep
  <2>4. ASSUME NEW n \in Node, NEW t \in Tasks, Serve(n, t) PROVE Inv'
    BY <2>4, BuildStep, AnswerStep DEF Serve
  <2> QED BY <2>1, <2>2, <2>3, <2>4, StartStep, TroubleStep DEF Next
<1> QED BY <1>1, <1>2, PTL DEF Spec

\* Whatever is cut, lost or edited, what is on the cards, in the tables and in a
\* transfer is made of blocks of versions, no longer than a version.
THEOREM TypeCorrect == Spec => []TypeOK
<1>1. Inv => TypeOK
  BY DEF Inv, TypeOK, CardTyped, RamTyped, SyncTyped, WorldTyped, Session
<1> QED BY <1>1, InvHolds, PTL

\* A file under its final name always has the size of a version some owner put on a card:
\* a shorter .part is never published, whatever is cut, resumed, lost or edited meanwhile.
THEOREM NothingTruncated == Spec => []NeverTruncated
<1>1. Inv => NeverTruncated
  BY DEF Inv, FilesSized, FileSized, NeverTruncated
<1> QED BY <1>1, InvHolds, PTL
=============================================================================
