---------------------------- MODULE WhLink_proofs ----------------------------
(***************************************************************************)
(* The link for any margin, stride, window and number of frames, pairings  *)
(* and lost connections: no counter is used twice under one key, the       *)
(* replay window is exact, and every delivered message is one that was     *)
(* sent.  What the handshake says in its frames does not matter to these:  *)
(* an end's own random value makes its key its own.                        *)
(***************************************************************************)
EXTENDS WhLink, FiniteSetTheorems, FunctionTheorems, SequenceTheorems, TLAPS

---------------------------------------------------------------------------
(* Types. *)

States == {"idle", "sentReq", "sentResp", "sentNa", "awaitSas", "established", "failed"}
Commits == SUBSET ({"nr", "pkr", "pki"} \X Draw)
PairType == [state : States, init : BOOLEAN, t : Transcript, commit : Commits]
SessType == [est : BOOLEAN, key : Key, ctr : Nat, seen : BOOLEAN, max : Nat,
             bits : SUBSET (0 .. Window - 1)]
ReasmType == [active : BOOLEAN, msg : Nat, total : Nat, parts : SUBSET Nat]
SendType == [mid : Nat, msg : Nat, next : Nat, total : Nat]
SealedType == [from : End, key : Key, seq : Nat, mid : Nat, msg : Nat, frag : Nat, total : Nat]
Frame == [kind : {"REQ"}, pk : Draw] \cup [kind : {"RESP"}, pk : Draw, commit : Commits]
         \cup [kind : {"NA", "NB"}, n : Draw] \cup [kind : {"SEALED"}, u : Nat]

Typed ==
    /\ pair \in [End -> PairType] /\ sess \in [End -> SessType] /\ reasm \in [End -> ReasmType]
    /\ nextMsg \in [End -> Nat \ {0}] /\ sending \in [End -> SendType]
    /\ saved \in [End -> Blob] /\ since \in [End -> 0 .. Stride - 1]
    /\ overrun \in BOOLEAN /\ drawn \in Draw /\ up \in BOOLEAN /\ cuts \in 0 .. MaxCuts
    /\ net \in [End -> SUBSET Frame]
    /\ sealed \in Seq(SealedType) /\ Len(sealed) <= MaxSealed
    /\ opened \in [1 .. MaxSealed -> Nat]
    /\ shown \in [End -> Transcript]

---------------------------------------------------------------------------
(* The inductive invariant. *)

\* The random value an end put into a key it sends under.
Own(k) == IF k.dir = "i2r" THEN k.t.pki ELSE k.t.pkr

Pairing(e) == pair[e].state \in {"sentReq", "sentResp", "sentNa", "awaitSas"}
Pledge(e) == Own(TxKey(pair[e]))

\* The sealed frames on their way to e, or there already.
Frames(e) == {u \in Nat : [kind |-> "SEALED", u |-> u] \in net[e]}

\* e sends under k, may again after a restart, has done so, or has opened a frame of this
\* connection under its opposite.
Uses(e, k) ==
    \/ sess[e].est /\ sess[e].key = k
    \/ saved[e].has /\ saved[e].key = k
    \/ \E u \in 1 .. Len(sealed) : sealed[u].from = e /\ sealed[u].key = k
    \/ \E u \in Frames(e) : opened[u] > 0 /\ k = Opposite(sealed[u].key)

\* Who asks for a pairing is its initiator.
Roles == \A e \in End : pair[e].state = "sentReq" => pair[e].init

\* Between two connections nothing is on its way and nobody can send.
Quiet == ~up => \A e \in End : net[e] = {} /\ ~sess[e].est /\ ~Pairing(e)

\* A key belongs to one end, and a pairing under way leads to a key that nobody has used.
KeysApart ==
    /\ \A e \in End : Pairing(e) => Pledge(e) \in 1 .. drawn
    /\ \A e, f \in End : Pairing(e) /\ Pairing(f) /\ Pledge(e) = Pledge(f) => e = f
    /\ \A e \in End, k \in Key : Uses(e, k) => Own(k) <= drawn
    /\ \A e, f \in End, k \in Key : Uses(e, k) /\ Pairing(f) => Own(k) # Pledge(f)
    /\ \A e, f \in End, k \in Key : Uses(e, k) /\ Uses(f, k) => e = f

\* A session in use has been saved, and every frame that was counted went out after that.
Backed(e) ==
    sess[e].est => /\ saved[e].has /\ saved[e].key = sess[e].key
                   /\ sess[e].ctr >= saved[e].ctr + since[e]

\* What has been sealed lies below the counter, and below the one a restart would jump to.
Ahead(e) ==
    /\ sess[e].est => sess[e].ctr - saved[e].ctr - since[e] <= Margin - Stride
    /\ \A u \in 1 .. Len(sealed) :
          /\ sess[e].est /\ sealed[u].key = sess[e].key => sealed[u].seq < sess[e].ctr
          /\ saved[e].has /\ saved[e].key = sealed[u].key
                => sealed[u].seq < saved[e].ctr + Margin

CountersAhead == \A e \in End : Backed(e) /\ (~overrun => Ahead(e))

\* What the window says of number q: it was received, or is too old to tell.
Known(s, q) == s.seen /\ q <= s.max /\ (s.max - q < Window => s.max - q \in s.bits)

\* The window knows what was opened in this session, and nothing else.
WindowKnows ==
    /\ \A u \in 1 .. MaxSealed : opened[u] <= 1 /\ (u > Len(sealed) => opened[u] = 0)
    /\ \A e \in End : sess[e].est =>
        /\ \A u \in Frames(e) :
             opened[u] > 0 /\ sealed[u].key = Opposite(sess[e].key)
             => Known(sess[e], sealed[u].seq)
        /\ \A d \in sess[e].bits : \E u \in 1 .. Len(sealed) :
             opened[u] > 0 /\ sealed[u].key = Opposite(sess[e].key)
             /\ sealed[u].seq = sess[e].max - d

SameMessage(u, v) == sealed[u].mid = sealed[v].mid /\ sealed[u].total = sealed[v].total

\* Frames of one connection that bear one message number are of one message.
NumbersTell ==
    \A e \in End :
        /\ \A u \in Frames(e) :
             /\ u \in 1 .. Len(sealed) /\ sealed[u].from = Peer(e)
             /\ sealed[u].msg < nextMsg[Peer(e)] /\ sealed[u].frag \in 1 .. sealed[u].total
        /\ \A u, v \in Frames(e) : sealed[u].msg = sealed[v].msg => SameMessage(u, v)
        /\ sending[e] # Idle =>
             /\ sending[e].msg < nextMsg[e] /\ sending[e].next \in 1 .. sending[e].total
             /\ \A u \in Frames(Peer(e)) : sealed[u].msg = sending[e].msg
                  => sealed[u].mid = sending[e].mid /\ sealed[u].total = sending[e].total

\* The fragments in the buffer are different ones of the message it is for, and some are
\* missing.
BufferHolds ==
    \A e \in End :
        /\ reasm[e].parts \subseteq 1 .. Len(sealed)
        /\ reasm[e].active =>
             /\ reasm[e].parts \subseteq Frames(e)
             /\ Cardinality(reasm[e].parts) < reasm[e].total
             /\ \A v \in reasm[e].parts :
                  sealed[v].msg = reasm[e].msg /\ sealed[v].total = reasm[e].total
             /\ \A v, w \in reasm[e].parts : sealed[v].frag = sealed[w].frag => v = w

\* A message that was delivered.
Complete(m) ==
    /\ m \subseteq 1 .. Len(sealed)
    /\ \A u, v \in m : SameMessage(u, v)
    /\ \A u \in m : {sealed[v].frag : v \in m} = 1 .. sealed[u].total
    /\ m # {}

Delivered == \A m \in messages : Complete(m)

Inv ==
    /\ Typed /\ Roles /\ Quiet /\ KeysApart /\ CounterOnce /\ CountersAhead
    /\ WindowKnows /\ NumbersTell /\ BufferHolds /\ Delivered
---------------------------------------------------------------------------
(* The operators. *)

\* The other end.
LEMMA PeerIsOther ==
    \A e \in End : /\ Peer(e) \in End /\ Peer(e) # e /\ Peer(Peer(e)) = e
                   /\ \A f \in End : f # e => f = Peer(e)
<1>1. IsFiniteSet(End) /\ Cardinality(End) = 2
  BY LinkAssumption
<1>2. PICK b \in [1 .. 2 -> End] : \A x \in End : \E i \in 1 .. 2 : b[i] = x
  BY <1>1, FS_CardinalityType DEF ExistsBijection, Bijection, Surjection
<1>3. End = {b[1], b[2]}
  BY <1>2
<1>4. b[1] # b[2]
  BY <1>1, <1>3, FS_Singleton
<1>5. ASSUME NEW e \in End
      PROVE  /\ Peer(e) \in End /\ Peer(e) # e
             /\ \A f \in End : f # e => f = Peer(e)
  BY <1>3, <1>4 DEF Peer
<1> QED BY <1>5

\* What a proof uses of the constants.
LEMMA Sizes ==
    /\ Margin \in Nat /\ Stride \in Nat /\ Stride >= 1 /\ Stride < Margin
    /\ Window \in Nat /\ Window >= 1 /\ MaxFresh \in Nat /\ MaxSealed \in Nat
    /\ MaxCuts \in Nat /\ FragMax \in Nat
BY LinkAssumption

\* Keys, their opposites and what an end puts into them.
LEMMA KeyTypes ==
    /\ \A k \in Key : Opposite(k) \in Key /\ Opposite(Opposite(k)) = k /\ Own(k) \in Draw
    /\ NoTranscript \in Transcript /\ NoKey \in Key
    /\ \A p \in PairType : TxKey(p) \in Key
<1>1. NoTranscript \in Transcript /\ NoKey \in Key
  BY Sizes DEF NoTranscript, Transcript, NoKey, Key, Draw
<1>4. ASSUME NEW t, NEW d
      PROVE  Opposite([t |-> t, dir |-> d])
               = [t |-> t, dir |-> IF d = "i2r" THEN "r2i" ELSE "i2r"]
  BY DEF Opposite
<1>2. ASSUME NEW k \in Key
      PROVE  Opposite(k) \in Key /\ Opposite(Opposite(k)) = k /\ Own(k) \in Draw
  <2>1. k.t \in Transcript /\ k.dir \in {"i2r", "r2i"} /\ k = [t |-> k.t, dir |-> k.dir]
    BY DEF Key
  <2>2. Opposite(k) = [t |-> k.t, dir |-> IF k.dir = "i2r" THEN "r2i" ELSE "i2r"]
    BY <1>4, <2>1
  <2>3. Opposite(k) \in Key
    BY <2>1, <2>2 DEF Key
  <2>4. Opposite(Opposite(k)) = [t |-> k.t, dir |-> k.dir]
    BY <1>4, <2>1, <2>2
  <2>5. Own(k) \in Draw
    BY <2>1 DEF Own, Transcript
  <2> QED BY <2>1, <2>3, <2>4, <2>5
<1>3. ASSUME NEW p \in PairType PROVE TxKey(p) \in Key
  BY DEF TxKey, PairType, Key
<1> QED BY <1>1, <1>2, <1>3

\* The values variables start from.
LEMMA BlankTypes ==
    /\ NoPair \in PairType /\ NoSess \in SessType /\ NoReasm \in ReasmType
    /\ Idle \in SendType /\ NoBlob \in Blob /\ \A e \in End : OldBlob(e) \in Blob
<1>1. NoPair \in PairType
  BY KeyTypes DEF NoPair, PairType, States, Commits
<1>2. NoSess \in SessType
  BY KeyTypes DEF NoSess, SessType
<1>3. NoReasm \in ReasmType /\ Idle \in SendType
  BY DEF NoReasm, ReasmType, Idle, SendType
<1>4. NoBlob \in Blob
  BY KeyTypes DEF NoBlob, Blob
<1>5. ASSUME NEW e \in End PROVE OldBlob(e) \in Blob
  BY KeyTypes DEF OldBlob, NoBlob, Blob, NoKey, Key
<1> QED BY <1>1, <1>2, <1>3, <1>4, <1>5

\* A frame is what its kind says.
LEMMA FrameShapes ==
    ASSUME NEW f \in Frame
    PROVE  /\ f.kind = "REQ" => f.pk \in Draw
           /\ f.kind = "RESP" => f.pk \in Draw /\ f.commit \in Commits
           /\ f.kind \in {"NA", "NB"} => f.n \in Draw
           /\ f.kind = "SEALED" => f.u \in Nat /\ f = [kind |-> "SEALED", u |-> f.u]
<1>1. CASE f \in [kind : {"REQ"}, pk : Draw]
  BY <1>1
<1>2. CASE f \in [kind : {"RESP"}, pk : Draw, commit : Commits]
  BY <1>2
<1>3. CASE f \in [kind : {"NA", "NB"}, n : Draw]
  BY <1>3
<1>4. CASE f \in [kind : {"SEALED"}, u : Nat]
  BY <1>4
<1> QED BY <1>1, <1>2, <1>3, <1>4 DEF Frame

\* An element of the history of sealed frames.
LEMMA SealedTypes ==
    ASSUME Typed
    PROVE  Len(sealed) \in Nat /\ \A u \in 1 .. Len(sealed) : sealed[u] \in SealedType
BY LenProperties DEF Typed
---------------------------------------------------------------------------
(* Keys. *)

\* Whose key is whose stays settled when nobody begins a pairing or takes a key into use.
LEMMA KeysKept ==
    ASSUME KeysApart, drawn' = drawn,
           \A e \in End, k \in Key : Uses(e, k)' => Uses(e, k),
           \A e \in End : Pairing(e)' => Pairing(e) /\ Pledge(e)' = Pledge(e)
    PROVE  KeysApart'
BY DEF KeysApart

\* An end that begins a pairing draws a value nobody has.
LEMMA KeysDrawn ==
    ASSUME Typed, KeysApart, NEW e \in End, drawn' = drawn + 1,
           \A f \in End, k \in Key : Uses(f, k)' <=> Uses(f, k),
           \A f \in End : f # e => (Pairing(f)' <=> Pairing(f)) /\ Pledge(f)' = Pledge(f),
           Pairing(e)', Pledge(e)' = drawn + 1
    PROVE  KeysApart'
<1>1. drawn \in Nat
  BY DEF Typed, Draw
<1>2. \A f \in End, k \in Key : Uses(f, k) => Own(k) <= drawn /\ Own(k) \in Int
  BY KeyTypes DEF KeysApart, Draw
<1>3. \A f \in End : Pairing(f) => Pledge(f) \in 1 .. drawn
  BY DEF KeysApart
<1>4. \A f \in End : Pairing(f)' => Pledge(f)' \in 1 .. drawn'
  BY <1>1, <1>3
<1>5. \A f, g \in End : Pairing(f)' /\ Pairing(g)' /\ Pledge(f)' = Pledge(g)' => f = g
  <2> SUFFICES ASSUME NEW f \in End, NEW g \in End, Pairing(f)', Pairing(g)',
                      Pledge(f)' = Pledge(g)', f # g
               PROVE  FALSE
    OBVIOUS
  <2>1. CASE f # e /\ g # e
    BY <2>1 DEF KeysApart
  <2>2. CASE f = e
    BY <1>1, <1>3, <2>2
  <2>3. CASE g = e
    BY <1>1, <1>3, <2>3
  <2> QED BY <2>1, <2>2, <2>3
<1>6. \A f \in End, k \in Key : Uses(f, k)' => Own(k) <= drawn'
  BY <1>1, <1>2
<1>7. \A f, g \in End, k \in Key : Uses(f, k)' /\ Pairing(g)' => Own(k) # Pledge(g)'
  <2> SUFFICES ASSUME NEW f \in End, NEW g \in End, NEW k \in Key, Uses(f, k), Pairing(g)'
               PROVE  Own(k) # Pledge(g)'
    OBVIOUS
  <2>1. CASE g = e
    BY <1>1, <1>2, <2>1
  <2>2. CASE g # e
    BY <2>2 DEF KeysApart
  <2> QED BY <2>1, <2>2
<1>8. \A f, g \in End, k \in Key : Uses(f, k)' /\ Uses(g, k)' => f = g
  BY DEF KeysApart
<1> QED BY <1>4, <1>5, <1>6, <1>7, <1>8 DEF KeysApart

\* Keys in use are those of the session, the flash and the frames.
LEMMA UsesUnchanged ==
    ASSUME UNCHANGED <<sess, saved, sealed, opened>>, \A e \in End : Frames(e)' = Frames(e)
    PROVE  \A e \in End, k \in Key : Uses(e, k)' <=> Uses(e, k)
BY DEF Uses

---------------------------------------------------------------------------
(* The handshake. *)

\* A handshake frame is put on its way; the sealed ones stay what they are.
LEMMA PutFrame ==
    ASSUME Typed, NEW e \in End, NEW f \in Frame, f.kind # "SEALED", Put(e, f)
    PROVE  net' \in [End -> SUBSET Frame] /\ \A g \in End : Frames(g)' = Frames(g)
<1>1. Peer(e) \in End /\ net \in [End -> SUBSET Frame]
  BY PeerIsOther DEF Typed
<1>2. net' = [net EXCEPT ![Peer(e)] = net[Peer(e)] \cup {f}]
  BY DEF Put
<1>3. net' \in [End -> SUBSET Frame]
  BY <1>1, <1>2
<1>4. ASSUME NEW g \in End PROVE Frames(g)' = Frames(g)
  <2>1. \A u \in Nat : [kind |-> "SEALED", u |-> u] # f
    OBVIOUS
  <2>2. \A u \in Nat :
           [kind |-> "SEALED", u |-> u] \in net'[g] <=> [kind |-> "SEALED", u |-> u] \in net[g]
    BY <1>1, <1>2, <2>1
  <2> QED BY <2>2 DEF Frames
<1> QED BY <1>3, <1>4

\* One end goes on in its handshake.
LEMMA NewPair ==
    ASSUME Typed, NEW e \in End, NEW p \in PairType, pair' = [pair EXCEPT ![e] = p]
    PROVE  /\ pair' \in [End -> PairType] /\ pair'[e] = p
           /\ \A f \in End : f # e => pair'[f] = pair[f]
BY DEF Typed

\* Nothing is sealed or sent on, and message numbers grow.
LEMMA NumbersKept ==
    ASSUME Inv, Typed', UNCHANGED <<sending, sealed>>,
           \A e \in End : Frames(e)' = Frames(e), \A e \in End : nextMsg'[e] >= nextMsg[e]
    PROVE  NumbersTell'
<1> SUFFICES ASSUME NEW e \in End
             PROVE  /\ \A u \in Frames(e) : sealed[u].msg < nextMsg'[Peer(e)]
                    /\ sending[e] # Idle => sending[e].msg < nextMsg'[e]
  BY PeerIsOther DEF Inv, NumbersTell, SameMessage
<1>1. nextMsg'[e] \in Nat /\ nextMsg'[Peer(e)] \in Nat /\ nextMsg[e] \in Nat
      /\ nextMsg[Peer(e)] \in Nat /\ nextMsg'[Peer(e)] >= nextMsg[Peer(e)]
      /\ nextMsg'[e] >= nextMsg[e] /\ sending[e].msg \in Nat
  BY PeerIsOther DEF Inv, Typed, SendType
<1>2. \A u \in Frames(e) : sealed[u].msg \in Nat /\ sealed[u].msg < nextMsg[Peer(e)]
  BY SealedTypes DEF Inv, NumbersTell, SealedType
<1>3. sending[e] # Idle => sending[e].msg < nextMsg[e]
  BY DEF Inv, NumbersTell
<1> QED BY <1>1, <1>2, <1>3

\* Nor is any opened.
LEMMA MessagesKept ==
    ASSUME Inv, Typed', UNCHANGED <<overrun, reasm, sending, sealed, messages>>,
           \A e \in End : Frames(e)' = Frames(e), \A e \in End : nextMsg'[e] >= nextMsg[e]
    PROVE  CounterOnce' /\ NumbersTell' /\ BufferHolds' /\ Delivered'
<1>1. CounterOnce'
  BY DEF Inv, CounterOnce
<1>2. BufferHolds'
  BY DEF Inv, BufferHolds
<1>3. Delivered'
  BY DEF Inv, Delivered, Complete, SameMessage
<1>4. NumbersTell'
  BY NumbersKept
<1> QED BY <1>1, <1>2, <1>3, <1>4

\* Nothing but the handshake moves, and message numbers grow.
LEMMA HandshakeStep ==
    ASSUME Inv, Typed', Roles', Quiet', KeysApart',
           UNCHANGED <<sess, saved, since, overrun, reasm, sending, sealed, opened, messages>>,
           \A e \in End : Frames(e)' = Frames(e), \A e \in End : nextMsg'[e] >= nextMsg[e]
    PROVE  Inv'
<1>1. CountersAhead'
  BY DEF Inv, CountersAhead, Backed, Ahead
<1>2. WindowKnows'
  BY DEF Inv, WindowKnows
<1>3. CounterOnce' /\ NumbersTell' /\ BufferHolds' /\ Delivered'
  BY MessagesKept
<1> QED BY <1>1, <1>2, <1>3 DEF Inv

\* A pairing starts at a watch.
LEMMA PairStartStep ==
    ASSUME Inv, NEW e \in End, PairStart(e) PROVE Inv'
<1>1. PICK v \in Draw : v = drawn + 1 /\ v # 0
  BY Sizes DEF PairStart, Inv, Typed, Draw
<1>2. PICK p \in PairType :
         /\ p.state = "sentReq" /\ p.init /\ p.t.pki = v
         /\ pair' = [pair EXCEPT ![e] = p]
  <2>1. [NoTranscript EXCEPT !.pki = v, !.ni = v].pki = v
    BY DEF NoTranscript
  <2>2. [NoTranscript EXCEPT !.pki = v, !.ni = v] \in Transcript
    BY KeyTypes DEF Transcript
  <2> QED BY <1>1, <2>1, <2>2 DEF PairStart, PairType, States, Commits
<1>3. PICK w \in Frame : w.kind # "SEALED" /\ Put(e, w)
  <2>1. [kind |-> "REQ", pk |-> v] \in Frame
    BY DEF Frame
  <2> QED BY <1>1, <2>1 DEF PairStart
<1>4. Typed /\ KeysApart /\ UNCHANGED shown /\ drawn' = v /\ NewMsgId(e) /\ HandshakeFrame
  BY <1>1 DEF Inv, PairStart
<1>5. net' \in [End -> SUBSET Frame] /\ \A g \in End : Frames(g)' = Frames(g)
  BY <1>3, <1>4, PutFrame
<1>6. /\ pair' \in [End -> PairType] /\ pair'[e] = p
      /\ \A f \in End : f # e => pair'[f] = pair[f]
  BY <1>2, <1>4, NewPair
<1>7. nextMsg' \in [End -> Nat \ {0}] /\ \A g \in End : nextMsg'[g] >= nextMsg[g]
  BY <1>4 DEF Typed, NewMsgId
<1>8. UNCHANGED <<sess, saved, since, overrun, reasm, sending, up, cuts, sealed, opened,
                messages>>
  BY <1>4 DEF HandshakeFrame, sessVars, history
<1>9. Typed'
  BY <1>4, <1>5, <1>6, <1>7, <1>8 DEF Typed
<1>10. Pairing(e)' /\ Pledge(e)' = v
  BY <1>2, <1>6 DEF Pairing, Pledge, TxKey, Own
<1>11. \A f \in End : f # e => (Pairing(f)' <=> Pairing(f)) /\ Pledge(f)' = Pledge(f)
  BY <1>6 DEF Pairing, Pledge
<1>12. KeysApart'
  BY <1>1, <1>4, <1>5, <1>8, <1>10, <1>11, UsesUnchanged, KeysDrawn
<1>13. Roles' /\ Quiet'
  BY <1>2, <1>6, <1>8 DEF Inv, Roles, Quiet, PairStart
<1> QED BY <1>5, <1>7, <1>8, <1>9, <1>12, <1>13, HandshakeStep

\* A request makes an end the responder.
LEMMA OnPairReqStep ==
    ASSUME Inv, NEW e \in End, NEW q \in net[e], OnPairReq(e, q) PROVE Inv'
<1>1. PICK v \in Draw : v = drawn + 1 /\ v # 0
  BY Sizes DEF OnPairReq, Inv, Typed, Draw
<1>2. q \in Frame /\ q.pk \in Draw
  BY FrameShapes DEF Inv, Typed, OnPairReq
<1>3. PICK p \in PairType :
         /\ p.state = "sentResp" /\ ~p.init /\ p.t.pkr = v
         /\ pair' = [pair EXCEPT ![e] = p]
  <2>1. [pki |-> q.pk, pkr |-> v, ni |-> 0, nr |-> v] \in Transcript
    BY <1>2, Sizes DEF Transcript, Draw
  <2> QED BY <1>1, <2>1 DEF OnPairReq, PairType, States, Commits
<1>4. PICK w \in Frame : w.kind # "SEALED" /\ Put(e, w)
  <2>1. Commitment(v, v, q.pk) \in Commits
    BY <1>2 DEF Commitment, Commits
  <2>2. [kind |-> "RESP", pk |-> v, commit |-> Commitment(v, v, q.pk)] \in Frame
    BY <2>1 DEF Frame
  <2> QED BY <1>1, <2>2 DEF OnPairReq
<1>5. Typed /\ KeysApart /\ UNCHANGED shown /\ drawn' = v /\ NewMsgId(e) /\ HandshakeFrame
  BY <1>1 DEF Inv, OnPairReq
<1>6. net' \in [End -> SUBSET Frame] /\ \A g \in End : Frames(g)' = Frames(g)
  BY <1>4, <1>5, PutFrame
<1>7. /\ pair' \in [End -> PairType] /\ pair'[e] = p
      /\ \A f \in End : f # e => pair'[f] = pair[f]
  BY <1>3, <1>5, NewPair
<1>8. nextMsg' \in [End -> Nat \ {0}] /\ \A g \in End : nextMsg'[g] >= nextMsg[g]
  BY <1>5 DEF Typed, NewMsgId
<1>9. UNCHANGED <<sess, saved, since, overrun, reasm, sending, up, cuts, sealed, opened,
                messages>>
  BY <1>5 DEF HandshakeFrame, sessVars, history
<1>10. Typed'
  BY <1>5, <1>6, <1>7, <1>8, <1>9 DEF Typed
<1>11. Pairing(e)' /\ Pledge(e)' = v
  BY <1>3, <1>7 DEF Pairing, Pledge, TxKey, Own
<1>12. \A f \in End : f # e => (Pairing(f)' <=> Pairing(f)) /\ Pledge(f)' = Pledge(f)
  BY <1>7 DEF Pairing, Pledge
<1>13. KeysApart'
  BY <1>1, <1>5, <1>6, <1>9, <1>11, <1>12, UsesUnchanged, KeysDrawn
<1>14. Roles' /\ Quiet'
  BY <1>3, <1>7, <1>9 DEF Inv, Roles, Quiet
<1> QED BY <1>6, <1>8, <1>9, <1>10, <1>13, <1>14, HandshakeStep

\* An end goes on in a handshake, or drops it: what it drew stays its part of the key.
LEMMA GoesOnStep ==
    ASSUME Inv, NEW e \in End, NEW p \in PairType, pair' = [pair EXCEPT ![e] = p],
           p.init = pair[e].init,
           p.state \in {"sentNa", "awaitSas"} => Own(TxKey(p)) = Pledge(e),
           p.state \in {"sentNa", "awaitSas", "failed"},
           net' \in [End -> SUBSET Frame], \A g \in End : Frames(g)' = Frames(g),
           nextMsg' \in [End -> Nat \ {0}], \A g \in End : nextMsg'[g] >= nextMsg[g],
           shown' \in [End -> Transcript], Pairing(e),
           UNCHANGED <<sessVars, reasm, sending, drawn, up, cuts, history>>
    PROVE  Inv'
<1>1. Typed /\ KeysApart
  BY DEF Inv
<1>2. /\ pair' \in [End -> PairType] /\ pair'[e] = p
      /\ \A f \in End : f # e => pair'[f] = pair[f]
  BY <1>1, NewPair
<1>3. UNCHANGED <<sess, saved, since, overrun, reasm, sending, drawn, up, cuts, sealed, opened,
                messages>>
  BY DEF sessVars, history
<1>4. Typed'
  BY <1>1, <1>2, <1>3 DEF Typed
<1>5. ASSUME NEW f \in End, Pairing(f)' PROVE Pairing(f) /\ Pledge(f)' = Pledge(f)
  <2>1. CASE f = e
    BY <1>2, <1>5, <2>1 DEF Pairing, Pledge
  <2>2. CASE f # e
    BY <1>2, <1>5, <2>2 DEF Pairing, Pledge
  <2> QED BY <2>1, <2>2
<1>6. KeysApart'
  BY <1>1, <1>3, <1>5, UsesUnchanged, KeysKept
<1>7. Roles' /\ Quiet'
  BY <1>2, <1>3 DEF Inv, Roles, Quiet
<1> QED BY <1>3, <1>4, <1>6, <1>7, HandshakeStep

\* The answer to a request.
LEMMA OnPairRespStep ==
    ASSUME Inv, NEW e \in End, NEW q \in net[e], OnPairResp(e, q) PROVE Inv'
<1>1. q \in Frame /\ q.pk \in Draw /\ q.commit \in Commits
  BY FrameShapes DEF Inv, Typed, OnPairResp
<1>2. pair[e] \in PairType /\ pair \in [End -> PairType]
  BY DEF Inv, Typed
<1>3. PICK p \in PairType :
         /\ pair' = [pair EXCEPT ![e] = p] /\ p.state = "sentNa" /\ p.init = pair[e].init
         /\ p.t.pki = pair[e].t.pki
  <2> DEFINE p == [pair[e] EXCEPT !.state = "sentNa", !.t.pkr = q.pk, !.commit = q.commit]
  <2>1. /\ p.state = "sentNa" /\ p.init = pair[e].init /\ p.commit = q.commit
        /\ p.t = [pair[e].t EXCEPT !.pkr = q.pk]
    BY <1>2 DEF PairType
  <2>2. p.t \in Transcript /\ p.t.pki = pair[e].t.pki
    BY <1>1, <1>2, <2>1 DEF PairType, Transcript
  <2>3. p \in PairType
    BY <1>1, <1>2, <2>1, <2>2 DEF PairType, States
  <2>4. pair' = [pair EXCEPT ![e] = p]
    BY <1>2 DEF OnPairResp
  <2> QED BY <2>1, <2>2, <2>3, <2>4
<1>4. PICK f \in Frame : f.kind # "SEALED" /\ Put(e, f)
  <2>1. pair[e].t.ni \in Draw
    BY <1>2 DEF PairType, Transcript
  <2>2. [kind |-> "NA", n |-> pair[e].t.ni] \in Frame
    BY <2>1 DEF Frame
  <2> QED BY <2>2 DEF OnPairResp
<1>5. Typed /\ Roles /\ UNCHANGED <<drawn, shown>> /\ NewMsgId(e) /\ HandshakeFrame
  BY DEF Inv, OnPairResp
<1>6. net' \in [End -> SUBSET Frame] /\ \A g \in End : Frames(g)' = Frames(g)
  BY <1>4, <1>5, PutFrame
<1>7. nextMsg' \in [End -> Nat \ {0}] /\ \A g \in End : nextMsg'[g] >= nextMsg[g]
  BY <1>5 DEF Typed, NewMsgId
<1>8. Pairing(e) /\ Own(TxKey(p)) = Pledge(e)
  BY <1>3, <1>5 DEF OnPairResp, Roles, Pairing, Pledge, Own, TxKey
<1>9. /\ UNCHANGED <<sessVars, reasm, sending, drawn, up, cuts, history>>
      /\ shown' \in [End -> Transcript]
  BY <1>5 DEF HandshakeFrame, Typed
<1> QED BY <1>3, <1>6, <1>7, <1>8, <1>9, GoesOnStep

\* The initiator's nonce: the responder has all of the transcript.
LEMMA OnPairNaStep ==
    ASSUME Inv, NEW e \in End, NEW q \in net[e], OnPairNa(e, q) PROVE Inv'
<1>1. q \in Frame /\ q.n \in Draw
  BY FrameShapes DEF Inv, Typed, OnPairNa
<1>2. pair[e] \in PairType /\ pair \in [End -> PairType]
  BY DEF Inv, Typed
<1>3. PICK p \in PairType :
         /\ pair' = [pair EXCEPT ![e] = p] /\ p.state = "awaitSas" /\ p.init = pair[e].init
         /\ p.t.pki = pair[e].t.pki /\ p.t.pkr = pair[e].t.pkr /\ p.t \in Transcript
  <2> DEFINE p == [pair[e] EXCEPT !.state = "awaitSas", !.t.ni = q.n]
  <2>1. /\ p.state = "awaitSas" /\ p.init = pair[e].init /\ p.commit = pair[e].commit
        /\ p.t = [pair[e].t EXCEPT !.ni = q.n]
    BY <1>2 DEF PairType
  <2>2. p.t \in Transcript /\ p.t.pki = pair[e].t.pki /\ p.t.pkr = pair[e].t.pkr
    BY <1>1, <1>2, <2>1 DEF PairType, Transcript
  <2>3. p \in PairType
    BY <1>1, <1>2, <2>1, <2>2 DEF PairType, States
  <2>4. pair' = [pair EXCEPT ![e] = p]
    BY <1>2 DEF OnPairNa
  <2> QED BY <2>1, <2>2, <2>3, <2>4
<1>4. PICK f \in Frame : f.kind # "SEALED" /\ Put(e, f)
  <2>1. pair[e].t.nr \in Draw
    BY <1>2 DEF PairType, Transcript
  <2>2. [kind |-> "NB", n |-> pair[e].t.nr] \in Frame
    BY <2>1 DEF Frame
  <2> QED BY <2>2 DEF OnPairNa
<1>5. Typed /\ UNCHANGED drawn /\ NewMsgId(e) /\ HandshakeFrame
  BY DEF Inv, OnPairNa
<1>6. net' \in [End -> SUBSET Frame] /\ \A g \in End : Frames(g)' = Frames(g)
  BY <1>4, <1>5, PutFrame
<1>7. nextMsg' \in [End -> Nat \ {0}] /\ \A g \in End : nextMsg'[g] >= nextMsg[g]
  BY <1>5 DEF Typed, NewMsgId
<1>8. Pairing(e) /\ Own(TxKey(p)) = Pledge(e)
  BY <1>3 DEF OnPairNa, Pairing, Pledge, Own, TxKey
<1>9. shown' \in [End -> Transcript]
  BY <1>3, <1>5, NewPair DEF OnPairNa, Typed
<1>10. UNCHANGED <<sessVars, reasm, sending, drawn, up, cuts, history>>
  BY <1>5 DEF HandshakeFrame
<1> QED BY <1>3, <1>6, <1>7, <1>8, <1>9, <1>10, GoesOnStep

\* The responder's nonce: it opens the commitment, or the pairing fails.
LEMMA OnPairNbStep ==
    ASSUME Inv, NEW e \in End, NEW q \in net[e], OnPairNb(e, q) PROVE Inv'
<1>1. q \in Frame /\ q.n \in Draw
  BY FrameShapes DEF Inv, Typed, OnPairNb
<1>2. pair[e] \in PairType /\ pair \in [End -> PairType]
  BY DEF Inv, Typed
<1>3. PICK t \in Transcript :
         /\ t = [pair[e].t EXCEPT !.nr = q.n]
         /\ t.pki = pair[e].t.pki /\ t.pkr = pair[e].t.pkr
  <2>1. [pair[e].t EXCEPT !.nr = q.n] \in Transcript
    BY <1>1, <1>2 DEF PairType, Transcript
  <2> QED BY <1>2, <2>1 DEF PairType, Transcript
<1>4. PICK p \in PairType :
         /\ pair' = [pair EXCEPT ![e] = p] /\ p.state \in {"awaitSas", "failed"}
         /\ p.init = pair[e].init /\ p.t = t
  <2> DEFINE ok == Commitment(t.nr, t.pkr, t.pki) = pair[e].commit
             p == [pair[e] EXCEPT !.t = t, !.state = IF ok THEN "awaitSas" ELSE "failed"]
  <2>1. /\ p.state \in {"awaitSas", "failed"} /\ p.init = pair[e].init
        /\ p.commit = pair[e].commit /\ p.t = t
    BY <1>2 DEF PairType
  <2>2. p \in PairType
    BY <1>2, <1>3, <2>1 DEF PairType, States
  <2>3. pair' = [pair EXCEPT ![e] = p]
    BY <1>2, <1>3 DEF OnPairNb
  <2> QED BY <2>1, <2>2, <2>3
<1>5. shown' \in [End -> Transcript]
  BY <1>3 DEF OnPairNb, Inv, Typed
<1>6. Pairing(e) /\ Own(TxKey(p)) = Pledge(e)
  BY <1>3, <1>4 DEF OnPairNb, Pairing, Pledge, Own, TxKey
<1>7. UNCHANGED <<sessVars, reasm, sending, drawn, up, cuts, history, nextMsg, net>>
  BY DEF OnPairNb, HandshakeFrame
<1>8. net' \in [End -> SUBSET Frame] /\ \A g \in End : Frames(g)' = Frames(g)
  BY <1>7 DEF Inv, Typed, Frames
<1>9. nextMsg' \in [End -> Nat \ {0}] /\ \A g \in End : nextMsg'[g] >= nextMsg[g]
  BY <1>7 DEF Inv, Typed
<1> QED BY <1>4, <1>5, <1>6, <1>7, <1>8, <1>9, GoesOnStep

\* The user says that the digits differ.
LEMMA RejectStep ==
    ASSUME Inv, NEW e \in End, Reject(e) PROVE Inv'
<1>1. pair[e] \in PairType /\ pair \in [End -> PairType]
  BY DEF Inv, Typed
<1>2. PICK p \in PairType :
         pair' = [pair EXCEPT ![e] = p] /\ p.state = "failed" /\ p.init = pair[e].init
  <2> DEFINE p == [pair[e] EXCEPT !.state = "failed"]
  <2>1. p \in PairType /\ p.state = "failed" /\ p.init = pair[e].init
    BY <1>1 DEF PairType, States
  <2>2. pair' = [pair EXCEPT ![e] = p]
    BY <1>1 DEF Reject
  <2> QED BY <2>1, <2>2
<1>3. UNCHANGED <<sessVars, reasm, nextMsg, sending, drawn, up, cuts, net, history, shown>>
  BY DEF Reject
<1>4. /\ net' \in [End -> SUBSET Frame] /\ \A g \in End : Frames(g)' = Frames(g)
      /\ nextMsg' \in [End -> Nat \ {0}] /\ \A g \in End : nextMsg'[g] >= nextMsg[g]
      /\ shown' \in [End -> Transcript]
  BY <1>3 DEF Inv, Typed, Frames
<1>5. Pairing(e)
  BY DEF Reject, Pairing
<1> QED BY <1>2, <1>3, <1>4, <1>5, GoesOnStep

\* The user says that they agree: a key nobody has used starts from counter 0.
LEMMA ConfirmStep ==
    ASSUME Inv, NEW e \in End, Confirm(e) PROVE Inv'
<1>1. Typed /\ KeysApart /\ Pairing(e)
  BY DEF Inv, Confirm, Pairing
<1>2. PICK k \in Key : k = TxKey(pair[e])
  BY <1>1, KeyTypes DEF Typed
<1>3. PICK p \in PairType :
         pair' = [pair EXCEPT ![e] = p] /\ p.state = "established"
  <2> DEFINE p == [pair[e] EXCEPT !.state = "established"]
  <2>1. p \in PairType /\ p.state = "established"
    BY <1>1 DEF Typed, PairType, States
  <2>2. pair' = [pair EXCEPT ![e] = p]
    BY <1>1 DEF Confirm, Typed
  <2> QED BY <2>1, <2>2
<1>4. PICK s \in SessType :
         /\ s = Derived(pair[e]) /\ s.est /\ s.key = k /\ s.ctr = 0 /\ s.bits = {}
         /\ s.max = 0 /\ ~s.seen
  <2>1. /\ Derived(pair[e]) \in SessType /\ Derived(pair[e]).est
        /\ Derived(pair[e]).key = k /\ Derived(pair[e]).ctr = 0
        /\ Derived(pair[e]).bits = {} /\ Derived(pair[e]).max = 0 /\ ~Derived(pair[e]).seen
    BY <1>2 DEF Derived, NoSess, SessType
  <2> QED BY <2>1
<1>5. PICK b \in Blob : b = Export(s) /\ b.has /\ b.key = k /\ b.ctr = 0
  <2>1. Export(s) \in Blob /\ Export(s).has /\ Export(s).key = k /\ Export(s).ctr = 0
    BY <1>4 DEF Export, SessType, Blob
  <2> QED BY <2>1
<1>6. /\ pair' \in [End -> PairType] /\ sess' \in [End -> SessType] /\ saved' \in [End -> Blob]
      /\ since' \in [End -> 0 .. Stride - 1]
      /\ pair'[e] = p /\ sess'[e] = s /\ saved'[e] = b /\ since'[e] = 0
      /\ \A f \in End : f # e => /\ pair'[f] = pair[f] /\ sess'[f] = sess[f]
                                /\ saved'[f] = saved[f] /\ since'[f] = since[f]
  <2>1. /\ sess' = [sess EXCEPT ![e] = s] /\ saved' = [saved EXCEPT ![e] = b]
        /\ since' = [since EXCEPT ![e] = 0]
    BY <1>4, <1>5 DEF Confirm, Save
  <2>2. 0 \in 0 .. Stride - 1
    BY Sizes
  <2> QED BY <1>1, <1>3, <2>1, <2>2 DEF Typed
<1>7. UNCHANGED <<overrun, reasm, nextMsg, sending, drawn, up, cuts, net, sealed, opened, messages,
                shown>>
  BY DEF Confirm, history
<1>8. Typed'
  BY <1>1, <1>6, <1>7 DEF Typed
<1>9. \A f \in End, j \in Key : Uses(f, j)' => Uses(f, j) \/ (f = e /\ j = k)
  BY <1>4, <1>5, <1>6, <1>7 DEF Uses, Frames
<1>10. \A f \in End : Pairing(f)' => f # e /\ Pairing(f) /\ Pledge(f)' = Pledge(f)
  BY <1>3, <1>6 DEF Pairing, Pledge
<1>11. Own(k) = Pledge(e) /\ Own(k) \in 1 .. drawn
  BY <1>1, <1>2 DEF Pledge, KeysApart
<1>12. \A f \in End : ~Uses(f, k)
  BY <1>1, <1>11 DEF KeysApart
<1>13. KeysApart'
  <2>1. /\ \A f \in End : Pairing(f)' => Pledge(f)' \in 1 .. drawn'
        /\ \A f, g \in End : Pairing(f)' /\ Pairing(g)' /\ Pledge(f)' = Pledge(g)' => f = g
    BY <1>1, <1>7, <1>10 DEF KeysApart
  <2>2. \A f \in End, j \in Key : Uses(f, j)' => Own(j) <= drawn'
    BY <1>1, <1>7, <1>9, <1>11 DEF KeysApart, Typed, Draw
  <2>3. \A f, g \in End, j \in Key : Uses(f, j)' /\ Pairing(g)' => Own(j) # Pledge(g)'
    BY <1>1, <1>9, <1>10, <1>11 DEF KeysApart
  <2>4. \A f, g \in End, j \in Key : Uses(f, j)' /\ Uses(g, j)' => f = g
    BY <1>1, <1>9, <1>12 DEF KeysApart
  <2> QED BY <2>1, <2>2, <2>3, <2>4 DEF KeysApart
<1>14. \A u \in 1 .. Len(sealed) : sealed[u].key # k
  <2> SUFFICES ASSUME NEW u \in 1 .. Len(sealed), sealed[u].key = k PROVE FALSE
    OBVIOUS
  <2>1. sealed[u].from \in End
    BY <1>1, SealedTypes DEF SealedType
  <2> QED BY <1>12, <2>1 DEF Uses
<1>15. CountersAhead'
  <2> SUFFICES ASSUME NEW g \in End
               PROVE  Backed(g)' /\ (~overrun => Ahead(g)')
    BY <1>7 DEF CountersAhead
  <2>1. CASE g = e
    BY <1>4, <1>5, <1>6, <1>7, <1>14, <2>1, Sizes DEF Backed, Ahead
  <2>2. CASE g # e
    BY <1>6, <1>7, <2>2 DEF Inv, CountersAhead, Backed, Ahead
  <2> QED BY <2>1, <2>2
<1>16. \A u \in Frames(e) : opened[u] > 0 => sealed[u].key # Opposite(k)
  <2> SUFFICES ASSUME NEW u \in Frames(e), opened[u] > 0, sealed[u].key = Opposite(k)
               PROVE  FALSE
    OBVIOUS
  <2>1. Opposite(sealed[u].key) = k
    BY KeyTypes
  <2> QED BY <1>12, <2>1 DEF Uses
<1>17. WindowKnows'
  <2>1. UNCHANGED <<sealed, opened>> /\ \A g \in End : Frames(g)' = Frames(g)
    BY <1>7 DEF Frames
  <2>2. \A g \in End : sess'[g].est =>
          /\ \A u \in Frames(g) : opened[u] > 0 /\ sealed[u].key = Opposite(sess'[g].key)
               => Known(sess'[g], sealed[u].seq)
          /\ \A d \in sess'[g].bits : \E u \in 1 .. Len(sealed) :
               opened[u] > 0 /\ sealed[u].key = Opposite(sess'[g].key)
               /\ sealed[u].seq = sess'[g].max - d
    <3> SUFFICES ASSUME NEW g \in End, sess'[g].est
                 PROVE  /\ \A u \in Frames(g) :
                             opened[u] > 0 /\ sealed[u].key = Opposite(sess'[g].key)
                             => Known(sess'[g], sealed[u].seq)
                        /\ \A d \in sess'[g].bits : \E u \in 1 .. Len(sealed) :
                             opened[u] > 0 /\ sealed[u].key = Opposite(sess'[g].key)
                             /\ sealed[u].seq = sess'[g].max - d
      OBVIOUS
    <3>1. CASE g = e
      BY <1>4, <1>6, <1>16, <3>1
    <3>2. CASE g # e
      <4>1. sess'[g] = sess[g] /\ sess[g].est
        BY <1>6, <3>2
      <4>2. WindowKnows
        BY DEF Inv
      <4> QED BY <4>1, <4>2 DEF WindowKnows
    <3> QED BY <3>1, <3>2
  <2> QED BY <2>1, <2>2 DEF Inv, WindowKnows, Known
<1>18. Roles' /\ Quiet'
  BY <1>1, <1>3, <1>6, <1>7 DEF Inv, Roles, Quiet
<1>19. \A f \in End : Frames(f)' = Frames(f) /\ nextMsg'[f] >= nextMsg[f]
  BY <1>1, <1>7 DEF Frames, Typed
<1>20. CounterOnce' /\ NumbersTell' /\ BufferHolds' /\ Delivered'
  BY <1>7, <1>8, <1>19, MessagesKept
<1> QED BY <1>8, <1>13, <1>15, <1>17, <1>18, <1>20 DEF Inv

---------------------------------------------------------------------------
(* Sealed frames. *)

\* A frame that may be told from those on their way: nobody has seen its counter under this
\* key, and those of the same number are of its message.
LEMMA EmitStep ==
    ASSUME Inv, NEW e \in End, NEW m \in SendType, NEW how \in Outcomes, Emit(e, m, how),
           up, sess[e].est, m.next \in 1 .. m.total, m.msg < nextMsg'[e],
           nextMsg' \in [End -> Nat \ {0}], \A g \in End : nextMsg'[g] >= nextMsg[g],
           \A u \in Frames(Peer(e)) : sealed[u].msg = m.msg
                => sealed[u].mid = m.mid /\ sealed[u].total = m.total
    PROVE  Inv'
<1>1. Typed /\ Len(sealed) \in Nat /\ sealed \in Seq(SealedType)
  BY SealedTypes DEF Inv, Typed
<1>2. PICK n \in Nat : n = Len(sealed) + 1 /\ n >= 1 /\ n <= MaxSealed
  BY <1>1 DEF Emit
<1>3. PICK s \in SessType :
         /\ s = [sess[e] EXCEPT !.ctr = @ + 1]
         /\ s.est /\ s.key = sess[e].key /\ s.ctr = sess[e].ctr + 1 /\ s.seen = sess[e].seen
         /\ s.max = sess[e].max /\ s.bits = sess[e].bits
         /\ sess' = [sess EXCEPT ![e] = s]
  <2> DEFINE s == [sess[e] EXCEPT !.ctr = @ + 1]
  <2>1. sess[e] \in SessType
    BY <1>1 DEF Typed
  <2>2. /\ s.est /\ s.key = sess[e].key /\ s.ctr = sess[e].ctr + 1 /\ s.seen = sess[e].seen
        /\ s.max = sess[e].max /\ s.bits = sess[e].bits
    BY <2>1 DEF SessType
  <2>3. s \in SessType
    BY <2>1, <2>2 DEF SessType
  <2>4. sess' = [sess EXCEPT ![e] = s]
    BY DEF Emit
  <2> QED BY <2>2, <2>3, <2>4
<1>4. PICK x \in SealedType :
         /\ x.from = e /\ x.key = s.key /\ x.seq = sess[e].ctr /\ x.mid = m.mid
         /\ x.msg = m.msg /\ x.frag = m.next /\ x.total = m.total
         /\ sealed' = Append(sealed, x)
  <2> DEFINE x == [from |-> e, key |-> s.key, seq |-> sess[e].ctr, mid |-> m.mid,
                   msg |-> m.msg, frag |-> m.next, total |-> m.total]
  <2>1. sess[e].ctr \in Nat /\ s.key \in Key
    BY <1>1 DEF Typed, SessType
  <2>2. x \in SealedType
    BY <2>1 DEF SendType, SealedType
  <2>3. sealed' = Append(sealed, x)
    BY <1>3 DEF Emit
  <2> QED BY <2>2, <2>3
<1>5. /\ sealed' \in Seq(SealedType) /\ Len(sealed') = n /\ sealed'[n] = x
      /\ \A u \in 1 .. Len(sealed) : sealed'[u] = sealed[u]
  BY <1>1, <1>2, <1>4
<1>6. /\ net' \in [End -> SUBSET Frame]
      /\ \A g \in End : /\ Frames(g) \subseteq Frames(g)'
                        /\ \A u \in Frames(g)' : u \in Frames(g) \/ (u = n /\ g = Peer(e))
  <2>1. Peer(e) \in End /\ net \in [End -> SUBSET Frame]
    BY <1>1, PeerIsOther DEF Typed
  <2>2. [kind |-> "SEALED", u |-> n] \in Frame
    BY DEF Frame
  <2>3. CASE how = "sent"
    <3>1. net' = [net EXCEPT ![Peer(e)] = net[Peer(e)] \cup {[kind |-> "SEALED", u |-> n]}]
      BY <1>2, <2>3 DEF Emit
    <3>2. \A g \in End : net'[g] = IF g = Peer(e) THEN net[g] \cup {[kind |-> "SEALED", u |-> n]}
                                                  ELSE net[g]
      BY <2>1, <3>1
    <3> QED BY <2>1, <2>2, <3>1, <3>2 DEF Frames
  <2>4. CASE how # "sent"
    BY <2>1, <2>4 DEF Emit, Frames
  <2> QED BY <2>3, <2>4
<1>7. /\ sending' \in [End -> SendType]
      /\ \A g \in End : g # e => sending'[g] = sending[g]
      /\ sending'[e] # Idle => /\ sending'[e].msg = m.msg /\ sending'[e].mid = m.mid
                               /\ sending'[e].total = m.total
                               /\ sending'[e].next \in 1 .. m.total
  <2>1. PICK z : z = (IF how = "sent" /\ m.next < m.total THEN [m EXCEPT !.next = @ + 1] ELSE Idle)
    OBVIOUS
  <2>2. sending' = [sending EXCEPT ![e] = z] /\ sending \in [End -> SendType]
    BY <1>1, <2>1 DEF Emit, Typed
  <2>3. z \in SendType
    BY <2>1, BlankTypes DEF SendType
  <2>4. z # Idle => z.msg = m.msg /\ z.mid = m.mid /\ z.total = m.total /\ z.next \in 1 .. m.total
    BY <2>1 DEF SendType
  <2> QED BY <2>2, <2>3, <2>4
<1>8. /\ saved[e].has /\ saved[e].key = s.key /\ sess[e].ctr >= saved[e].ctr + since[e]
      /\ ~overrun => sess[e].ctr - saved[e].ctr - since[e] <= Margin - Stride
  BY <1>3 DEF Inv, CountersAhead, Backed, Ahead
<1>9. /\ saved' \in [End -> Blob] /\ since' \in [End -> 0 .. Stride - 1]
      /\ overrun' \in BOOLEAN /\ (~overrun' => ~overrun)
      /\ \A g \in End : g # e => saved'[g] = saved[g] /\ since'[g] = since[g]
      /\ saved'[e].has /\ saved'[e].key = s.key /\ s.ctr >= saved'[e].ctr + since'[e]
      /\ ~overrun' => s.ctr - saved'[e].ctr - since'[e] <= Margin - Stride
  <2>1. saved \in [End -> Blob] /\ since \in [End -> 0 .. Stride - 1] /\ since[e] \in Nat
        /\ saved[e].ctr \in Nat /\ overrun \in BOOLEAN /\ sess[e].ctr \in Nat
    <3>1. /\ saved \in [End -> Blob] /\ since \in [End -> 0 .. Stride - 1]
          /\ overrun \in BOOLEAN /\ sess[e] \in SessType
      BY <1>1 DEF Typed
    <3>2. saved[e] \in Blob /\ since[e] \in 0 .. Stride - 1
      BY <3>1
    <3> QED BY <3>1, <3>2, Sizes DEF Blob, SessType
  <2>2. CASE how = "refused"
    <3>1. Refuse(e, s)
      BY <1>3, <2>2 DEF Emit
    <3>2. UNCHANGED <<saved, since>>
          /\ overrun' = (overrun \/ s.ctr - saved[e].ctr - since[e] > Margin - Stride)
      BY <3>1 DEF Refuse, Uncounted
    <3>3. s.ctr >= saved[e].ctr + since[e]
      BY <1>3, <1>8, <2>1
    <3>4. overrun' \in BOOLEAN
      BY <2>1, <3>2
    <3>5. ~overrun' => ~overrun /\ s.ctr - saved[e].ctr - since[e] <= Margin - Stride
      BY <1>3, <2>1, <3>2, Sizes DEF SessType
    <3> QED BY <1>8, <2>1, <3>2, <3>3, <3>4, <3>5
  <2>3. CASE how # "refused"
    <3>1. StrideSave(e, s) /\ overrun' = overrun
      BY <1>3, <2>3 DEF Emit
    <3>2. CASE since[e] + 1 >= Stride
      <4>1. Export(s) \in Blob /\ Export(s).has /\ Export(s).key = s.key
            /\ Export(s).ctr = s.ctr
        BY DEF Export, SessType, Blob
      <4>2. saved' = [saved EXCEPT ![e] = Export(s)] /\ since' = [since EXCEPT ![e] = 0]
        BY <3>1, <3>2 DEF StrideSave, Save
      <4>3. /\ s.ctr >= s.ctr + 0 /\ s.ctr - s.ctr - 0 <= Margin - Stride
            /\ 0 \in 0 .. Stride - 1
        BY Sizes DEF SessType
      <4> QED BY <2>1, <3>1, <4>1, <4>2, <4>3
    <3>3. CASE ~(since[e] + 1 >= Stride)
      <4>1. since' = [since EXCEPT ![e] = since[e] + 1] /\ saved' = saved
        BY <3>1, <3>3 DEF StrideSave
      <4>2. /\ since[e] + 1 \in 0 .. Stride - 1 /\ s.ctr >= saved[e].ctr + (since[e] + 1)
            /\ ~overrun => s.ctr - saved[e].ctr - (since[e] + 1) <= Margin - Stride
        BY <1>3, <1>8, <2>1, <3>3, Sizes
      <4> QED BY <1>8, <2>1, <3>1, <4>1, <4>2
    <3> QED BY <3>2, <3>3
  <2> QED BY <2>2, <2>3
<1>10. UNCHANGED <<pair, drawn, shown, reasm, up, cuts, opened, messages>>
  BY DEF Emit, pairVars
<1>11. sess' \in [End -> SessType] /\ sess'[e] = s /\ \A g \in End : g # e => sess'[g] = sess[g]
  BY <1>1, <1>3 DEF Typed
<1>12. Typed'
  BY <1>1, <1>2, <1>5, <1>6, <1>7, <1>9, <1>10, <1>11 DEF Typed
<1>13. Roles' /\ Quiet'
  BY <1>10 DEF Inv, Roles, Quiet
<1>14. \A g \in End : Frames(g) \subseteq 1 .. Len(sealed)
  BY DEF Inv, NumbersTell
<1>15. opened[n] = 0
  <2>1. \A u \in 1 .. MaxSealed : u > Len(sealed) => opened[u] = 0
    BY DEF Inv, WindowKnows
  <2> QED BY <1>1, <1>2, <2>1, Sizes
<1>16. Uses(e, s.key)
  BY <1>3 DEF Uses
<1>17. KeysApart'
  <2>1. ASSUME NEW g \in End, NEW k \in Key, Uses(g, k)' PROVE Uses(g, k)
    <3>1. CASE sess'[g].est /\ sess'[g].key = k
      BY <1>3, <1>11, <3>1 DEF Uses
    <3>2. CASE saved'[g].has /\ saved'[g].key = k
      BY <1>3, <1>9, <3>2 DEF Uses
    <3>3. CASE \E u \in 1 .. Len(sealed') : sealed'[u].from = g /\ sealed'[u].key = k
      BY <1>2, <1>4, <1>5, <1>16, <3>3 DEF Uses
    <3>4. CASE \E u \in Frames(g)' : opened[u] > 0 /\ k = Opposite(sealed'[u].key)
      <4>1. PICK u \in Frames(g)' : opened[u] > 0 /\ k = Opposite(sealed'[u].key)
        BY <3>4
      <4>2. u \in Frames(g)
        BY <1>6, <1>15, <4>1
      <4> QED BY <1>5, <1>14, <4>1, <4>2 DEF Uses
    <3> QED BY <1>10, <2>1, <3>1, <3>2, <3>3, <3>4 DEF Uses
  <2>2. \A g \in End : Pairing(g)' => Pairing(g) /\ Pledge(g)' = Pledge(g)
    BY <1>10 DEF Pairing, Pledge
  <2> QED BY <1>10, <2>1, <2>2, KeysKept DEF Inv
<1>18. \A u \in 1 .. Len(sealed) :
          /\ sealed[u] \in SealedType /\ sealed[u].seq \in Nat
          /\ ~overrun => (sealed[u].key = s.key => sealed[u].seq < sess[e].ctr)
  BY <1>3, SealedTypes DEF Inv, CountersAhead, Ahead, SealedType
<1>19. CounterOnce'
  <2> SUFFICES ASSUME ~overrun, NEW u \in 1 .. n, NEW v \in 1 .. n,
                      sealed'[u].key = sealed'[v].key, sealed'[u].seq = sealed'[v].seq, u # v
               PROVE  FALSE
    BY <1>5, <1>9, LenProperties DEF CounterOnce
  <2>1. sess[e].ctr \in Nat
    BY <1>1 DEF Typed, SessType
  <2>2. CASE u # n /\ v # n
    BY SMTT(30), <1>1, <1>2, <1>5, <2>2 DEF Inv, CounterOnce
  <2>3. CASE u = n
    BY <1>2, <1>4, <1>5, <1>18, <2>1, <2>3
  <2>4. CASE v = n
    BY <1>2, <1>4, <1>5, <1>18, <2>1, <2>4
  <2> QED BY <2>2, <2>3, <2>4
<1>20. CountersAhead'
  <2> SUFFICES ASSUME NEW g \in End
               PROVE  Backed(g)' /\ (~overrun' => Ahead(g)')
    BY DEF CountersAhead
  <2>1. CASE g = e
    <3>1. Backed(e)'
      BY <1>9, <1>11 DEF Backed
    <3>2. ASSUME ~overrun' PROVE Ahead(e)'
      <4>1. sess[e].ctr \in Nat /\ saved'[e].ctr \in Nat /\ since'[e] \in 0 .. Stride - 1
        BY <1>1, <1>9 DEF Typed, SessType, Blob
      <4>2. \A u \in 1 .. n : sealed'[u].key = s.key
                => sealed'[u].seq \in Nat /\ sealed'[u].seq < s.ctr
        <5> SUFFICES ASSUME NEW u \in 1 .. n, sealed'[u].key = s.key
                     PROVE  sealed'[u].seq \in Nat /\ sealed'[u].seq < s.ctr
          OBVIOUS
        <5>1. CASE u = n
          BY <1>3, <1>4, <1>5, <4>1, <5>1
        <5>2. CASE u # n
          <6>1. u \in 1 .. Len(sealed) /\ sealed'[u] = sealed[u]
            BY <1>1, <1>2, <1>5, <5>2
          <6>2. sealed[u].seq \in Nat /\ sealed[u].seq < sess[e].ctr
            BY <1>9, <1>18, <3>2, <6>1
          <6> QED BY <1>3, <4>1, <6>1, <6>2
        <5> QED BY <5>1, <5>2
      <4>3. s.ctr - saved'[e].ctr - since'[e] <= Margin - Stride
        BY <1>9, <3>2
      <4>4. s.ctr \in Nat /\ s.ctr < saved'[e].ctr + Margin
        BY <1>3, <4>1, <4>3, Sizes
      <4>5. ASSUME NEW u \in 1 .. n
            PROVE  /\ sess'[e].est /\ sealed'[u].key = sess'[e].key
                        => sealed'[u].seq < sess'[e].ctr
                   /\ saved'[e].has /\ saved'[e].key = sealed'[u].key
                        => sealed'[u].seq < saved'[e].ctr + Margin
        BY <1>9, <1>11, <4>1, <4>2, <4>4, Sizes
      <4> QED BY <1>5, <1>11, <4>3, <4>5 DEF Ahead
    <3> QED BY <2>1, <3>1, <3>2
  <2>2. CASE g # e
    <3>1. sess'[g] = sess[g] /\ saved'[g] = saved[g] /\ since'[g] = since[g]
      BY <1>9, <1>11, <2>2
    <3>2. ~Uses(g, s.key)
      BY <1>16, <2>2 DEF Inv, KeysApart, SessType
    <3>3. /\ sess[g].est => sess[g].key # s.key
          /\ saved[g].has => saved[g].key # s.key
      BY <3>2 DEF Uses
    <3>4. Backed(g) /\ (~overrun => Ahead(g))
      BY DEF Inv, CountersAhead
    <3>5. Backed(g)'
      BY <3>1, <3>4 DEF Backed
    <3>6. ASSUME ~overrun' PROVE Ahead(g)'
      BY <1>2, <1>4, <1>5, <1>9, <3>1, <3>3, <3>4, <3>6 DEF Ahead
    <3> QED BY <3>5, <3>6
  <2> QED BY <2>1, <2>2
<1>21. \A g \in End : \A u \in Frames(g)' :
          /\ u \in 1 .. n
          /\ u # n => u \in Frames(g) /\ u \in 1 .. Len(sealed) /\ sealed'[u] = sealed[u]
          /\ u = n => g = Peer(e)
  <2> SUFFICES ASSUME NEW g \in End, NEW u \in Frames(g)'
               PROVE  /\ u \in 1 .. n
                      /\ u # n => /\ u \in Frames(g) /\ u \in 1 .. Len(sealed)
                                  /\ sealed'[u] = sealed[u]
                      /\ u = n => g = Peer(e)
    OBVIOUS
  <2>1. CASE u \in Frames(g)
    BY <1>1, <1>2, <1>5, <1>14, <2>1
  <2>2. CASE u = n /\ g = Peer(e)
    BY <1>2, <2>2
  <2> QED BY <1>6, <2>1, <2>2
<1>22. WindowKnows'
  <2>1. \A u \in 1 .. MaxSealed : opened[u] <= 1 /\ (u > n => opened[u] = 0)
    BY <1>1, <1>2 DEF Inv, WindowKnows
  <2>2. ASSUME NEW g \in End
        PROVE  /\ sess'[g].est = sess[g].est /\ sess'[g].key = sess[g].key
               /\ sess'[g].seen = sess[g].seen /\ sess'[g].max = sess[g].max
               /\ sess'[g].bits = sess[g].bits
    BY <1>3, <1>11
  <2>3. ASSUME NEW g \in End, sess[g].est, NEW u \in Frames(g)', opened[u] > 0,
               sealed'[u].key = Opposite(sess[g].key)
        PROVE  Known(sess[g], sealed'[u].seq)
    <3>1. u \in Frames(g) /\ sealed'[u] = sealed[u]
      BY <1>15, <1>21, <2>3
    <3> QED BY <2>3, <3>1 DEF Inv, WindowKnows
  <2>4. ASSUME NEW g \in End, sess[g].est, NEW d \in sess[g].bits
        PROVE  \E u \in 1 .. n : /\ opened[u] > 0 /\ sealed'[u].key = Opposite(sess[g].key)
                                 /\ sealed'[u].seq = sess[g].max - d
    <3>1. PICK u \in 1 .. Len(sealed) :
             /\ opened[u] > 0 /\ sealed[u].key = Opposite(sess[g].key)
             /\ sealed[u].seq = sess[g].max - d
      BY <2>4 DEF Inv, WindowKnows
    <3>2. u \in 1 .. n /\ sealed'[u] = sealed[u]
      BY <1>1, <1>2, <1>5
    <3> QED BY <3>1, <3>2
  <2> QED BY <1>5, <1>10, <2>1, <2>2, <2>3, <2>4 DEF WindowKnows, Known
<1>23. NumbersTell'
  <2> SUFFICES ASSUME NEW g \in End
               PROVE  /\ \A u \in Frames(g)' :
                           /\ u \in 1 .. n /\ sealed'[u].from = Peer(g)
                           /\ sealed'[u].msg < nextMsg'[Peer(g)]
                           /\ sealed'[u].frag \in 1 .. sealed'[u].total
                      /\ \A u, v \in Frames(g)' :
                           sealed'[u].msg = sealed'[v].msg => SameMessage(u, v)'
                      /\ sending'[g] # Idle =>
                           /\ sending'[g].msg < nextMsg'[g]
                           /\ sending'[g].next \in 1 .. sending'[g].total
                           /\ \A u \in Frames(Peer(g))' : sealed'[u].msg = sending'[g].msg
                                => /\ sealed'[u].mid = sending'[g].mid
                                   /\ sealed'[u].total = sending'[g].total
    BY <1>5 DEF NumbersTell
  <2>1. /\ Peer(g) \in End /\ Peer(e) \in End /\ Peer(Peer(e)) = e /\ Peer(e) # e
        /\ Peer(Peer(g)) = g /\ Peer(g) # g /\ \A f \in End : f # e => f = Peer(e)
    BY PeerIsOther
  <2>2. \A f \in End : nextMsg[f] \in Nat /\ nextMsg'[f] \in Nat /\ nextMsg'[f] >= nextMsg[f]
    BY <1>1 DEF Typed
  <2>3. \A f \in End : \A u \in Frames(f) :
           /\ sealed[u].from = Peer(f) /\ sealed[u].msg \in Nat
           /\ sealed[u].msg < nextMsg[Peer(f)] /\ sealed[u].frag \in 1 .. sealed[u].total
    BY <1>14, <1>18 DEF Inv, NumbersTell, SealedType
  <2>4. ASSUME NEW u \in Frames(g)'
        PROVE  /\ u \in 1 .. n /\ sealed'[u].from = Peer(g)
               /\ sealed'[u].msg < nextMsg'[Peer(g)]
               /\ sealed'[u].frag \in 1 .. sealed'[u].total
    <3>1. CASE u = n
      BY <1>4, <1>5, <1>21, <2>1, <3>1
    <3>2. CASE u # n
      BY SMTT(30), <1>21, <2>1, <2>2, <2>3, <3>2
    <3> QED BY <3>1, <3>2
  <2>5. ASSUME NEW u \in Frames(g)', NEW v \in Frames(g)', sealed'[u].msg = sealed'[v].msg
        PROVE  SameMessage(u, v)'
    <3>1. CASE u # n /\ v # n
      BY <1>21, <2>5, <3>1 DEF Inv, NumbersTell, SameMessage
    <3>2. CASE u = n /\ v # n
      <4>1. v \in Frames(g) /\ sealed'[v] = sealed[v] /\ g = Peer(e)
        BY <1>21, <3>2
      <4>2. sealed'[u].msg = m.msg /\ sealed'[v].msg = sealed'[u].msg
        BY <1>4, <1>5, <2>5, <3>2
      <4>3. v \in Frames(Peer(e)) /\ sealed[v].msg = m.msg
        BY <4>1, <4>2
      <4> QED BY <1>4, <1>5, <3>2, <4>1, <4>3 DEF SameMessage
    <3>3. CASE u # n /\ v = n
      <4>1. u \in Frames(g) /\ sealed'[u] = sealed[u] /\ g = Peer(e)
        BY <1>21, <3>3
      <4>2. sealed'[v].msg = m.msg /\ sealed'[u].msg = sealed'[v].msg
        BY <1>4, <1>5, <2>5, <3>3
      <4>3. u \in Frames(Peer(e)) /\ sealed[u].msg = m.msg
        BY <4>1, <4>2
      <4> QED BY <1>4, <1>5, <3>3, <4>1, <4>3 DEF SameMessage
    <3>4. CASE u = n /\ v = n
      BY <3>4 DEF SameMessage
    <3> QED BY <3>1, <3>2, <3>3, <3>4
  <2>6. ASSUME sending'[g] # Idle, g = e
        PROVE  /\ sending'[g].msg < nextMsg'[g]
               /\ sending'[g].next \in 1 .. sending'[g].total
               /\ \A u \in Frames(Peer(g))' : sealed'[u].msg = sending'[g].msg
                    => sealed'[u].mid = sending'[g].mid /\ sealed'[u].total = sending'[g].total
    BY <1>4, <1>5, <1>7, <1>21, <2>1, <2>6
  <2>7. ASSUME sending'[g] # Idle, g # e
        PROVE  /\ sending'[g].msg < nextMsg'[g]
               /\ sending'[g].next \in 1 .. sending'[g].total
               /\ \A u \in Frames(Peer(g))' : sealed'[u].msg = sending'[g].msg
                    => sealed'[u].mid = sending'[g].mid /\ sealed'[u].total = sending'[g].total
    <3>1. sending'[g] = sending[g] /\ sending[g].msg \in Nat
      BY <1>1, <1>7, <2>7 DEF Typed, SendType
    <3>2. /\ sending[g].msg < nextMsg[g] /\ sending[g].next \in 1 .. sending[g].total
          /\ \A u \in Frames(Peer(g)) : sealed[u].msg = sending[g].msg
                => sealed[u].mid = sending[g].mid /\ sealed[u].total = sending[g].total
      BY <2>7, <3>1 DEF Inv, NumbersTell
    <3>3. \A u \in Frames(Peer(g))' : u \in Frames(Peer(g)) /\ sealed'[u] = sealed[u]
      BY <1>21, <2>1, <2>7
    <3> QED BY <2>2, <3>1, <3>2, <3>3
  <2> QED BY <2>4, <2>5, <2>6, <2>7
<1>24. BufferHolds'
  <2> SUFFICES ASSUME NEW g \in End
               PROVE  /\ reasm[g].parts \subseteq 1 .. n
                      /\ reasm[g].active =>
                           /\ reasm[g].parts \subseteq Frames(g)'
                           /\ Cardinality(reasm[g].parts) < reasm[g].total
                           /\ \A v \in reasm[g].parts : /\ sealed'[v].msg = reasm[g].msg
                                                        /\ sealed'[v].total = reasm[g].total
                           /\ \A v, w \in reasm[g].parts :
                                sealed'[v].frag = sealed'[w].frag => v = w
    BY <1>5, <1>10 DEF BufferHolds
  <2>1. /\ reasm[g].parts \subseteq 1 .. Len(sealed)
        /\ \A v \in reasm[g].parts : sealed'[v] = sealed[v]
    BY <1>5 DEF Inv, BufferHolds
  <2>2. reasm[g].parts \subseteq 1 .. n
    BY <1>1, <1>2, <2>1
  <2>3. reasm[g].active =>
          /\ reasm[g].parts \subseteq Frames(g)
          /\ Cardinality(reasm[g].parts) < reasm[g].total
          /\ \A v \in reasm[g].parts :
               sealed[v].msg = reasm[g].msg /\ sealed[v].total = reasm[g].total
          /\ \A v, w \in reasm[g].parts : sealed[v].frag = sealed[w].frag => v = w
    BY DEF Inv, BufferHolds
  <2>4. Frames(g) \subseteq Frames(g)'
    BY <1>6
  <2> QED BY <2>1, <2>2, <2>3, <2>4
<1>25. Delivered'
  <2> SUFFICES ASSUME NEW d \in messages
               PROVE  Complete(d)'
    BY <1>10 DEF Delivered
  <2>1. d \subseteq 1 .. Len(sealed) /\ \A v \in d : sealed'[v] = sealed[v]
    BY <1>5 DEF Inv, Delivered, Complete
  <2>2. d \subseteq 1 .. n /\ \A u, v \in d : SameMessage(u, v)' /\ d # {}
    BY <1>1, <1>2, <2>1 DEF Inv, Delivered, Complete, SameMessage
  <2>3. {sealed'[v].frag : v \in d} = {sealed[v].frag : v \in d}
    BY <2>1
  <2>4. \A u \in d : {sealed'[v].frag : v \in d} = 1 .. sealed'[u].total
    BY <2>1, <2>3 DEF Inv, Delivered, Complete
  <2> QED BY <1>5, <2>2, <2>4 DEF Complete, Inv, Delivered
<1> QED BY <1>12, <1>13, <1>17, <1>19, <1>20, <1>22, <1>23, <1>24, <1>25 DEF Inv

\* wh_send begins a message with a number of its own.
LEMMA SendStep ==
    ASSUME Inv, NEW e \in End, NEW n \in 1 .. FragMax, NEW how \in Outcomes, Send(e, n, how)
    PROVE  Inv'
<1>1. Typed /\ Len(sealed) \in Nat /\ nextMsg[e] \in Nat \ {0} /\ n \in Nat /\ 1 <= n
  BY SealedTypes, Sizes DEF Inv, Typed
<1>2. PICK m \in SendType :
         m.msg = nextMsg[e] /\ m.next = 1 /\ m.total = n /\ Emit(e, m, how)
  <2>1. [mid |-> Len(sealed) + 1, msg |-> nextMsg[e], next |-> 1, total |-> n] \in SendType
    BY <1>1 DEF SendType
  <2> QED BY <2>1 DEF Send
<1>3. /\ nextMsg' \in [End -> Nat \ {0}] /\ \A g \in End : nextMsg'[g] >= nextMsg[g]
      /\ m.msg < nextMsg'[e]
  BY <1>1, <1>2 DEF Typed, Send
<1>4. \A u \in Frames(Peer(e)) : sealed[u].msg # m.msg
  <2>1. Peer(e) \in End /\ Peer(Peer(e)) = e
    BY PeerIsOther
  <2>2. \A u \in Frames(Peer(e)) :
           u \in 1 .. Len(sealed) /\ sealed[u].msg < nextMsg[Peer(Peer(e))]
    BY <2>1 DEF Inv, NumbersTell
  <2>3. \A u \in 1 .. Len(sealed) : sealed[u].msg \in Nat
    BY <1>1, SealedTypes DEF SealedType
  <2> QED BY <1>1, <1>2, <2>1, <2>2, <2>3
<1>5. up /\ sess[e].est
  BY DEF Send
<1> QED BY <1>1, <1>2, <1>3, <1>4, <1>5, EmitStep

\* A further fragment bears the number of its message.
LEMMA SendOnStep ==
    ASSUME Inv, NEW e \in End, NEW how \in Outcomes, SendOn(e, how)
    PROVE  Inv'
<1>1. PICK m \in SendType : m = sending[e] /\ m # Idle /\ Emit(e, m, how)
  BY DEF SendOn, Inv, Typed
<1>2. nextMsg' \in [End -> Nat \ {0}] /\ \A g \in End : nextMsg'[g] >= nextMsg[g]
  BY DEF SendOn, Inv, Typed
<1>3. /\ m.msg < nextMsg'[e] /\ m.next \in 1 .. m.total
      /\ \A u \in Frames(Peer(e)) : sealed[u].msg = m.msg
           => sealed[u].mid = m.mid /\ sealed[u].total = m.total
  BY <1>1 DEF SendOn, Inv, NumbersTell
<1>4. up /\ sess[e].est
  BY DEF SendOn, Inv, Quiet
<1> QED BY <1>1, <1>2, <1>3, <1>4, EmitStep

---------------------------------------------------------------------------
(* The replay window. *)

\* A number that is let in was not known; marking it makes it known, forgets none, and
\* invents none.
LEMMA MarkWindow ==
    ASSUME NEW s \in SessType, NEW q \in Nat, ReplayOK(s, q)
    PROVE  /\ ~Known(s, q)
           /\ Mark(s, q) \in SessType /\ Known(Mark(s, q), q)
           /\ Mark(s, q).est = s.est /\ Mark(s, q).key = s.key /\ Mark(s, q).ctr = s.ctr
           /\ \A r \in Nat : Known(s, r) => Known(Mark(s, q), r)
           /\ \A d \in Mark(s, q).bits :
                \/ q = Mark(s, q).max - d
                \/ \E c \in s.bits : s.max - c = Mark(s, q).max - d
<1>1. /\ Window \in Nat /\ Window >= 1 /\ s.max \in Nat /\ s.bits \subseteq 0 .. Window - 1
      /\ s.seen \in BOOLEAN
  BY Sizes DEF SessType
<1>2. ~Known(s, q)
  BY <1>1 DEF ReplayOK, Known
<1>3. CASE ~s.seen
  <2> DEFINE t == [s EXCEPT !.max = q, !.bits = {0}, !.seen = TRUE]
  <2>1. /\ t.max = q /\ t.bits = {0} /\ t.seen /\ t.est = s.est /\ t.key = s.key
        /\ t.ctr = s.ctr
    BY DEF SessType
  <2>2. t \in SessType
    <3>1. {0} \subseteq 0 .. Window - 1
      BY <1>1
    <3> QED BY <2>1, <3>1 DEF SessType
  <2>3. Mark(s, q) = t
    BY <1>3 DEF Mark
  <2>4. Known(t, q) /\ \A r \in Nat : ~Known(s, r)
    BY <1>3, <2>1 DEF Known
  <2> HIDE DEF t
  <2> QED BY <1>2, <2>1, <2>2, <2>3, <2>4
<1>4. CASE s.seen /\ q > s.max
  <2> DEFINE B == {0} \cup {d \in 1 .. Window - 1 : d - (q - s.max) \in s.bits}
             t == [s EXCEPT !.max = q, !.bits = B]
  <2>1. t.max = q /\ t.bits = B /\ t.seen /\ t.est = s.est /\ t.key = s.key /\ t.ctr = s.ctr
    BY <1>4 DEF SessType
  <2>2. B \subseteq 0 .. Window - 1
    BY <1>1
  <2>3. t \in SessType
    BY <2>1, <2>2 DEF SessType
  <2>4. Mark(s, q) = t
    BY <1>4 DEF Mark
  <2>5. Known(t, q)
    BY <2>1 DEF Known
  <2>6. ASSUME NEW r \in Nat, Known(s, r) PROVE Known(t, r)
    <3>1. r <= s.max /\ (s.max - r < Window => s.max - r \in s.bits)
      BY <2>6 DEF Known
    <3>2. q - r < Window => /\ q - r \in 1 .. Window - 1 /\ (q - r) - (q - s.max) = s.max - r
                            /\ s.max - r < Window
      BY <1>1, <1>4, <3>1
    <3>3. q - r < Window => q - r \in B
      BY <3>1, <3>2
    <3> QED BY <1>1, <1>4, <2>1, <3>1, <3>3 DEF Known
  <2>7. ASSUME NEW d \in B, d # 0 PROVE \E c \in s.bits : s.max - c = q - d
    <3>1. d \in 1 .. Window - 1 /\ d - (q - s.max) \in s.bits
      BY <2>7
    <3>2. s.max - (d - (q - s.max)) = q - d
      BY <1>1, <3>1
    <3> QED BY <3>1, <3>2
  <2>8. \A d \in t.bits : q = t.max - d \/ \E c \in s.bits : s.max - c = t.max - d
    BY <2>1, <2>7
  <2> HIDE DEF t
  <2> QED BY <1>2, <2>1, <2>3, <2>4, <2>5, <2>6, <2>8
<1>5. CASE s.seen /\ ~(q > s.max)
  <2> DEFINE B == s.bits \cup {s.max - q}
             t == [s EXCEPT !.bits = B]
  <2>1. /\ t.max = s.max /\ t.bits = B /\ t.seen /\ t.est = s.est /\ t.key = s.key
        /\ t.ctr = s.ctr
    BY <1>5 DEF SessType
  <2>2. s.max - q \in 0 .. Window - 1
    BY <1>1, <1>5 DEF ReplayOK
  <2>3. t \in SessType
    BY <1>1, <2>1, <2>2 DEF SessType
  <2>4. Mark(s, q) = t
    BY <1>5 DEF Mark
  <2>5. Known(t, q) /\ \A r \in Nat : Known(s, r) => Known(t, r)
    BY <1>1, <1>5, <2>1 DEF Known
  <2>6. s.max - (s.max - q) = q
    BY <1>1
  <2>7. \A d \in t.bits : q = t.max - d \/ \E c \in s.bits : s.max - c = t.max - d
    BY <2>1, <2>6
  <2> HIDE DEF t
  <2> QED BY <1>2, <2>1, <2>3, <2>4, <2>5, <2>7
<1> QED BY <1>1, <1>3, <1>4, <1>5

---------------------------------------------------------------------------
(* Opening. *)

\* As many different fragments as there are: all of them.
LEMMA AllFragments ==
    ASSUME NEW S, NEW n \in Nat, Cardinality(S) = n,
           NEW g \in [S -> 1 .. n], \A v, w \in S : g[v] = g[w] => v = w
    PROVE  {g[v] : v \in S} = 1 .. n
<1>1. IsFiniteSet(1 .. n) /\ Cardinality(1 .. n) = n
  BY FS_Interval
<1>2. g \in Injection(S, 1 .. n)
  BY Fun_IsInj
<1>3. g \in Surjection(S, 1 .. n)
  BY <1>1, <1>2, FS_Injection
<1>4. \A i \in 1 .. n : \E v \in S : g[v] = i
  BY <1>3 DEF Surjection
<1> QED BY <1>4

\* The buffer that fragment u goes into, and what it holds then.
Before(e, u) == Buffer(reasm[e], sealed[u])
After(e, u) == {v \in Before(e, u).parts : sealed[v].frag # sealed[u].frag} \cup {u}

\* There are fragments of one message in it, different ones, and no more than there are.
LEMMA Collects ==
    ASSUME Inv, NEW e \in End, NEW u \in Frames(e), NEW b, NEW parts,
           b = Before(e, u), parts = After(e, u)
    PROVE  /\ b \in ReasmType /\ b.active /\ b.msg = sealed[u].msg
           /\ b.parts \subseteq Frames(e) /\ Cardinality(b.parts) < b.total
           /\ \A v \in b.parts : sealed[v].msg = b.msg /\ sealed[v].total = b.total
           /\ \A v, w \in b.parts : sealed[v].frag = sealed[w].frag => v = w
           /\ parts \subseteq Frames(e) /\ Cardinality(parts) <= b.total
           /\ \A v \in parts : sealed[v].msg = b.msg
           /\ \A v, w \in parts : sealed[v].frag = sealed[w].frag => v = w
<1>0. /\ b = Buffer(reasm[e], sealed[u])
      /\ parts = {v \in b.parts : sealed[v].frag # sealed[u].frag} \cup {u}
  BY DEF Before, After
<1>1. /\ Frames(e) \subseteq 1 .. Len(sealed) /\ Len(sealed) \in Nat
      /\ reasm[e] \in ReasmType /\ sealed[u] \in SealedType
      /\ sealed[u].frag \in 1 .. sealed[u].total /\ sealed[u].total \in Nat
  BY SealedTypes DEF Inv, NumbersTell, Typed, SealedType
<1>2. /\ b \in ReasmType /\ b.active /\ b.msg = sealed[u].msg
      /\ b.parts \subseteq Frames(e) /\ Cardinality(b.parts) < b.total
      /\ \A v \in b.parts : sealed[v].msg = b.msg /\ sealed[v].total = b.total
      /\ \A v, w \in b.parts : sealed[v].frag = sealed[w].frag => v = w
  <2>1. CASE StartsMessage(reasm[e], sealed[u])
    <3>1. b = [active |-> TRUE, msg |-> sealed[u].msg, total |-> sealed[u].total, parts |-> {}]
      BY <1>0, <2>1 DEF Buffer
    <3>2. b \in ReasmType
      BY <1>1, <3>1 DEF ReasmType, SealedType
    <3>3. Cardinality({}) = 0 /\ 0 < sealed[u].total
      BY <1>1, FS_EmptySet
    <3> QED BY <3>1, <3>2, <3>3
  <2>2. CASE ~StartsMessage(reasm[e], sealed[u])
    <3>1. b = reasm[e] /\ b.active /\ b.msg = sealed[u].msg
      BY <1>0, <1>1, <2>2 DEF Buffer, StartsMessage, ReasmType
    <3> QED BY <1>1, <3>1 DEF Inv, BufferHolds
  <2> QED BY <2>1, <2>2
<1>3. IsFiniteSet(b.parts)
  <2>1. PICK n \in Int : n = Len(sealed)
    BY <1>1
  <2>2. IsFiniteSet(1 .. n)
    BY FS_Interval
  <2>3. b.parts \in SUBSET (1 .. n)
    BY <1>1, <1>2, <2>1
  <2> QED BY <2>2, <2>3, FS_Subset
<1>4. parts \subseteq Frames(e) /\ \A v \in parts : sealed[v].msg = b.msg
  BY <1>0, <1>2
<1>5. \A v, w \in parts : sealed[v].frag = sealed[w].frag => v = w
  BY <1>0, <1>2
<1>6. Cardinality(parts) <= b.total
  <2> DEFINE old == {v \in b.parts : sealed[v].frag # sealed[u].frag}
  <2>1. old \in SUBSET b.parts
    OBVIOUS
  <2>2. IsFiniteSet(old) /\ Cardinality(old) <= Cardinality(b.parts)
    BY <1>3, <2>1, FS_Subset
  <2>3. Cardinality(old) \in Nat /\ Cardinality(b.parts) \in Nat
    BY <1>3, <2>2, FS_CardinalityType
  <2>4. parts = old \cup {u} /\ b.total \in Nat
    BY <1>0, <1>2 DEF ReasmType
  <2> HIDE DEF old
  <2>5. /\ IsFiniteSet(old \cup {u})
        /\ Cardinality(old \cup {u}) =
             IF u \in old THEN Cardinality(old) ELSE Cardinality(old) + 1
    BY <2>2, FS_AddElement
  <2>6. Cardinality(old \cup {u}) <= Cardinality(old) + 1 /\ Cardinality(old \cup {u}) \in Nat
    BY <2>3, <2>5
  <2>7. Cardinality(old) <= Cardinality(b.parts) /\ Cardinality(b.parts) < b.total
    BY <1>2, <2>2
  <2>8. Cardinality(old \cup {u}) <= b.total
    BY <2>3, <2>4, <2>6, <2>7
  <2> QED BY <2>4, <2>8
<1> QED BY <1>2, <1>4, <1>5, <1>6

\* A message of which every fragment is there is whole.
LEMMA WholeIsComplete ==
    ASSUME Inv, NEW e \in End, NEW m \in SUBSET Frames(e), NEW n \in Nat,
           Cardinality(m) = n, m # {},
           \A v \in m : sealed[v].total = n,
           \A v, w \in m : sealed[v].msg = sealed[w].msg,
           \A v, w \in m : sealed[v].frag = sealed[w].frag => v = w
    PROVE  Complete(m)
<1>1. \A v \in m : v \in 1 .. Len(sealed) /\ sealed[v].frag \in 1 .. n
  BY DEF Inv, NumbersTell
<1>2. \A v, w \in m : SameMessage(v, w)
  BY DEF Inv, NumbersTell
<1>3. {sealed[v].frag : v \in m} = 1 .. n
  <2> DEFINE g == [v \in m |-> sealed[v].frag]
  <2>1. g \in [m -> 1 .. n] /\ \A v, w \in m : g[v] = g[w] => v = w
    BY <1>1
  <2> HIDE DEF g
  <2>2. {g[v] : v \in m} = 1 .. n
    BY <2>1, AllFragments
  <2> QED BY <2>2 DEF g
<1> QED BY <1>1, <1>2, <1>3 DEF Complete

\* A sealed frame that opens has not been opened before; its message is delivered when the
\* last of its fragments is there.
LEMMA OnSealedStep ==
    ASSUME Inv, NEW e \in End, NEW f \in net[e], OnSealed(e, f)
    PROVE  Inv'
<1>1. PICK u \in Frames(e) : u = f.u
  BY FrameShapes DEF OnSealed, Inv, Typed, Frames
<1>2. /\ u \in 1 .. Len(sealed) /\ u \in 1 .. MaxSealed /\ Len(sealed) \in Nat
      /\ Len(sealed) <= MaxSealed /\ sealed[u].from = Peer(e)
      /\ sealed[u].frag \in 1 .. sealed[u].total
  BY <1>1, SealedTypes, Sizes DEF Inv, NumbersTell, Typed
<1>3. PICK x \in SealedType : x = sealed[u]
  BY <1>2, SealedTypes DEF Inv
<1>4. /\ sess[e].est /\ x.key = Opposite(sess[e].key) /\ ReplayOK(sess[e], x.seq)
      /\ sess' = [sess EXCEPT ![e] = Mark(sess[e], x.seq)]
      /\ opened' = [opened EXCEPT ![u] = @ + 1]
  BY <1>1, <1>3 DEF OnSealed, Opens
<1>5. UNCHANGED <<pair, drawn, shown, saved, since, overrun, nextMsg, sending, up, cuts, net,
                sealed>>
  BY DEF OnSealed, pairVars
<1>6. \A g \in End : Frames(g)' = Frames(g)
  BY <1>5 DEF Frames
<1>7. PICK s \in SessType :
         /\ s = Mark(sess[e], x.seq) /\ s.est = sess[e].est /\ s.key = sess[e].key
         /\ s.ctr = sess[e].ctr /\ Known(s, x.seq) /\ ~Known(sess[e], x.seq)
         /\ \A r \in Nat : Known(sess[e], r) => Known(s, r)
         /\ \A d \in s.bits : \/ x.seq = s.max - d
                              \/ \E c \in sess[e].bits : sess[e].max - c = s.max - d
  <2>1. sess[e] \in SessType /\ x.seq \in Nat
    BY DEF Inv, Typed, SealedType
  <2> DEFINE t == Mark(sess[e], x.seq)
  <2>2. /\ ~Known(sess[e], x.seq)
        /\ t \in SessType /\ Known(t, x.seq)
        /\ t.est = sess[e].est /\ t.key = sess[e].key /\ t.ctr = sess[e].ctr
        /\ \A r \in Nat : Known(sess[e], r) => Known(t, r)
        /\ \A d \in t.bits : \/ x.seq = t.max - d
                             \/ \E c \in sess[e].bits : sess[e].max - c = t.max - d
    BY <1>4, <2>1, MarkWindow
  <2> HIDE DEF t
  <2>3. t = Mark(sess[e], x.seq)
    BY DEF t
  <2> QED BY <2>2, <2>3
<1>8. sess' \in [End -> SessType] /\ sess'[e] = s /\ \A g \in End : g # e => sess'[g] = sess[g]
  BY <1>4, <1>7 DEF Inv, Typed
<1>9. opened[u] = 0
  <2>1. opened[u] > 0 /\ sealed[u].key = Opposite(sess[e].key) => Known(sess[e], sealed[u].seq)
    BY <1>1, <1>4 DEF Inv, WindowKnows
  <2>2. opened[u] \in Nat
    BY <1>2 DEF Inv, Typed
  <2> QED BY <1>3, <1>4, <1>7, <2>1, <2>2
<1>10. /\ opened' \in [1 .. MaxSealed -> Nat] /\ opened'[u] = 1
       /\ \A v \in 1 .. MaxSealed : v # u => opened'[v] = opened[v]
  BY <1>2, <1>4, <1>9 DEF Inv, Typed
<1>11. PICK b : b = Buffer(reasm[e], x)
  OBVIOUS
<1>12. PICK parts : parts = {v \in b.parts : sealed[v].frag # x.frag} \cup {u}
  OBVIOUS
<1>13. /\ b \in ReasmType /\ b.active /\ b.msg = x.msg
       /\ b.parts \subseteq Frames(e) /\ Cardinality(b.parts) < b.total
       /\ \A v \in b.parts : sealed[v].msg = b.msg /\ sealed[v].total = b.total
       /\ \A v, w \in b.parts : sealed[v].frag = sealed[w].frag => v = w
       /\ parts \subseteq Frames(e) /\ Cardinality(parts) <= b.total
       /\ \A v \in parts : sealed[v].msg = b.msg
       /\ \A v, w \in parts : sealed[v].frag = sealed[w].frag => v = w
  <2>1. /\ b = Buffer(reasm[e], sealed[u])
        /\ parts = {v \in b.parts : sealed[v].frag # sealed[u].frag} \cup {u}
    BY <1>3, <1>11, <1>12
  <2>2. b = Before(e, u) /\ parts = After(e, u)
    BY <2>1 DEF Before, After
  <2> QED BY <1>3, <2>2, Collects
<1>14. \A v \in Frames(e) : v \in 1 .. Len(sealed)
  BY DEF Inv, NumbersTell
<1>15. Cardinality(parts) \in Nat
  <2>1. PICK n \in Int : n = Len(sealed)
    BY <1>2
  <2>2. IsFiniteSet(1 .. n)
    BY FS_Interval
  <2>3. parts \in SUBSET (1 .. n)
    BY <1>13, <1>14, <2>1
  <2> QED BY <2>2, <2>3, FS_Subset, FS_CardinalityType
<1>16. \A v \in parts : b.total = x.total => sealed[v].total = b.total
  <2> SUFFICES ASSUME NEW v \in parts, b.total = x.total PROVE sealed[v].total = b.total
    OBVIOUS
  <2>1. v \in Frames(e) /\ u \in Frames(e) /\ sealed[v].msg = sealed[u].msg
    BY <1>3, <1>13
  <2> QED BY <1>3, <2>1 DEF Inv, NumbersTell, SameMessage
<1>17. /\ reasm' \in [End -> ReasmType]
       /\ \A g \in End : g # e => reasm'[g] = reasm[g]
       /\ \/ reasm'[e] = reasm[e]
          \/ reasm'[e] = b
          \/ /\ b.total = x.total /\ reasm'[e].parts = parts /\ reasm'[e].msg = b.msg
             /\ reasm'[e].total = b.total
             /\ reasm'[e].active => Cardinality(parts) # b.total
  <2>1. reasm \in [End -> ReasmType]
    BY DEF Inv, Typed
  <2>2. CASE x.total = 1
    BY <1>1, <1>3, <2>1, <2>2 DEF OnSealed
  <2>3. CASE x.total # 1 /\ b.total # x.total
    <3>1. reasm' = [reasm EXCEPT ![e] = b]
      BY <1>1, <1>3, <1>11, <2>3 DEF OnSealed
    <3> QED BY <1>13, <2>1, <3>1
  <2>4. CASE x.total # 1 /\ b.total = x.total
    <3> DEFINE whole == Cardinality(parts) = b.total
               r == [b EXCEPT !.parts = parts, !.active = ~whole]
    <3>1. reasm' = [reasm EXCEPT ![e] = r]
      BY <1>1, <1>3, <1>11, <1>12, <2>4 DEF OnSealed
    <3>2. /\ r.parts = parts /\ r.active = ~whole /\ r.msg = b.msg /\ r.total = b.total
      BY <1>13 DEF ReasmType
    <3>3. r \in ReasmType
      <4>1. parts \in SUBSET Nat
        BY <1>13, <1>14
      <4> QED BY <1>13, <3>2, <4>1 DEF ReasmType
    <3> HIDE DEF r
    <3> QED BY <2>1, <2>4, <3>1, <3>2, <3>3
  <2> QED BY <2>2, <2>3, <2>4
<1>18. Typed'
  BY <1>5, <1>8, <1>10, <1>17 DEF Inv, Typed
<1>19. Roles' /\ CounterOnce'
  BY <1>5 DEF Inv, Roles, CounterOnce
<1>20. Quiet'
  <2>1. up
    BY DEF Inv, Quiet
  <2> QED BY <1>5, <2>1 DEF Quiet
<1>21. KeysApart'
  <2>1. ASSUME NEW g \in End, NEW k \in Key, Uses(g, k)' PROVE Uses(g, k)
    <3>1. CASE sess'[g].est /\ sess'[g].key = k
      BY <1>7, <1>8, <3>1 DEF Uses
    <3>2. CASE saved'[g].has /\ saved'[g].key = k
      BY <1>5, <3>2 DEF Uses
    <3>3. CASE \E v \in 1 .. Len(sealed') : sealed'[v].from = g /\ sealed'[v].key = k
      BY <1>5, <3>3 DEF Uses
    <3>4. CASE \E v \in Frames(g)' : opened'[v] > 0 /\ k = Opposite(sealed'[v].key)
      <4>1. PICK v \in Frames(g) : opened'[v] > 0 /\ k = Opposite(sealed[v].key)
        BY <1>5, <1>6, <3>4
      <4>2. v \in 1 .. MaxSealed /\ sealed[v].from = Peer(g)
        <5>1. v \in 1 .. Len(sealed) /\ sealed[v].from = Peer(g)
          BY DEF Inv, NumbersTell
        <5> QED BY <1>2, <5>1, Sizes
      <4>3. CASE v # u
        BY <1>10, <4>1, <4>2, <4>3 DEF Uses
      <4>4. CASE v = u
        <5>1. g = e
          BY <1>2, <4>2, <4>4, PeerIsOther
        <5>2. sess[e].key \in Key
          BY DEF Inv, Typed, SessType
        <5>3. k = sess[e].key
          BY <1>3, <1>4, <4>1, <4>4, <5>2, KeyTypes
        <5> QED BY <1>4, <5>1, <5>3 DEF Uses
      <4> QED BY <4>3, <4>4
    <3> QED BY <2>1, <3>1, <3>2, <3>3, <3>4 DEF Uses
  <2>2. \A g \in End : Pairing(g)' => Pairing(g) /\ Pledge(g)' = Pledge(g)
    BY <1>5 DEF Pairing, Pledge
  <2> QED BY <1>5, <2>1, <2>2, KeysKept DEF Inv
<1>22. CountersAhead'
  <2>1. \A g \in End : /\ sess'[g].est = sess[g].est /\ sess'[g].key = sess[g].key
                       /\ sess'[g].ctr = sess[g].ctr
    BY <1>7, <1>8
  <2> QED BY <1>5, <2>1 DEF Inv, CountersAhead, Backed, Ahead
<1>23. WindowKnows'
  <2>1. \A v \in 1 .. MaxSealed : opened'[v] <= 1 /\ (v > Len(sealed) => opened'[v] = 0)
    BY <1>2, <1>10 DEF Inv, WindowKnows
  <2>2. \A v \in 1 .. Len(sealed) : v \in 1 .. MaxSealed /\ opened[v] \in Nat
                                    /\ (opened[v] > 0 => opened'[v] > 0)
    <3>1. \A v \in 1 .. Len(sealed) : v \in 1 .. MaxSealed
      BY <1>2, Sizes
    <3>2. \A v \in 1 .. MaxSealed : opened[v] \in Nat
      BY DEF Inv, Typed
    <3> QED BY <1>10, <3>1, <3>2
  <2>3. ASSUME NEW g \in End, sess'[g].est, NEW v \in Frames(g), opened'[v] > 0,
               sealed[v].key = Opposite(sess'[g].key)
        PROVE  Known(sess'[g], sealed[v].seq)
    <3>1. v \in 1 .. Len(sealed) /\ sealed[v].from = Peer(g) /\ sealed[v].seq \in Nat
      BY SealedTypes DEF Inv, NumbersTell, SealedType
    <3>2. CASE g = e /\ v = u
      BY <1>3, <1>7, <1>8, <3>2
    <3>3. CASE g = e /\ v # u
      <4>1. opened[v] > 0
        BY <1>10, <2>2, <2>3, <3>1, <3>3
      <4>2. Known(sess[e], sealed[v].seq)
        BY <1>4, <1>7, <1>8, <2>3, <3>3, <4>1 DEF Inv, WindowKnows
      <4> QED BY <1>7, <1>8, <3>1, <3>3, <4>2
    <3>4. CASE g # e
      <4>1. v # u
        BY <1>2, <3>1, <3>4, PeerIsOther
      <4>2. opened[v] > 0 /\ sess'[g] = sess[g]
        BY <1>8, <1>10, <2>2, <2>3, <3>1, <3>4, <4>1
      <4> QED BY <2>3, <4>2 DEF Inv, WindowKnows
    <3> QED BY <3>2, <3>3, <3>4
  <2>4. ASSUME NEW g \in End, sess'[g].est, NEW d \in sess'[g].bits
        PROVE  \E v \in 1 .. Len(sealed) : /\ opened'[v] > 0
                                           /\ sealed[v].key = Opposite(sess'[g].key)
                                           /\ sealed[v].seq = sess'[g].max - d
    <3>1. ASSUME NEW c \in sess[g].bits, sess[g].est
          PROVE  \E v \in 1 .. Len(sealed) : /\ opened'[v] > 0
                                             /\ sealed[v].key = Opposite(sess[g].key)
                                             /\ sealed[v].seq = sess[g].max - c
      BY <2>2, <3>1 DEF Inv, WindowKnows
    <3>2. CASE g # e
      BY <1>8, <2>4, <3>1, <3>2
    <3>3. CASE g = e /\ x.seq = s.max - d
      <4>1. /\ opened'[u] > 0 /\ sealed[u].key = Opposite(sess'[g].key)
            /\ sealed[u].seq = sess'[g].max - d
        <5>1. opened'[u] = 1 /\ sess'[g] = s
          BY <1>8, <1>10, <3>3
        <5>2. sealed[u].key = Opposite(s.key)
          BY <1>3, <1>4, <1>7
        <5>3. sealed[u].seq = s.max - d
          BY <1>3, <3>3
        <5> QED BY <5>1, <5>2, <5>3
      <4> QED BY <1>2, <4>1
    <3>4. CASE g = e /\ \E c \in sess[e].bits : sess[e].max - c = s.max - d
      BY <1>4, <1>7, <1>8, <3>1, <3>4
    <3> QED BY <1>7, <1>8, <2>4, <3>2, <3>3, <3>4
  <2> QED BY <1>5, <1>6, <2>1, <2>3, <2>4 DEF WindowKnows
<1>24. NumbersTell'
  <2>1. \A g \in End : nextMsg'[g] >= nextMsg[g]
    BY <1>5 DEF Inv, Typed
  <2> QED BY <1>5, <1>6, <1>18, <2>1, NumbersKept
<1>25. BufferHolds'
  <2> SUFFICES ASSUME NEW g \in End
               PROVE  /\ reasm'[g].parts \subseteq 1 .. Len(sealed)
                      /\ reasm'[g].active =>
                           /\ reasm'[g].parts \subseteq Frames(g)
                           /\ Cardinality(reasm'[g].parts) < reasm'[g].total
                           /\ \A v \in reasm'[g].parts :
                                /\ sealed[v].msg = reasm'[g].msg
                                /\ sealed[v].total = reasm'[g].total
                           /\ \A v, w \in reasm'[g].parts :
                                sealed[v].frag = sealed[w].frag => v = w
    BY <1>5, <1>6 DEF BufferHolds
  <2>1. CASE reasm'[g] = reasm[g]
    BY <2>1 DEF Inv, BufferHolds
  <2>2. CASE g = e /\ reasm'[e] = b
    BY <1>13, <1>14, <2>2
  <2>3. CASE /\ g = e /\ b.total = x.total /\ reasm'[e].parts = parts
             /\ reasm'[e].msg = b.msg /\ reasm'[e].total = b.total
             /\ reasm'[e].active => Cardinality(parts) # b.total
    <3>1. b.total \in Nat
      BY <1>13 DEF ReasmType
    <3>2. reasm'[e].active => Cardinality(parts) < b.total
      BY <1>13, <1>15, <2>3, <3>1
    <3> QED BY <1>13, <1>14, <1>16, <2>3, <3>2
  <2> QED BY <1>17, <2>1, <2>2, <2>3
<1>26. Delivered'
  <2>1. \A m \in messages : Complete(m)
    BY DEF Inv, Delivered
  <2>2. x.total = 1 => Complete({u})
    <3> SUFFICES ASSUME x.total = 1 PROVE Complete({u})
      OBVIOUS
    <3>1. Cardinality({u}) = 1 /\ {u} \in SUBSET Frames(e)
      BY FS_Singleton
    <3> QED BY <1>3, <3>1, WholeIsComplete
  <2>3. b.total = x.total /\ Cardinality(parts) = b.total => Complete(parts)
    <3> SUFFICES ASSUME b.total = x.total, Cardinality(parts) = b.total PROVE Complete(parts)
      OBVIOUS
    <3>1. /\ parts # {} /\ b.total \in Nat /\ parts \in SUBSET Frames(e)
          /\ \A v \in parts : sealed[v].total = b.total
          /\ \A v, w \in parts : sealed[v].msg = sealed[w].msg
          /\ \A v, w \in parts : sealed[v].frag = sealed[w].frag => v = w
      BY <1>12, <1>13, <1>16 DEF ReasmType
    <3> QED BY <3>1, WholeIsComplete
  <2>4. \A m \in messages' : \/ m \in messages
                             \/ x.total = 1 /\ m = {u}
                             \/ b.total = x.total /\ Cardinality(parts) = b.total /\ m = parts
    BY <1>1, <1>3, <1>11, <1>12 DEF OnSealed
  <2>5. \A m \in messages' : Complete(m)
    BY <2>1, <2>2, <2>3, <2>4
  <2> QED BY <1>5, <2>5 DEF Delivered, Complete, SameMessage
<1> QED BY <1>18, <1>19, <1>20, <1>21, <1>22, <1>23, <1>24, <1>25, <1>26 DEF Inv

---------------------------------------------------------------------------
(* The connection. *)

\* A lost connection takes the sessions and the frames with it; the counters stay in flash.
LEMMA DisconnectStep ==
    ASSUME Inv, Disconnect
    PROVE  Inv'
<1>1. UNCHANGED <<saved, since, overrun, drawn, sealed, opened, messages, shown>>
  BY DEF Disconnect, history
<1>2. \A e \in End : /\ pair'[e] = NoPair /\ sess'[e] = NoSess /\ reasm'[e] = NoReasm
                     /\ sending'[e] = Idle /\ net'[e] = {}
  BY DEF Disconnect
<1>3. \A e \in End : /\ ~Pairing(e)' /\ pair'[e].state # "sentReq" /\ ~sess'[e].est
                     /\ reasm'[e].parts = {} /\ ~reasm'[e].active
                     /\ Frames(e)' = {} /\ sending'[e] = Idle
  BY <1>2 DEF Pairing, NoPair, NoSess, NoReasm, Frames
<1>4. Typed'
  <2>1. cuts' \in 0 .. MaxCuts
    BY Sizes DEF Disconnect, Inv, Typed
  <2>2. /\ pair' \in [End -> PairType] /\ sess' \in [End -> SessType]
        /\ reasm' \in [End -> ReasmType] /\ sending' \in [End -> SendType]
    BY BlankTypes DEF Disconnect
  <2>3. nextMsg' \in [End -> Nat \ {0}]
    BY DEF Disconnect
  <2>4. net' \in [End -> SUBSET Frame] /\ up' \in BOOLEAN
    BY DEF Disconnect
  <2> QED BY <1>1, <2>1, <2>2, <2>3, <2>4 DEF Inv, Typed
<1>5. Roles' /\ Quiet' /\ CounterOnce'
  BY <1>1, <1>2, <1>3 DEF Inv, Roles, Quiet, CounterOnce
<1>6. KeysApart'
  <2>1. ASSUME NEW e \in End, NEW k \in Key, Uses(e, k)' PROVE Uses(e, k)
    <3>1. ~(\E u \in Frames(e)' : opened'[u] > 0 /\ k = Opposite(sealed'[u].key))
      BY <1>3
    <3> QED BY <1>1, <1>3, <2>1, <3>1 DEF Uses
  <2> QED BY <1>1, <1>3, <2>1, KeysKept DEF Inv
<1>7. CountersAhead'
  BY <1>1, <1>3 DEF Inv, CountersAhead, Backed, Ahead
<1>8. WindowKnows'
  <2>1. \A u \in 1 .. MaxSealed : opened'[u] <= 1 /\ (u > Len(sealed') => opened'[u] = 0)
    BY <1>1 DEF Inv, WindowKnows
  <2> QED BY <1>3, <2>1 DEF WindowKnows
<1>9. NumbersTell' /\ BufferHolds'
  BY <1>3 DEF NumbersTell, BufferHolds
<1>10. Delivered'
  BY <1>1 DEF Inv, Delivered, Complete, SameMessage
<1> QED BY <1>4, <1>5, <1>6, <1>7, <1>8, <1>9, <1>10 DEF Inv

\* A restored session starts above everything that was sealed since it was saved.
LEMMA ConnectStep ==
    ASSUME Inv, Connect
    PROVE  Inv'
<1>1. UNCHANGED <<overrun, reasm, nextMsg, sending, drawn, cuts, net, sealed, opened, messages,
                shown>>
      /\ ~up /\ up' = TRUE
  BY DEF Connect, Resume, history
<1>2. saved \in [End -> Blob] /\ since \in [End -> 0 .. Stride - 1] /\ 0 \in 0 .. Stride - 1
  BY Sizes DEF Inv, Typed
<1>3. ASSUME NEW e \in End
      PROVE  /\ sess'[e] \in SessType /\ pair'[e] \in PairType /\ saved'[e] \in Blob
             /\ since'[e] \in 0 .. Stride - 1 /\ pair'[e].state \in {"idle", "established"}
             /\ \/ ~sess'[e].est /\ saved'[e] = saved[e] /\ since'[e] = since[e]
                \/ /\ sess'[e].est /\ sess'[e].bits = {}
                   /\ saved[e].has /\ saved'[e].has
                   /\ sess'[e].key = saved[e].key /\ saved'[e].key = saved[e].key
                   /\ sess'[e].ctr = saved[e].ctr + Margin /\ saved'[e].ctr = sess'[e].ctr
                   /\ since'[e] = 0
  <2>1. CASE e \notin Returning
    <3>1. /\ sess'[e] = NoSess /\ pair'[e] = NoPair /\ saved'[e] = saved[e]
          /\ since'[e] = since[e]
      BY <2>1 DEF Connect, Resume
    <3> QED BY <1>2, <3>1, BlankTypes DEF NoSess, NoPair
  <2>2. CASE e \in Returning
    <3> DEFINE s == Restored(saved[e])
               p == [NoPair EXCEPT !.state = "established"]
    <3>1. /\ sess'[e] = s /\ pair'[e] = p /\ saved'[e] = Export(s) /\ since'[e] = 0
      BY <2>2 DEF Connect, Resume
    <3>2. /\ saved[e].has /\ saved[e].key \in Key /\ saved[e].ctr \in Nat
          /\ saved[e].seen \in BOOLEAN /\ saved[e].max \in Nat
      BY <1>2, <2>2 DEF Returning, Restorable, Blob
    <3>3. s \in SessType /\ s.est /\ s.bits = {} /\ s.key = saved[e].key
          /\ s.ctr = saved[e].ctr + Margin
      BY <3>2, Sizes DEF Restored, SessType
    <3>4. Export(s) \in Blob /\ Export(s).has /\ Export(s).key = s.key /\ Export(s).ctr = s.ctr
      BY <3>3 DEF Export, SessType, Blob
    <3>5. p \in PairType /\ p.state = "established"
      BY BlankTypes DEF NoPair, PairType, States
    <3> HIDE DEF s, p
    <3> QED BY <1>2, <3>1, <3>2, <3>3, <3>4, <3>5
  <2> QED BY <2>1, <2>2
<1>4. \A e \in End : net'[e] = {} /\ Frames(e)' = {} /\ Frames(e) = {} /\ ~Pairing(e)'
                     /\ pair'[e].state # "sentReq"
  BY <1>1, <1>3 DEF Inv, Quiet, Frames, Pairing
<1>5. Typed'
  <2>1. /\ pair' \in [End -> PairType] /\ sess' \in [End -> SessType]
        /\ saved' \in [End -> Blob] /\ since' \in [End -> 0 .. Stride - 1]
    <3>1. /\ pair' = [e \in End |-> pair'[e]] /\ sess' = [e \in End |-> sess'[e]]
          /\ saved' = [e \in End |-> saved'[e]] /\ since' = [e \in End |-> since'[e]]
      BY DEF Connect, Resume
    <3> QED BY <1>3, <3>1
  <2> QED BY <1>1, <2>1 DEF Inv, Typed
<1>6. Roles' /\ Quiet' /\ CounterOnce'
  BY <1>1, <1>4 DEF Inv, Roles, Quiet, CounterOnce
<1>7. KeysApart'
  <2>1. ASSUME NEW e \in End, NEW k \in Key, Uses(e, k)' PROVE Uses(e, k)
    <3>1. CASE sess'[e].est /\ sess'[e].key = k
      BY <1>3, <3>1 DEF Uses
    <3>2. CASE saved'[e].has /\ saved'[e].key = k
      BY <1>3, <3>2 DEF Uses
    <3>3. CASE \E u \in 1 .. Len(sealed') : sealed'[u].from = e /\ sealed'[u].key = k
      BY <1>1, <3>3 DEF Uses
    <3>4. CASE \E u \in Frames(e)' : opened'[u] > 0 /\ k = Opposite(sealed'[u].key)
      BY <1>4, <3>4
    <3> QED BY <2>1, <3>1, <3>2, <3>3, <3>4 DEF Uses
  <2> QED BY <1>1, <1>4, <2>1, KeysKept DEF Inv
<1>8. CountersAhead'
  <2> SUFFICES ASSUME NEW e \in End
               PROVE  Backed(e)' /\ (~overrun => Ahead(e)')
    BY <1>1 DEF CountersAhead
  <2>1. saved[e].ctr \in Nat /\ \A u \in 1 .. Len(sealed) : sealed[u].seq \in Nat
    BY <1>2, SealedTypes DEF Inv, Blob, SealedType
  <2>2. ~overrun => \A u \in 1 .. Len(sealed) : saved[e].has /\ saved[e].key = sealed[u].key
                      => sealed[u].seq < saved[e].ctr + Margin
    BY DEF Inv, CountersAhead, Ahead
  <2>3. CASE ~sess'[e].est
    BY <1>1, <1>3, <2>2, <2>3 DEF Backed, Ahead
  <2>4. CASE sess'[e].est
    <3>1. /\ saved[e].has /\ saved'[e].has /\ sess'[e].key = saved[e].key
          /\ saved'[e].key = saved[e].key /\ sess'[e].ctr = saved[e].ctr + Margin
          /\ saved'[e].ctr = sess'[e].ctr /\ since'[e] = 0
      BY <1>3, <2>4
    <3>2. /\ sess'[e].ctr \in Nat /\ sess'[e].ctr < saved'[e].ctr + Margin
          /\ sess'[e].ctr >= saved'[e].ctr + since'[e]
          /\ sess'[e].ctr - saved'[e].ctr - since'[e] <= Margin - Stride
      <4>1. Margin - Stride >= 0 /\ Margin \in Nat /\ Margin >= 1
        BY Sizes
      <4>2. sess'[e].ctr \in Nat /\ saved'[e].ctr = sess'[e].ctr /\ since'[e] = 0
        BY <2>1, <3>1, <4>1
      <4> QED BY <4>1, <4>2, Sizes
    <3>3. Backed(e)'
      BY <3>1, <3>2 DEF Backed
    <3>4. ASSUME ~overrun PROVE Ahead(e)'
      <4>1. \A u \in 1 .. Len(sealed) :
               /\ sealed[u].key = sess'[e].key => sealed[u].seq < sess'[e].ctr
               /\ saved'[e].key = sealed[u].key => sealed[u].seq < saved'[e].ctr + Margin
        <5> SUFFICES ASSUME NEW u \in 1 .. Len(sealed)
                     PROVE  /\ sealed[u].key = sess'[e].key => sealed[u].seq < sess'[e].ctr
                            /\ saved'[e].key = sealed[u].key
                                 => sealed[u].seq < saved'[e].ctr + Margin
          OBVIOUS
        <5>1. sealed[u].seq \in Nat /\ saved[e].ctr \in Nat
          BY <2>1
        <5>2. saved[e].key = sealed[u].key => sealed[u].seq < saved[e].ctr + Margin
          BY <2>2, <3>1, <3>4
        <5>3. saved[e].key = sealed[u].key => sealed[u].seq < sess'[e].ctr
          BY <3>1, <5>2
        <5>4. Margin \in Nat /\ sess'[e].ctr \in Nat
          BY <3>2, Sizes
        <5>5. sealed[u].seq < sess'[e].ctr => sealed[u].seq < sess'[e].ctr + Margin
          BY <5>1, <5>4
        <5> QED BY <3>1, <5>3, <5>5
      <4>2. sealed' = sealed
        BY <1>1
      <4> QED BY <3>2, <4>1, <4>2 DEF Ahead
    <3> QED BY <3>3, <3>4
  <2> QED BY <2>3, <2>4
<1>9. WindowKnows'
  <2>1. \A u \in 1 .. MaxSealed : opened'[u] <= 1 /\ (u > Len(sealed') => opened'[u] = 0)
    BY <1>1 DEF Inv, WindowKnows
  <2>2. \A e \in End : sess'[e].est => sess'[e].bits = {}
    BY <1>3
  <2> QED BY <1>4, <2>1, <2>2 DEF WindowKnows
<1>10. CounterOnce' /\ NumbersTell' /\ BufferHolds' /\ Delivered'
  <2>1. \A e \in End : nextMsg'[e] >= nextMsg[e]
    BY <1>1 DEF Inv, Typed
  <2>2. \A e \in End : Frames(e)' = Frames(e)
    BY <1>4
  <2> QED BY <1>1, <1>5, <2>1, <2>2, MessagesKept
<1> QED BY <1>5, <1>6, <1>7, <1>8, <1>9, <1>10 DEF Inv

---------------------------------------------------------------------------
(* The invariant. *)

\* The two ends may have a session of earlier days in flash; it has a key for each.
LEMMA InitInv == ASSUME Init PROVE Inv
<1>1. /\ \A e \in End : /\ pair[e] = NoPair /\ sess[e] = NoSess /\ reasm[e] = NoReasm
                        /\ nextMsg[e] = 1 /\ sending[e] = Idle /\ since[e] = 0
                        /\ net[e] = {}
      /\ drawn = 0 /\ ~up /\ cuts = 0 /\ sealed = <<>> /\ messages = {}
      /\ \A u \in 1 .. MaxSealed : opened[u] = 0
  BY DEF Init
<1>2. Len(sealed) = 0
  BY <1>1
<1>3. \A e \in End : /\ ~Pairing(e) /\ pair[e].state # "sentReq" /\ ~sess[e].est
                     /\ reasm[e].parts = {} /\ ~reasm[e].active /\ Frames(e) = {}
                     /\ sending[e] = Idle
  BY <1>1 DEF Pairing, NoPair, NoSess, NoReasm, Frames
<1>4. Typed
  <2>1. /\ pair \in [End -> PairType] /\ sess \in [End -> SessType]
        /\ reasm \in [End -> ReasmType] /\ sending \in [End -> SendType]
        /\ nextMsg \in [End -> Nat \ {0}] /\ net \in [End -> SUBSET Frame]
        /\ since \in [End -> 0 .. Stride - 1]
    BY BlankTypes, Sizes DEF Init
  <2>2. saved \in [End -> Blob]
    BY BlankTypes DEF Init
  <2>3. shown \in [End -> Transcript] /\ opened \in [1 .. MaxSealed -> Nat]
    BY KeyTypes DEF Init
  <2>4. sealed \in Seq(SealedType) /\ Len(sealed) <= MaxSealed
    BY <1>1, <1>2, Sizes
  <2>5. drawn \in Draw /\ cuts \in 0 .. MaxCuts
    BY <1>1, Sizes DEF Draw
  <2>6. up \in BOOLEAN /\ overrun \in BOOLEAN
    BY DEF Init
  <2> QED BY <2>1, <2>2, <2>3, <2>4, <2>5, <2>6 DEF Typed
<1>5. Roles /\ Quiet
  BY <1>1, <1>3 DEF Roles, Quiet
<1>6. \A e, f \in End, k \in Key :
         Uses(e, k) => Own(k) = 0 /\ (Uses(f, k) => e = f)
  <2> SUFFICES ASSUME NEW e \in End, NEW f \in End, NEW k \in Key, Uses(e, k)
               PROVE  Own(k) = 0 /\ (Uses(f, k) => e = f)
    OBVIOUS
  <2>1. \A g \in End : Uses(g, k) => saved[g].has /\ saved[g].key = k
    BY <1>2, <1>3 DEF Uses
  <2>2. CASE saved = [g \in End |-> NoBlob]
    BY <2>1, <2>2 DEF NoBlob
  <2>3. CASE saved = [g \in End |-> OldBlob(g)]
    <3>1. PICK one : one = (CHOOSE g \in End : TRUE)
      OBVIOUS
    <3>2. \A g \in End : /\ OldBlob(g).key.dir = (IF g = one THEN "i2r" ELSE "r2i")
                         /\ OldBlob(g).key.t = NoTranscript
      BY <3>1 DEF OldBlob, NoBlob, NoKey
    <3>3. one \in End
      BY <3>1
    <3>4. \A g \in End : Uses(g, k) => /\ k.dir = (IF g = one THEN "i2r" ELSE "r2i")
                                       /\ k.t = NoTranscript
      BY <2>1, <2>3, <3>2
    <3>5. Own(k) = 0
      BY <3>4 DEF Own, NoTranscript
    <3>6. Uses(f, k) => (e = one <=> f = one)
      BY <3>4
    <3>7. \A g, h \in End : (g = one <=> h = one) => g = h
      BY <3>3, PeerIsOther
    <3> QED BY <3>5, <3>6, <3>7
  <2> QED BY <2>2, <2>3 DEF Init
<1>7. KeysApart
  <2>1. \A e \in End, k \in Key : Uses(e, k) => Own(k) <= drawn
    BY <1>1, <1>6
  <2>2. \A e, f \in End, k \in Key : Uses(e, k) /\ Uses(f, k) => e = f
    BY <1>6
  <2> QED BY <1>3, <2>1, <2>2 DEF KeysApart
<1>8. CounterOnce
  BY <1>1 DEF CounterOnce
<1>9. CountersAhead
  BY <1>1, <1>2, <1>3 DEF CountersAhead, Backed, Ahead
<1>10. WindowKnows
  BY <1>1, <1>3 DEF WindowKnows
<1>11. NumbersTell /\ BufferHolds /\ Delivered
  BY <1>1, <1>3 DEF NumbersTell, BufferHolds, Delivered
<1> QED BY <1>4, <1>5, <1>7, <1>8, <1>9, <1>10, <1>11 DEF Inv

\* Whatever happens on the link, the invariant holds.
LEMMA NextInv == ASSUME Inv, [Next]_vars PROVE Inv'
<1>1. ASSUME NEW e \in End, PairStart(e) PROVE Inv'
  BY <1>1, PairStartStep
<1>2. ASSUME NEW e \in End, Confirm(e) PROVE Inv'
  BY <1>2, ConfirmStep
<1>3. ASSUME NEW e \in End, Reject(e) PROVE Inv'
  BY <1>3, RejectStep
<1>4. ASSUME NEW e \in End, NEW how \in Outcomes, NEW n \in 1 .. FragMax, Send(e, n, how)
      PROVE  Inv'
  BY <1>4, SendStep
<1>5. ASSUME NEW e \in End, NEW how \in Outcomes, SendOn(e, how) PROVE Inv'
  BY <1>5, SendOnStep
<1>6. ASSUME NEW e \in End, NEW f \in net[e], OnFrame(e, f) PROVE Inv'
  BY <1>6, OnPairReqStep, OnPairRespStep, OnPairNaStep, OnPairNbStep, OnSealedStep DEF OnFrame
<1>7. CASE Disconnect
  BY <1>7, DisconnectStep
<1>8. CASE Connect
  BY <1>8, ConnectStep
<1>9. CASE UNCHANGED vars
  <2>1. UNCHANGED <<pair, sess, reasm, nextMsg, sending, saved, since, overrun, drawn, up, cuts,
                    net, sealed, opened, messages, shown>>
    BY <1>9 DEF vars
  <2>2. Typed' /\ Roles' /\ Quiet'
    BY <2>1 DEF Inv, Typed, Roles, Quiet, Pairing
  <2>3. \A e \in End : Frames(e)' = Frames(e) /\ nextMsg'[e] >= nextMsg[e]
    BY <2>1 DEF Frames, Inv, Typed
  <2>4. KeysApart'
    <3>1. \A e \in End : Pairing(e)' => Pairing(e) /\ Pledge(e)' = Pledge(e)
      BY <2>1 DEF Pairing, Pledge
    <3> QED BY <2>1, <2>3, <3>1, UsesUnchanged, KeysKept DEF Inv
  <2> QED BY <2>1, <2>2, <2>3, <2>4, HandshakeStep
<1> QED BY <1>1, <1>2, <1>3, <1>4, <1>5, <1>6, <1>7, <1>8, <1>9 DEF Next

\* It holds in every state.
LEMMA InvHolds == Spec => []Inv
<1>1. Init => Inv
  BY InitInv
<1>2. Inv /\ [Next]_vars => Inv'
  BY NextInv
<1> QED BY <1>1, <1>2, PTL DEF Spec

---------------------------------------------------------------------------
(* What the link promises. *)

\* Every variable keeps its type.
THEOREM TypeCorrect == Spec => []TypeOK
<1>1. ASSUME Inv PROVE TypeOK
  <2>1. ASSUME NEW e \in End
        PROVE  /\ pair[e].state \in States /\ pair[e].init \in BOOLEAN
               /\ pair[e].t \in Transcript
               /\ sess[e].est \in BOOLEAN /\ sess[e].key \in Key /\ sess[e].ctr \in Nat
               /\ sess[e].seen \in BOOLEAN /\ sess[e].max \in Nat
               /\ sess[e].bits \subseteq 0 .. Window - 1
               /\ reasm[e].active \in BOOLEAN /\ saved[e] \in Blob
               /\ since[e] \in 0 .. Stride - 1 /\ nextMsg[e] \in Nat \ {0}
    BY <1>1 DEF Inv, Typed, PairType, SessType, ReasmType
  <2>2. ASSUME NEW e \in End
        PROVE  /\ reasm[e].parts \subseteq 1 .. Len(sealed)
               /\ reasm[e].active => Cardinality(reasm[e].parts) < reasm[e].total
    BY <1>1 DEF Inv, BufferHolds
  <2>3. ASSUME NEW e \in End PROVE sending[e].next <= sending[e].total
    <3>1. sending[e] # Idle => sending[e].next \in 1 .. sending[e].total
      BY <1>1 DEF Inv, NumbersTell
    <3>2. sending[e].total \in Nat /\ Idle.next <= Idle.total
      BY <1>1 DEF Inv, Typed, SendType, Idle
    <3> QED BY <3>1, <3>2
  <2> QED BY <1>1, <2>1, <2>2, <2>3 DEF TypeOK, Inv, Typed, States
<1> QED BY <1>1, InvHolds, PTL

\* No counter is used twice under one key, however often sessions are restored or replaced
\* (wh__build_nonce), as long as between two saves no more frames go uncounted than the margin
\* leaves over the stride (whlink_glue.c:226).
THEOREM NoNonceTwice == Spec => []CounterOnce
<1>1. Inv => CounterOnce
  BY DEF Inv
<1> QED BY <1>1, InvHolds, PTL

\* No frame is opened twice, and none that is recent enough is refused for having been
\* (wh__replay_check, wh__replay_mark).
THEOREM WindowIsExact == Spec => []WindowExact
<1>1. ASSUME Inv PROVE WindowExact
  <2>1. \A u \in DOMAIN opened : opened[u] <= 1
    BY <1>1 DEF Inv, Typed, WindowKnows
  <2>2. ASSUME ~overrun, NEW e \in End, NEW f \in net[e], f.kind = "SEALED", opened[f.u] = 0,
               sess[e].est, sealed[f.u].key = Opposite(sess[e].key),
               sealed[f.u].seq > sess[e].max - Window
        PROVE  ReplayOK(sess[e], sealed[f.u].seq)
    <3>1. PICK u \in Frames(e) : u = f.u
      BY <1>1, <2>2, FrameShapes DEF Inv, Typed, Frames
    <3>2. u \in 1 .. Len(sealed) /\ sealed[u].seq \in Nat
      BY <1>1, SealedTypes DEF Inv, NumbersTell, SealedType
    <3>3. /\ sess[e].seen \in BOOLEAN /\ sess[e].max \in Nat
          /\ sess[e].bits \subseteq 0 .. Window - 1
      BY <1>1 DEF Inv, Typed, SessType
    <3>4. sess[e].max - sealed[u].seq \notin sess[e].bits
      <4> SUFFICES ASSUME NEW d \in sess[e].bits, d = sess[e].max - sealed[u].seq
                   PROVE  FALSE
        OBVIOUS
      <4>1. PICK v \in 1 .. Len(sealed) :
               /\ opened[v] > 0 /\ sealed[v].key = Opposite(sess[e].key)
               /\ sealed[v].seq = sess[e].max - d
        BY <1>1, <2>2 DEF Inv, WindowKnows
      <4>2. sealed[v].seq = sealed[u].seq
        BY <3>2, <3>3, <4>1
      <4>3. \A i, j \in 1 .. Len(sealed) :
               sealed[i].key = sealed[j].key /\ sealed[i].seq = sealed[j].seq => i = j
        BY <1>1, <2>2, LenProperties DEF Inv, Typed, CounterOnce
      <4> QED BY <2>2, <3>1, <3>2, <4>1, <4>2, <4>3
    <3> QED BY <2>2, <3>1, <3>2, <3>3, <3>4, Sizes DEF ReplayOK
  <2> QED BY <2>1, <2>2 DEF WindowExact
<1> QED BY <1>1, InvHolds, PTL

\* A delivered message is exactly one that was sent (wh_on_frame).
THEOREM MessagesWhole == Spec => []WholeMessages
<1>1. Inv => WholeMessages
  BY DEF Inv, Delivered, Complete, SameMessage, WholeMessages
<1> QED BY <1>1, InvHolds, PTL
=============================================================================
