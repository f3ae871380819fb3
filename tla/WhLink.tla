------------------------------- MODULE WhLink -------------------------------
(***************************************************************************)
(* wh_link.h: pairing by comparing digits, sealed frames under a counter,  *)
(* the replay window, fragments, and a session that is saved and restored. *)
(* The two ends run the same code.  While a connection lasts the transport *)
(* may lose, repeat and reorder frames; none outlives the connection.      *)
(*                                                                         *)
(* A random value is a number, drawn once.  A key is the handshake it was  *)
(* derived from (Transcript) and a direction; sealed frames open only      *)
(* under the key that sealed them.  sealed, opened, messages, shown and    *)
(* overrun are history.  A frame stays in net: received never, once or     *)
(* again, in any order.  A frame that its receiver drops (out of turn, no  *)
(* session, another key, a number seen before) changes nothing, so it      *)
(* takes no step.                                                          *)
(***************************************************************************)
EXTENDS Integers, Sequences, FiniteSets

CONSTANTS
    End,          \* the two ends
    Starter,      \* those that start a pairing: the watch
    Notifier,     \* those that send only to a subscriber: the panel
    Margin,       \* WH_PERSIST_MARGIN
    Stride,       \* WH_PERSIST_STRIDE
    Window,       \* 64: width of the replay window
    CtrMax,       \* largest value of a counter
    FragMax,      \* WH_MAX_FRAGS, as far as it matters
    MaxFresh,     \* bound on random values drawn
    MaxSealed,    \* bound on sealed frames
    MaxCuts       \* bound on lost connections

ASSUME LinkAssumption ==
    /\ IsFiniteSet(End) /\ Cardinality(End) = 2 /\ Starter \subseteq End
    /\ Notifier \subseteq End
    /\ Margin \in Nat /\ Stride \in 1 .. Margin - 1 /\ Window \in Nat \ {0}
    /\ CtrMax \in Nat /\ FragMax \in Nat \ {0}
    /\ MaxFresh \in Nat /\ MaxSealed \in Nat /\ MaxCuts \in Nat

VARIABLES
    pair,      \* pair[e]: wh_pair
    sess,      \* sess[e]: wh_session
    reasm,     \* reasm[e]: the message being put together
    nextMsg,   \* nextMsg[e]: next_msg_id
    sending,   \* sending[e]: the wh_send that is under way
    saved,     \* saved[e]: the exported session in flash
    since,     \* since[e]: s_since_save, the frames counted since it was saved
    overrun,   \* too many frames went uncounted between two saves
    drawn,     \* random values drawn so far
    up, cuts,  \* a connection exists; how many were lost
    net,       \* net[e]: the frames sent to e on this connection
    sealed,    \* every frame ever sealed, in order
    opened,    \* opened[u]: how often frame u was opened
    messages,  \* the delivered messages, as sets of frames
    shown      \* shown[e]: the handshake whose digits e showed last

pairVars == <<pair, drawn, shown>>
sessVars == <<sess, saved, since, overrun>>
history == <<sealed, opened, messages>>
vars == <<pair, sess, reasm, nextMsg, sending, saved, since, overrun, drawn, up, cuts, net,
          sealed, opened, messages, shown>>

Peer(e) == CHOOSE f \in End : f # e

Draw == 0 .. MaxFresh      \* 0: not drawn
Transcript == [pki : Draw, pkr : Draw, ni : Draw, nr : Draw]
NoTranscript == [pki |-> 0, pkr |-> 0, ni |-> 0, nr |-> 0]
Key == [t : Transcript, dir : {"i2r", "r2i"}]
NoKey == [t |-> NoTranscript, dir |-> "i2r"]
Opposite(k) == [k EXCEPT !.dir = IF @ = "i2r" THEN "r2i" ELSE "i2r"]

NoPair == [state |-> "idle", init |-> FALSE, t |-> NoTranscript, commit |-> {}]
NoSess == [est |-> FALSE, key |-> NoKey, ctr |-> 0, seen |-> FALSE, max |-> 0, bits |-> {}]
NoReasm == [active |-> FALSE, msg |-> 0, total |-> 0, parts |-> {}]
Idle == [mid |-> 0, msg |-> 0, next |-> 0, total |-> 0]
NoBlob == [has |-> FALSE, key |-> NoKey, ctr |-> 0, seen |-> FALSE, max |-> 0]

\* What an end has in flash after a pairing of earlier days (values not drawn here).
OldBlob(e) ==
    [NoBlob EXCEPT !.has = TRUE,
                   !.key.dir = IF e = (CHOOSE f \in End : TRUE) THEN "i2r" ELSE "r2i"]

Commitment(nr, pkr, pki) == {<<"nr", nr>>, <<"pkr", pkr>>, <<"pki", pki>>}

Init ==
    /\ pair = [e \in End |-> NoPair]
    /\ sess = [e \in End |-> NoSess]
    /\ reasm = [e \in End |-> NoReasm]
    /\ nextMsg = [e \in End |-> 1]
    /\ sending = [e \in End |-> Idle]
    /\ saved \in {[e \in End |-> NoBlob], [e \in End |-> OldBlob(e)]}
    /\ since = [e \in End |-> 0] /\ overrun = FALSE
    /\ drawn = 0 /\ up = FALSE /\ cuts = 0
    /\ net = [e \in End |-> {}]
    /\ sealed = <<>> /\ opened = [u \in 1 .. MaxSealed |-> 0] /\ messages = {}
    /\ shown = [e \in End |-> NoTranscript]

---------------------------------------------------------------------------
(* Saving and restoring. *)

\* wh_session_export, as bond_save_from_ctx stores it.
Export(s) == [has |-> TRUE, key |-> s.key, ctr |-> s.ctr, seen |-> s.seen, max |-> s.max]

Save(e, s) ==
    /\ saved' = [saved EXCEPT ![e] = Export(s)]
    /\ since' = [since EXCEPT ![e] = 0]

\* A counter too near its end is refused: the ends must pair again.
Restorable(b) == b.has /\ b.ctr <= CtrMax - 2 * Margin

\* wh_session_import: the counter jumps, the bits of the window are lost.
Restored(b) ==
    [est |-> TRUE, key |-> b.key, ctr |-> b.ctr + Margin, seen |-> b.seen, max |-> b.max,
     bits |-> {}]

---------------------------------------------------------------------------
(* The handshake.  An end that draws a value uses it as its key pair and,  *)
(* in its own place of the transcript, as its nonce.                       *)

Put(e, f) == net' = [net EXCEPT ![Peer(e)] = @ \cup {f}]

HandshakeFrame == UNCHANGED <<sessVars, reasm, sending, up, cuts, history>>
NewMsgId(e) == nextMsg' = [nextMsg EXCEPT ![e] = @ + 1]

PairStart(e) ==
    /\ up /\ e \in Starter /\ drawn < MaxFresh
    /\ drawn' = drawn + 1
    /\ pair' = [pair EXCEPT ![e] = [state |-> "sentReq", init |-> TRUE, commit |-> {},
                   t |-> [NoTranscript EXCEPT !.pki = drawn + 1, !.ni = drawn + 1]]]
    /\ Put(e, [kind |-> "REQ", pk |-> drawn + 1])
    /\ NewMsgId(e) /\ HandshakeFrame /\ UNCHANGED shown

\* A request restarts the responder whatever it was doing.
OnPairReq(e, f) ==
    /\ f.kind = "REQ" /\ drawn < MaxFresh
    /\ drawn' = drawn + 1
    /\ pair' = [pair EXCEPT ![e] = [state |-> "sentResp", init |-> FALSE, commit |-> {},
                   t |-> [pki |-> f.pk, pkr |-> drawn + 1, ni |-> 0, nr |-> drawn + 1]]]
    /\ Put(e, [kind |-> "RESP", pk |-> drawn + 1,
                     commit |-> Commitment(drawn + 1, drawn + 1, f.pk)])
    /\ NewMsgId(e) /\ HandshakeFrame /\ UNCHANGED shown

OnPairResp(e, f) ==
    /\ f.kind = "RESP" /\ pair[e].state = "sentReq"
    /\ pair' = [pair EXCEPT ![e].state = "sentNa", ![e].t.pkr = f.pk, ![e].commit = f.commit]
    /\ Put(e, [kind |-> "NA", n |-> pair[e].t.ni])
    /\ NewMsgId(e) /\ HandshakeFrame /\ UNCHANGED <<drawn, shown>>

OnPairNa(e, f) ==
    /\ f.kind = "NA" /\ pair[e].state = "sentResp"
    /\ pair' = [pair EXCEPT ![e].state = "awaitSas", ![e].t.ni = f.n]
    /\ shown' = [shown EXCEPT ![e] = pair'[e].t]
    /\ Put(e, [kind |-> "NB", n |-> pair[e].t.nr])
    /\ NewMsgId(e) /\ HandshakeFrame /\ UNCHANGED drawn

OnPairNb(e, f) ==
    /\ f.kind = "NB" /\ pair[e].state = "sentNa"
    /\ LET t == [pair[e].t EXCEPT !.nr = f.n]
           ok == Commitment(t.nr, t.pkr, t.pki) = pair[e].commit
       IN /\ pair' = [pair EXCEPT ![e].t = t, ![e].state = IF ok THEN "awaitSas" ELSE "failed"]
          /\ shown' = IF ok THEN [shown EXCEPT ![e] = t] ELSE shown
    /\ HandshakeFrame /\ UNCHANGED <<nextMsg, drawn, net>>

TxKey(p) == [t |-> p.t, dir |-> IF p.init THEN "i2r" ELSE "r2i"]

\* wh_session_derive.
Derived(p) == [NoSess EXCEPT !.est = TRUE, !.key = TxKey(p)]

\* wh_pair_confirm after the user has seen the same digits on both ends; the
\* session is saved at once (cb_on_paired).
Confirm(e) ==
    /\ pair[e].state = "awaitSas" /\ shown[Peer(e)] = pair[e].t
    /\ pair' = [pair EXCEPT ![e].state = "established"]
    /\ sess' = [sess EXCEPT ![e] = Derived(pair[e])]
    /\ Save(e, Derived(pair[e]))
    /\ UNCHANGED <<overrun, reasm, nextMsg, sending, drawn, up, cuts, net, history, shown>>

\* The digits differ, or the user declines.
Reject(e) ==
    /\ pair[e].state = "awaitSas"
    /\ pair' = [pair EXCEPT ![e].state = "failed"]
    /\ UNCHANGED <<sessVars, reasm, nextMsg, sending, drawn, up, cuts, net, history, shown>>

---------------------------------------------------------------------------
(* Sealed frames. *)

\* Mutant: a save happens only once Stride frames beyond the margin are out.
LateSave(e, s) ==
    IF since[e] + 1 >= Stride + Margin THEN Save(e, s)
    ELSE since' = [since EXCEPT ![e] = @ + 1] /\ UNCHANGED saved

\* cb_send: every Stride counted frames the session is saved again.
StrideSave(e, s) ==
    IF since[e] + 1 >= Stride THEN Save(e, s)
    ELSE since' = [since EXCEPT ![e] = @ + 1] /\ UNCHANGED saved

\* The frames sealed since the session was saved that were not counted.
Uncounted(e, s) == s.ctr - saved[e].ctr - since[e]

\* cb_send turns a frame away before it counts it while nobody has subscribed.
Refuse(e, s) ==
    /\ e \in Notifier
    /\ overrun' = (overrun \/ Uncounted(e, s) > Margin - Stride)
    /\ UNCHANGED <<saved, since>>

\* wh__emit: seal fragment m.next of m under the counter, advance it, and hand
\* the frame to the transport: it goes out, the radio fails, or it is refused.
\* If it does not go out wh_send gives up on the message.
Emit(e, m, how) ==
    LET s == [sess[e] EXCEPT !.ctr = @ + 1]
        u == Len(sealed) + 1
    IN /\ u <= MaxSealed
       /\ sess' = [sess EXCEPT ![e] = s]
       /\ IF how = "refused" THEN Refuse(e, s) ELSE StrideSave(e, s) /\ UNCHANGED overrun
       /\ sealed' = Append(sealed, [from |-> e, key |-> s.key, seq |-> sess[e].ctr,
              mid |-> m.mid, msg |-> m.msg, frag |-> m.next, total |-> m.total])
       /\ net' = IF how = "sent"
                 THEN [net EXCEPT ![Peer(e)] = @ \cup {[kind |-> "SEALED", u |-> u]}] ELSE net
       /\ sending' = [sending EXCEPT ![e] =
              IF how = "sent" /\ m.next < m.total THEN [m EXCEPT !.next = @ + 1] ELSE Idle]
       /\ UNCHANGED <<pairVars, reasm, up, cuts, opened, messages>>

Outcomes == {"sent", "failed", "refused"}

\* wh_send: a message of n fragments takes the next message number.
Send(e, n, how) ==
    /\ up /\ sess[e].est /\ sending[e] = Idle
    /\ nextMsg' = [nextMsg EXCEPT ![e] = @ + 1]
    /\ Emit(e, [mid |-> Len(sealed) + 1, msg |-> nextMsg[e], next |-> 1, total |-> n], how)

\* The further fragments; other tasks run in between.
SendOn(e, how) ==
    /\ sending[e] # Idle /\ sess[e].est
    /\ Emit(e, sending[e], how) /\ UNCHANGED nextMsg

\* Mutant: one number too many counts as inside the window.
ReplayOneWider(s, q) ==
    ~s.seen \/ q > s.max \/ (s.max - q <= Window /\ s.max - q \notin s.bits)

\* wh__replay_check.
ReplayOK(s, q) ==
    ~s.seen \/ q > s.max \/ (s.max - q < Window /\ s.max - q \notin s.bits)

\* Mutant: the numbers that were skipped count as received.
MarkSkipped(s, q) ==
    IF ~s.seen THEN [s EXCEPT !.max = q, !.bits = {0}, !.seen = TRUE]
    ELSE IF q > s.max THEN [s EXCEPT !.max = q, !.bits = 0 .. Window - 1]
    ELSE [s EXCEPT !.bits = @ \cup {s.max - q}]

\* wh__replay_mark: bit d says that max - d has been received.
Mark(s, q) ==
    IF ~s.seen THEN [s EXCEPT !.max = q, !.bits = {0}, !.seen = TRUE]
    ELSE IF q > s.max
      THEN [s EXCEPT !.max = q,
                     !.bits = {0} \cup {d \in 1 .. Window - 1 : d - (q - s.max) \in s.bits}]
    ELSE [s EXCEPT !.bits = @ \cup {s.max - q}]

\* Mutant: fragments of whatever message come next are put together.
StartsAnyMessage(r, x) == ~r.active

\* Another message than the one being put together: that one is dropped.
StartsMessage(r, x) == ~r.active \/ r.msg # x.msg

\* The reassembly buffer before fragment x is stored in it.
Buffer(r, x) ==
    IF StartsMessage(r, x)
    THEN [active |-> TRUE, msg |-> x.msg, total |-> x.total, parts |-> {}] ELSE r

Opens(e, x) == sess[e].est /\ x.key = Opposite(sess[e].key) /\ ReplayOK(sess[e], x.seq)

\* wh_on_frame for a sealed frame: window, key, window again, then the
\* message or its fragment.
OnSealed(e, f) ==
    /\ f.kind = "SEALED"
    /\ LET x == sealed[f.u]
           b == Buffer(reasm[e], x)
           parts == {v \in b.parts : sealed[v].frag # x.frag} \cup {f.u}
           fits == b.total = x.total
           whole == fits /\ Cardinality(parts) = b.total
       IN /\ Opens(e, x)
          /\ sess' = [sess EXCEPT ![e] = Mark(@, x.seq)]
          /\ opened' = [opened EXCEPT ![f.u] = @ + 1]
          /\ reasm' = IF x.total = 1 THEN reasm
                      ELSE [reasm EXCEPT ![e] = IF fits THEN [b EXCEPT !.parts = parts,
                                                                      !.active = ~whole] ELSE b]
          /\ messages' = IF x.total = 1 THEN messages \cup {{f.u}}
                         ELSE IF whole THEN messages \cup {parts} ELSE messages
    /\ UNCHANGED <<pairVars, saved, since, overrun, nextMsg, sending, up, cuts, net, sealed>>

---------------------------------------------------------------------------
(* The connection. *)

\* A lost connection or an end without power: both start from wh_ctx_init.
Disconnect ==
    /\ up /\ cuts < MaxCuts
    /\ up' = FALSE /\ cuts' = cuts + 1
    /\ pair' = [e \in End |-> NoPair]
    /\ sess' = [e \in End |-> NoSess]
    /\ reasm' = [e \in End |-> NoReasm]
    /\ nextMsg' = [e \in End |-> 1]
    /\ sending' = [e \in End |-> Idle]
    /\ net' = [e \in End |-> {}]
    /\ UNCHANGED <<saved, since, overrun, drawn, history, shown>>

Returning == {e \in End : Restorable(saved[e])}

\* BLE_GAP_EVENT_CONNECT, up to the save.
Resume ==
    /\ ~up /\ up' = TRUE
    /\ sess' = [e \in End |-> IF e \in Returning THEN Restored(saved[e]) ELSE NoSess]
    /\ pair' = [e \in End |-> IF e \in Returning THEN [NoPair EXCEPT !.state = "established"]
                              ELSE NoPair]
    /\ UNCHANGED <<overrun, reasm, nextMsg, sending, drawn, cuts, net, history, shown>>

\* Mutant: the restored session is not saved again at once.
ConnectUnsaved == Resume /\ UNCHANGED <<saved, since>>

\* Each end restores what it has and saves it again at once, so that a second
\* restart jumps further.
Connect ==
    /\ Resume
    /\ saved' = [e \in End |-> IF e \in Returning THEN Export(sess'[e]) ELSE saved[e]]
    /\ since' = [e \in End |-> IF e \in Returning THEN 0 ELSE since[e]]

---------------------------------------------------------------------------
OnFrame(e, f) ==
    \/ OnPairReq(e, f) \/ OnPairResp(e, f) \/ OnPairNa(e, f) \/ OnPairNb(e, f)
    \/ OnSealed(e, f)

Next ==
    \/ \E e \in End : \/ PairStart(e) \/ Confirm(e) \/ Reject(e)
                      \/ \E how \in Outcomes : \/ \E n \in 1 .. FragMax : Send(e, n, how)
                                              \/ SendOn(e, how)
                      \/ \E f \in net[e] : OnFrame(e, f)
    \/ Disconnect \/ Connect

Spec == Init /\ [][Next]_vars

---------------------------------------------------------------------------
Blob == [has : BOOLEAN, key : Key, ctr : Nat, seen : BOOLEAN, max : Nat]

TypeOK ==
    /\ \A e \in End :
        /\ pair[e].state \in {"idle", "sentReq", "sentResp", "sentNa", "awaitSas",
                              "established", "failed"}
        /\ pair[e].init \in BOOLEAN /\ pair[e].t \in Transcript
        /\ sess[e].est \in BOOLEAN /\ sess[e].key \in Key /\ sess[e].ctr \in Nat
        /\ sess[e].seen \in BOOLEAN /\ sess[e].max \in Nat
        /\ sess[e].bits \subseteq 0 .. Window - 1
        /\ reasm[e].active \in BOOLEAN /\ reasm[e].parts \subseteq 1 .. Len(sealed)
        /\ reasm[e].active => Cardinality(reasm[e].parts) < reasm[e].total
        /\ sending[e].next <= sending[e].total
        /\ saved[e] \in Blob /\ since[e] \in 0 .. Stride - 1
        /\ nextMsg[e] \in Nat \ {0}
    /\ overrun \in BOOLEAN /\ drawn \in Draw /\ up \in BOOLEAN /\ cuts \in 0 .. MaxCuts
    /\ Len(sealed) <= MaxSealed
    /\ shown \in [End -> Transcript]

\* No two frames, of whichever end and however often sessions were restored or
\* replaced, are sealed under one key and counter (wh__build_nonce), as long as between
\* two saves no more go uncounted than the margin leaves over the stride.
CounterOnce ==
    ~overrun =>
        \A u, v \in DOMAIN sealed :
            sealed[u].key = sealed[v].key /\ sealed[u].seq = sealed[v].seq => u = v

\* The replay window draws its line exactly: a frame is opened at most once, although
\* it may arrive again and again, and, while each counter is used once, none is refused
\* that is recent enough and was never opened (wh__replay_check, wh__replay_mark).
WindowExact ==
    /\ \A u \in DOMAIN opened : opened[u] <= 1
    /\ ~overrun => \A e \in End : \A f \in net[e] :
         (f.kind = "SEALED" /\ opened[f.u] = 0 /\ sess[e].est)
         => LET x == sealed[f.u]
            IN x.key = Opposite(sess[e].key) /\ x.seq > sess[e].max - Window
               => ReplayOK(sess[e], x.seq)

\* A delivered message is exactly one that was sent, none of its fragments
\* missing and none of another message's among them (wh_on_frame).
WholeMessages ==
    \A m \in messages :
        /\ \A u, v \in m : sealed[u].mid = sealed[v].mid
        /\ {sealed[u].frag : u \in m} = 1 .. sealed[CHOOSE u \in m : TRUE].total
=============================================================================
