------------------------- MODULE PeerChannelProofs -------------------------
(***************************************************************************)
(* Theorems about the two parts of a peer channel, for every value of      *)
(* their constants.                                                        *)
(*                                                                         *)
(* DatagramChannel: the inductive invariant is the window's exact meaning, *)
(* WindowExact, together with the fact that the sender is ahead of         *)
(* everything in the network and so of everything handed over.             *)
(*                                                                         *)
(* SecureChannel, in the second half: a connection is in one of five       *)
(* stages, and each stage says what both ends are, to the last field, and  *)
(* what may lie on the wire between them, damage included.  What an end    *)
(* has heard is the transcript the handshake must have, so a piece opens   *)
(* only if both ends agree on everything before it.  An account of what    *)
(* was sealed in this session, and the remark that every key holds the     *)
(* responder's ephemeral of its session, keep the keys apart.              *)
(***************************************************************************)
EXTENDS DatagramChannel, SecureChannel, SequenceTheorems, TLAPS

(* What was handed over was sealed, and once; what was sealed lies before   *)
(* the sender's next sequence.                                             *)
Provenance ==
    /\ network = {s \in Seqs : s < udp_seq}
    /\ Reached \subseteq network
    /\ highest < udp_seq \/ highest = 0

IInv == TypeOK /\ WindowExact /\ AtMostOnce /\ Provenance

-----------------------------------------------------------------------------
(* A sequence the window accepts was never handed over                     *)
(* (replay_window::accept).                                                *)
LEMMA AcceptsOnlyNew ==
    ASSUME TypeOK, WindowExact, NEW seq \in Seqs, Accepts(seq)
    PROVE  handed[seq] = 0
<1>1. CASE seq > highest
  BY <1>1, SMT DEF TypeOK, WindowExact, Reached, Seqs
<1>2. CASE seq <= highest /\ highest - seq \in Ages \ seen
  <2>1. highest - (highest - seq) = seq
    BY <1>2, SMT DEF TypeOK, Seqs
  <2>2. ~(handed[highest - (highest - seq)] > 0)
    BY <1>2, SMT DEF WindowExact, Ages, TypeOK, Seqs
  <2> QED
    BY <2>1, <2>2, SMT DEF TypeOK
<1> QED
  BY <1>1, <1>2 DEF Accepts

(* Remembering an accepted sequence keeps the bitmap exact                 *)
(* (replay_window::accept, both of its branches).                          *)
LEMMA RememberExact ==
    ASSUME ChannelAssumption, TypeOK, WindowExact, NEW seq \in Seqs,
           Accepts(seq), Remember(seq),
           handed' = [handed EXCEPT ![seq] = @ + 1]
    PROVE  /\ highest' \in Seqs
           /\ seen' \subseteq Ages
           /\ handed' \in [Seqs -> Nat]
           /\ WindowExact'
<1>1. handed' \in [Seqs -> Nat]
  BY SMT DEF TypeOK
<1>2. \A s \in Seqs : handed'[s] > 0 <=> s = seq \/ handed[s] > 0
  BY SMT DEF TypeOK
<1>3. CASE seq > highest
  <2>1. highest' = seq /\ seen' = Aged(seq - highest) \cup {0}
    BY <1>3 DEF Remember
  <2>2. highest' \in Seqs /\ 0 \in Ages
    BY <2>1, SMT DEF ChannelAssumption, Ages, Seqs
  <2>3. Aged(seq - highest) =
            {a \in Ages : \E b \in seen : a = b + (seq - highest)}
    BY <1>3, SMT DEF Aged, Ages, TypeOK, ChannelAssumption, Seqs
  <2>4. seen' \subseteq Ages
    BY <2>1, <2>2, <2>3
  <2>5. \A s \in Reached' : s <= highest'
    BY <1>2, <1>3, <2>1, SMT DEF WindowExact, Reached, TypeOK, Seqs
  <2>6. ASSUME NEW a \in Ages
        PROVE  a \in seen' <=> a <= highest' /\ handed'[highest' - a] > 0
    <3>1. CASE a = 0
      BY <1>2, <2>1, <3>1, SMT DEF TypeOK, Seqs
    <3>2. CASE a # 0
      <4>1. a \in seen' <=> \E b \in seen : a = b + (seq - highest)
        BY <2>1, <2>3, <3>2
      <4>2. CASE a < seq - highest
        <5>1. a \notin seen'
          BY <4>1, <4>2, <1>3, SMT DEF TypeOK, Ages, Seqs
        <5>2. a <= highest' => handed'[highest' - a] = 0
          BY <1>1, <1>2, <1>3, <2>1, <3>2, <4>2, SMT
             DEF WindowExact, Reached, TypeOK, Seqs, Ages
        <5> QED
          BY <5>1, <5>2
      <4>3. CASE a >= seq - highest
        <5> DEFINE b == a - (seq - highest)
        <5>1. b \in Ages
          BY <4>3, <1>3, SMT DEF TypeOK, Ages, Seqs, ChannelAssumption
        <5>2. a \in seen' <=> b \in seen
          BY <4>1, <4>3, <5>1, <1>3, SMT DEF TypeOK, Ages, Seqs
        <5>3. b \in seen <=> b <= highest /\ handed[highest - b] > 0
          BY <5>1 DEF WindowExact
        <5>4. highest - b = highest' - a /\ (b <= highest <=> a <= highest')
          BY <2>1, <4>3, <1>3, SMT DEF TypeOK, Ages, Seqs
        <5>5. a <= highest' =>
                 (handed[highest' - a] > 0 <=> handed'[highest' - a] > 0)
          BY <1>2, <2>1, <3>2, <1>3, SMT DEF TypeOK, Ages, Seqs
        <5> HIDE DEF b
        <5> QED
          BY <5>2, <5>3, <5>4, <5>5
      <4> QED
        BY <4>2, <4>3, <1>3, SMT DEF TypeOK, Ages, Seqs
    <3> QED
      BY <3>1, <3>2
  <2> QED
    BY <1>1, <2>2, <2>4, <2>5, <2>6 DEF WindowExact
<1>4. CASE ~(seq > highest)
  <2>1. seq <= highest /\ highest - seq \in Ages
    BY <1>4 DEF Accepts
  <2>2. highest' = highest /\ seen' = seen \cup {highest - seq}
    BY <1>4 DEF Remember
  <2>3. \A s \in Reached' : s <= highest'
    BY <1>2, <2>1, <2>2, SMT DEF WindowExact, Reached
  <2>4. ASSUME NEW a \in Ages
        PROVE  a \in seen' <=> a <= highest' /\ handed'[highest' - a] > 0
    <3>1. a \in seen <=> a <= highest /\ handed[highest - a] > 0
      BY DEF WindowExact
    <3>2. a <= highest => (highest - a = seq <=> a = highest - seq)
      BY <2>1, SMT DEF TypeOK, Ages, Seqs
    <3>3. a <= highest =>
             (handed'[highest - a] > 0 <=> highest - a = seq \/ handed[highest - a] > 0)
      BY <1>2, SMT DEF TypeOK, Ages, Seqs
    <3>4. a = highest - seq => a <= highest
      BY <2>1, SMT DEF TypeOK, Ages, Seqs
    <3> QED
      BY <2>2, <3>1, <3>2, <3>3, <3>4
  <2> QED
    BY <1>1, <2>1, <2>2, <2>3, <2>4 DEF WindowExact, TypeOK
<1> QED
  BY <1>3, <1>4

-----------------------------------------------------------------------------
(* A channel on which nothing was sent satisfies the invariant.              *)
LEMMA InitInv ==
    ASSUME ChannelAssumption, Init
    PROVE  IInv
BY SMT DEF ChannelAssumption, Init, IInv, TypeOK, WindowExact, AtMostOnce,
           Provenance, Reached, Seqs, Ages

(* Sealing a datagram (seal_datagram) preserves it.                          *)
LEMMA SealInv ==
    ASSUME ChannelAssumption, IInv, Seal
    PROVE  IInv'
<1>1. TypeOK'
  BY SMT DEF IInv, TypeOK, Seal, NextSeq, Seqs, ChannelAssumption
<1>2. WindowExact' /\ AtMostOnce'
  BY DEF IInv, WindowExact, AtMostOnce, Reached, Seal
<1>3. network' = {s \in Seqs : s < udp_seq'}
  BY SMT DEF IInv, TypeOK, Provenance, Seal, NextSeq, Seqs, ChannelAssumption
<1>4. Reached' \subseteq network' /\ (highest' < udp_seq' \/ highest' = 0)
  BY SMT DEF IInv, TypeOK, Provenance, Reached, Seal, NextSeq, Seqs
<1> QED
  BY <1>1, <1>2, <1>3, <1>4 DEF IInv, Provenance

(* Opening an authentic datagram (open_datagram) preserves it.               *)
LEMMA OpenInv ==
    ASSUME ChannelAssumption, IInv, NEW seq \in Seqs, Open(seq)
    PROVE  IInv'
<1>1. handed[seq] = 0
  BY AcceptsOnlyNew DEF IInv, Open
<1>2. TypeOK' /\ WindowExact'
  BY RememberExact DEF IInv, Open, TypeOK
<1>3. AtMostOnce'
  BY <1>1, SMT DEF IInv, AtMostOnce, TypeOK, Open
<1>4. Reached' \subseteq network'
  BY SMT DEF IInv, Provenance, Reached, TypeOK, Open
<1>5. highest' < udp_seq' \/ highest' = 0
  BY SMT DEF IInv, Provenance, TypeOK, Open, Remember, Seqs
<1> QED
  BY <1>2, <1>3, <1>4, <1>5 DEF IInv, Provenance, Open

(* The invariant is inductive: every step of the channel preserves it.       *)
LEMMA NextInv ==
    ASSUME ChannelAssumption, IInv, [Next]_vars
    PROVE  IInv'
<1>1. CASE Seal
  BY <1>1, SealInv
<1>2. ASSUME NEW seq \in Seqs, Open(seq)
      PROVE  IInv'
  BY <1>2, OpenInv
<1>3. CASE UNCHANGED vars
  BY <1>3 DEF vars, IInv, TypeOK, WindowExact, AtMostOnce, Provenance, Reached
<1> QED
  BY <1>1, <1>2, <1>3 DEF Next, Refuse, OpenDamaged

-----------------------------------------------------------------------------
(* The inductive invariant holds of every behaviour (seal_datagram,         *)
(* open_datagram and replay_window::accept together).                      *)
THEOREM Invariance == Spec => []IInv
<1> USE ChannelAssumption
<1>1. Init => IInv
  BY InitInv
<1>2. IInv /\ [Next]_vars => IInv'
  BY NextInv
<1> QED
  BY <1>1, <1>2, PTL DEF Spec

(* The sender's counter, the window and the deliveries keep their types     *)
(* (peer_channel's udp_seq_ and udp_replay_).                              *)
THEOREM TypeCorrect == Spec => []TypeOK
<1>1. IInv => TypeOK
  BY DEF IInv
<1> QED
  BY Invariance, <1>1, PTL

(* A 64-bit bitmap of the recent past is enough: no datagram is ever handed *)
(* over twice, whatever the network does (peer_channel::open_datagram).    *)
THEOREM NoReplay == Spec => []AtMostOnce
<1>1. IInv => AtMostOnce
  BY DEF IInv
<1> QED
  BY Invariance, <1>1, PTL

(* The bitmap means what its comment says at every step                    *)
(* (replay_window::accept).                                                *)
THEOREM BitmapExact == Spec => []WindowExact
<1>1. IInv => WindowExact
  BY DEF IInv
<1> QED
  BY Invariance, <1>1, PTL

(* A datagram overtaken by fewer than Width others is never refused         *)
(* (replay_window::accept).                                                *)
THEOREM LateIsNotReplay == Spec => []ReorderTolerated
<1>1. IInv => ReorderTolerated
  <2> SUFFICES ASSUME IInv, NEW s \in network \ Reached, s + Width >= udp_seq
               PROVE  Accepts(s)
    BY DEF ReorderTolerated
  <2>1. s \in Seqs /\ s < udp_seq /\ handed[s] = 0
    BY SMT DEF IInv, TypeOK, Provenance, Reached
  <2>2. CASE s > highest
    BY <2>2 DEF Accepts
  <2>3. CASE s <= highest
    <3>1. highest - s \in Ages
      BY <2>1, <2>3, ChannelAssumption, SMT
         DEF IInv, TypeOK, Provenance, Ages, Seqs, ChannelAssumption
    <3>2. highest - (highest - s) = s
      BY <2>1, <2>3, SMT DEF IInv, TypeOK, Seqs
    <3>3. highest - s \notin seen
      BY <2>1, <3>1, <3>2, SMT DEF IInv, WindowExact
    <3> QED
      BY <2>3, <3>1, <3>3 DEF Accepts
  <2> QED
    BY <2>1, <2>2, <2>3, SMT DEF IInv, TypeOK, Seqs
<1> QED
  BY Invariance, <1>1, PTL

(* No nonce is ever used for two datagrams (peer_channel::seal_datagram).   *)
THEOREM NonceUsedOnce == Spec => NonceFresh
<1>1. IInv /\ [Next]_vars => [udp_seq' # udp_seq => udp_seq \notin network]_vars
  BY SMT DEF IInv, TypeOK, Provenance, Seqs
<1> QED
  BY Invariance, <1>1, PTL DEF Spec, NonceFresh

(* The channel is an implementation of DatagramService                     *)
(* (peer_channel's datagram operations).                                   *)
THEOREM Refinement == Spec => ImplementsService
<1> USE ChannelAssumption
<1>1. Init => Service!Init
  BY SMT DEF Init, Service!Init
<1>2. IInv /\ [Next]_vars => [Service!Next]_(Service!vars)
  <2> SUFFICES ASSUME IInv, [Next]_vars
               PROVE  [Service!Next]_(Service!vars)
    OBVIOUS
  <2>1. CASE Seal
    <3>1. udp_seq \in Seqs /\ udp_seq \notin network
      BY SMT DEF IInv, TypeOK, Provenance, Seqs
    <3>2. Service!Send(udp_seq)
      BY <2>1, <3>1 DEF Seal, Service!Send
    <3> QED
      BY <3>1, <3>2 DEF Service!Next
  <2>2. ASSUME NEW seq \in Seqs, Open(seq)
        PROVE  Service!Next
    <3>1. handed[seq] = 0
      BY <2>2, AcceptsOnlyNew DEF IInv, Open
    <3>2. handed' = [handed EXCEPT ![seq] = 1]
      BY <2>2, <3>1, SMT DEF Open, IInv, TypeOK
    <3>3. Service!Reach(seq)
      BY <2>2, <3>1, <3>2 DEF Open, Service!Reach
    <3> QED
      BY <3>3 DEF Service!Next
  <2>3. CASE UNCHANGED vars
    BY <2>3 DEF vars, Service!vars
  <2> QED
    BY <2>1, <2>2, <2>3 DEF Next, Refuse, OpenDamaged
<1> QED
  BY Invariance, <1>1, <1>2, PTL DEF Spec, ImplementsService, Service!Spec

-----------------------------------------------------------------------------
(* Sequences of up to three elements, under names the provers leave alone: *)
(* they reason about transcripts by the lemmas below, never by elements.   *)

Nil == <<>>
Add(seq, a) == Append(seq, a)
First(seq) == Head(seq)
Rest(seq) == Tail(seq)
One(a) == <<a>>
Two(a, b) == <<a, b>>
Three(a, b, c) == <<a, b, c>>

(* The values of the handshake in session k when the initiator's ephemeral is  *)
(* e, which is Garbage for a responder that was told so: the secrets mixed   *)
(* in after each token, the transcripts and the sealed pieces.               *)
Prologue(p) == Clear([kind |-> "prologue", of |-> p, session |-> 0])
SI == Static(Initiator)
SR == Static(Responder)
EI(k) == Ephemeral(Initiator, k)
ER(k) == Ephemeral(Responder, k)

(* An end, field by field; while it shakes hands it has sealed no data.        *)
Made(h, ck, n, re, rs, index, status, keys, sent, received, datagrams, p) ==
    [h |-> h, ck |-> ck, n |-> n, re |-> re, rs |-> rs, index |-> index, status |-> status,
     keys |-> keys, sent |-> sent, received |-> received, datagrams |-> datagrams,
     prologue |-> p]

Shaking(h, ck, n, re, rs, index, status, p) ==
    Made(h, ck, n, re, rs, index, status, Nil, 0, 0, 0, p)

Mixed1(e, k) == Add(Nil, DH(ER(k), e))
Mixed2(e, k) == Add(Mixed1(e, k), DH(SR, e))
Mixed3(k) == Add(Mixed2(EI(k), k), DH(SI, ER(k)))

Heard0(p) == One(Prologue(p))
Heard1(p, e) == Add(Add(Heard0(p), Clear(e)), Clear(Payload))
HeardE(p, e, k) == Add(Heard1(p, e), Clear(ER(k)))
PieceA(p, e, k) == Piece(HandshakeKey(Mixed1(e, k)), 0, HeardE(p, e, k), SR)
HeardA(p, e, k) == Add(HeardE(p, e, k), PieceA(p, e, k))
PieceB(p, e, k) == Piece(HandshakeKey(Mixed2(e, k)), 0, HeardA(p, e, k), Payload)
Heard2(p, e, k) == Add(HeardA(p, e, k), PieceB(p, e, k))
PieceC(p, k) == Piece(HandshakeKey(Mixed2(EI(k), k)), 1, Heard2(p, EI(k), k), SI)
HeardC(p, k) == Add(Heard2(p, EI(k), k), PieceC(p, k))
PieceD(p, k) == Piece(HandshakeKey(Mixed3(k)), 0, HeardC(p, k), Payload)
Heard3(p, k) == Add(HeardC(p, k), PieceD(p, k))

(* An end in the middle of a message it reads or writes, and the two forms in  *)
(* which a sealed piece arrives.                                             *)
Reader(h, ck, n, re, rs, index, st, p, in, got) == [end |-> Shaking(h, ck, n, re, rs, index,
      st, p), in |-> in, got |-> got, ok |-> TRUE]
Writer(h, ck, n, re, rs, index, st, p, out) == [end |-> Shaking(h, ck, n, re, rs, index, st,
      p), out |-> out]
Spoiled(piece) == [piece EXCEPT !.intact = FALSE]
Spoilt(piece) == {piece, Spoiled(piece)}

(* What an end is after each message it has written or read.                  *)
Silent(s) == s.status \in {"shaking", "closed"}
IsNew(s) == s = Shaking(Heard0(s.prologue), Nil, 0, NoKey, NoKey, 0, s.status,
      s.prologue) /\ Silent(s)
HasDialled(k, s) ==
    s = Shaking(Heard1(s.prologue, EI(k)), Nil, 0, NoKey, NoKey, 1, s.status,
          s.prologue) /\ Silent(s)
HasAnswered(k, s, e) ==
    s = Shaking(Heard2(s.prologue, e, k), Mixed2(e, k), 1, e, NoKey, 2, s.status,
          s.prologue) /\ Silent(s)
HasOpened(k, x, s) ==
    /\ s = Made(Heard3(s.prologue, k), Mixed3(k), 1, Ephemeral(Other(x), k), Static(Other(x)),
          3, s.status,
                One(Split(x, Mixed3(k))), s.sent, s.received, s.datagrams, s.prologue)
    /\ s.status \in {"open", "closed"}
    /\ s.sent \in Nat /\ s.received \in Nat /\ s.datagrams \in Nat

(* What the three messages and the frames are by the time they are read.      *)
Greetings(k) == {Two(Clear(e), Clear(Payload)) : e \in {EI(k), Garbage}}
Answers(k, p, e) ==
    {Three(Clear(y), b, c) : y \in {ER(k), Garbage}, b \in Spoilt(PieceA(p, e, k)),
          c \in Spoilt(PieceB(p, e, k))}
Finals(k, p) == {Two(c, d) : c \in Spoilt(PieceC(p, k)), d \in Spoilt(PieceD(p, k))}
Frames(k, x, n) ==
    {One(f) : f \in UNION {Spoilt(Said(Split(x, Mixed3(k)).send, j, d)) : j \in 0..(n - 1),
          d \in Data}}

(* The stages of a session: nothing said, the first message, the second, the  *)
(* third, and both ends established.  The wire matters only while the end     *)
(* that would read it is not closed.                                         *)
Unsaid(k, i, r, wi, wr) ==
    IsNew(i) /\ IsNew(r) /\ wi = Nil /\ wr = Nil
Dialled(k, i, r, wi, wr) ==
    /\ HasDialled(k, i) /\ IsNew(r) /\ wr = Nil
    /\ r.status = "closed" \/ \E m \in Greetings(k) : wi = One(m)
Answered(k, i, r, wi, wr) ==
    \E e \in {EI(k), Garbage} :
        /\ HasDialled(k, i) /\ HasAnswered(k, r, e) /\ wi = Nil
        /\ i.status = "closed" \/ \E m \in Answers(k, r.prologue, e) : wr = One(m)
Half(k, i, r, wi, wr) ==
    /\ HasOpened(k, Initiator, i) /\ HasAnswered(k, r, EI(k)) /\ wr = Nil
    /\ i.prologue = r.prologue /\ i.received = 0
    /\ \/ r.status = "closed"
       \/ /\ wi \in Seq(Finals(k, r.prologue) \cup Frames(k, Initiator, i.sent))
          /\ wi # <<>> /\ wi[1] \in Finals(k, r.prologue)
          /\ \A j \in 2..Len(wi) : wi[j] \in Frames(k, Initiator, i.sent)
Settled(k, i, r, wi, wr) ==
    /\ HasOpened(k, Initiator, i) /\ HasOpened(k, Responder, r)
    /\ i.prologue = r.prologue /\ i.received <= r.sent /\ r.received <= i.sent
    /\ i.status = "closed" \/ wr \in Seq(Frames(k, Responder, r.sent))
    /\ r.status = "closed" \/ wi \in Seq(Frames(k, Initiator, i.sent))
Stage(k, i, r, wi, wr) ==
    \/ Unsaid(k, i, r, wi, wr)
    \/ Dialled(k, i, r, wi, wr)
    \/ Answered(k, i, r, wi, wr)
    \/ Half(k, i, r, wi, wr)
    \/ Settled(k, i, r, wi, wr)

(* The account of what was sealed: nothing under keys of a later session, and  *)
(* in this one only what the handshake says and what the ends have counted.   *)
IsOf(k, a) == ER(k) \in a.key.ck[1]
SentBy(s, a) ==
    /\ s.keys # <<>> /\ a.n \in Nat
    /\ \/ a.key = s.keys[1].send /\ a.n < s.sent
       \/ a.key = s.keys[1].udpSend /\ a.n < s.datagrams
SaidInShaking(k, i, r, a) ==
    /\ a.key.use = "handshake" /\ r.index # 0
    /\ i.index < 3 => a \in {PieceA(r.prologue, r.re, k), PieceB(r.prologue, r.re, k)}
Accounted(k, i, r, S) ==
    /\ \A a \in S, j \in Nat : IsOf(j, a) => j <= k
    /\ \A a \in S : IsOf(k, a) => SaidInShaking(k, i, r, a) \/ SentBy(i, a) \/ SentBy(r, a)
Unique(S) == \A a, b \in S : a.key = b.key /\ a.n = b.n => a = b

(* The inductive invariant: the ends and the wire are in some stage of this   *)
(* session, everything sealed is accounted for, and no key was used twice     *)
(* with one number.                                                          *)
SecureIInv ==
    /\ session \in Nat
    /\ end = [x \in Roles |-> end[x]] /\ wire = [x \in Roles |-> wire[x]]
    /\ Stage(session, end[Initiator], end[Responder], wire[Initiator], wire[Responder])
    /\ Accounted(session, end[Initiator], end[Responder], sealed)
    /\ Unique(sealed)

-----------------------------------------------------------------------------
(* Short sequences.                                                          *)

LEMMA AddToNil == ASSUME NEW a PROVE Add(Nil, a) = One(a)
BY DEF Nil, One, Add

LEMMA AddToOne == ASSUME NEW a, NEW b PROVE Add(One(a), b) = Two(a, b)
<1> DEFINE S == {a,b}
<1>1. <<a>> \in Seq(S) /\ <<a,b>> \in Seq(S) /\ b \in S /\ Len(<<a>>) = 1 /\ Len(<<a,b>>) = 2
  OBVIOUS
<1>3. Append(<<a>>, b) \in Seq(S) /\ Len(Append(<<a>>, b)) = 2
  BY <1>1
<1>4. \A i \in 1..2 : Append(<<a>>, b)[i] = <<a,b>>[i]
  BY <1>1
<1>5. Append(<<a>>, b) = <<a, b>>
  <2> HIDE DEF S
  <2> QED BY <1>1, <1>3, <1>4, SeqEqual
<1> QED BY <1>5 DEF One, Two, Add

LEMMA AddToTwo == ASSUME NEW a, NEW b, NEW c PROVE Add(Two(a, b), c) = Three(a, b, c)
<1> DEFINE S == {a,b,c}
<1>1. <<a,b>> \in Seq(S) /\ <<a,b,c>> \in Seq(S) /\ c \in S /\ Len(<<a,b>>) = 2 /\ Len(<<a,b,c>>) = 3
  OBVIOUS
<1>3. Append(<<a,b>>, c) \in Seq(S) /\ Len(Append(<<a,b>>, c)) = 3
  BY <1>1
<1>4. \A i \in 1..3 : Append(<<a,b>>, c)[i] = <<a,b,c>>[i]
  BY <1>1
<1>5. Append(<<a, b>>, c) = <<a, b, c>>
  <2> HIDE DEF S
  <2> QED BY <1>1, <1>3, <1>4, SeqEqual
<1> QED BY <1>5 DEF Two, Three, Add

LEMMA HeadTail1 == ASSUME NEW a PROVE First(One(a)) = a /\ Rest(One(a)) = Nil
BY DEF One, Nil, First, Rest

LEMMA HeadTail2 == ASSUME NEW a, NEW b PROVE Rest(Two(a, b)) = One(b) /\ First(Two(a, b)) = a
<1>1. Head(<<a,b>>) = a OBVIOUS
<1>3. Tail(<<a,b>>) = <<b>>  OBVIOUS
<1> QED BY <1>1, <1>3 DEF One, Two, First, Rest

LEMMA HeadTail3 == ASSUME NEW a, NEW b, NEW c PROVE Rest(Three(a, b, c)) = Two(b,
      c) /\ First(Three(a, b, c)) = a
<1> DEFINE S == {a,b,c}
<1>1. <<a,b,c>> \in Seq(S) /\ <<b,c>> \in Seq(S) /\ Len(<<a,b,c>>) = 3 /\ Len(<<b,c>>) = 2
  OBVIOUS
<1>3. Tail(<<a,b,c>>) \in Seq(S) /\ Len(Tail(<<a,b,c>>)) = 2 /\ \A i \in 1..2 : Tail(<<a,b,c>>)[i] = <<b,c>>[i]
  BY <1>1
<1>4. Tail(<<a,b,c>>) = <<b,c>>
  <2> HIDE DEF S
  <2> QED BY <1>1, <1>3, SeqEqual
<1>5. Head(<<a,b,c>>) = a  OBVIOUS
<1> QED BY <1>4, <1>5 DEF Two, Three, First, Rest

LEMMA FirstOfTwo == ASSUME NEW a, NEW b
  PROVE Add(One(a), b)[1] = a /\ Add(One(a), b) # Nil /\ Len(Add(One(a), b)) = 2
<1>1. <<a>> \in Seq({a, b}) /\ Len(<<a>>) = 1 OBVIOUS
<1> QED BY <1>1 DEF One, Nil, Add

LEMMA FirstOfThree == ASSUME NEW a, NEW b, NEW c
  PROVE /\ Add(Add(One(a), b), c)[1] = a
        /\ Add(Add(One(a), b), c) # Nil
        /\ Len(Add(Add(One(a), b), c)) = 3
<1>1. <<a>> \in Seq({a, b, c}) /\ Append(<<a>>, b) \in Seq({a, b, c}) OBVIOUS
<1> QED BY <1>1, FirstOfTwo DEF One, Nil, Add

LEMMA FirstOfFour == ASSUME NEW a, NEW b, NEW c, NEW d
  PROVE Add(Add(Add(One(a), b), c), d)[1] = a
<1>1. <<a>> \in Seq({a, b, c, d}) /\ Append(<<a>>, b) \in Seq({a, b, c,
      d}) /\ Append(Append(<<a>>, b), c) \in Seq({a, b, c, d}) OBVIOUS
<1> QED BY <1>1, FirstOfThree DEF One, Nil, Add

LEMMA MixedFirst == ASSUME NEW e, NEW k
  PROVE /\ Mixed1(e, k) # Nil /\ Mixed2(e, k) # Nil /\ Mixed3(k) # Nil
        /\ Mixed1(e, k)[1] = DH(ER(k), e) /\ Mixed2(e, k)[1] = DH(ER(k),
              e) /\ Mixed3(k)[1] = DH(ER(k), EI(k))
        /\ Len(Mixed1(e, k)) = 1 /\ Len(Mixed2(e, k)) = 2 /\ Len(Mixed3(k)) = 3
<1>1. Mixed1(e, k) = One(DH(ER(k), e)) /\ Mixed1(EI(k), k) = One(DH(ER(k),
      EI(k))) BY AddToNil DEF Mixed1
<1>2. ASSUME NEW a PROVE One(a)[1] = a /\ Len(One(a)) = 1 /\ One(a) # Nil BY DEF One, Nil
<1> QED BY <1>1, <1>2, FirstOfTwo, FirstOfThree DEF Mixed2, Mixed3

-----------------------------------------------------------------------------
(* Writing a message, token by token (WriteToken, EncryptAndHash): each of    *)
(* the three messages comes out as its transcript says.                     *)

LEMMA ShakingFields ==
    ASSUME NEW h, NEW ck, NEW n, NEW re, NEW rs, NEW index, NEW st, NEW p
    PROVE LET s == Shaking(h, ck, n, re, rs, index, st, p)
          IN  /\ s.ck = ck /\ s.h = h /\ s.n = n /\ s.re = re /\ s.rs = rs /\ s.index = index
              /\ s.status = st /\ s.prologue = p
BY DEF Shaking, Made

LEMMA WriterFields ==
    ASSUME NEW h, NEW ck, NEW n, NEW re, NEW rs, NEW index, NEW st, NEW p, NEW out
    PROVE LET w == Writer(h, ck, n, re, rs, index, st, p, out)
          IN  w.end = Shaking(h, ck, n, re, rs, index, st, p) /\ w.out = out
BY DEF Writer

LEMMA MixHashes ==
    ASSUME NEW h, NEW ck, NEW n, NEW re, NEW rs, NEW index, NEW st, NEW p, NEW piece
    PROVE MixHash(Shaking(h, ck, n, re, rs, index, st, p), piece)
               = Shaking(Add(h, piece), ck, n, re, rs, index, st, p)
  BY DEF MixHash, Shaking, Made, Add

LEMMA CountedClear ==
    ASSUME NEW h, NEW n, NEW re, NEW rs, NEW index, NEW st, NEW p
    PROVE Counted(Shaking(h, Nil, n, re, rs, index, st, p))
               = Shaking(h, Nil, n, re, rs, index, st, p)
  BY DEF Counted, Shaking, Made, NoSecrets, Nil

LEMMA CountedKeyed ==
    ASSUME NEW h, NEW ck, NEW n, NEW re, NEW rs, NEW index, NEW st, NEW p, ck # Nil
    PROVE Counted(Shaking(h, ck, n, re, rs, index, st, p))
               = Shaking(h, ck, n + 1, re, rs, index, st, p)
  BY DEF Counted, Shaking, Made, NoSecrets, Nil

LEMMA SealsClear ==
    ASSUME NEW h, NEW n, NEW re, NEW rs, NEW index, NEW st, NEW p, NEW out, NEW plain
    PROVE EncryptAndHash(Writer(h, Nil, n, re, rs, index, st, p, out), plain)
            = Writer(Add(h, Clear(plain)), Nil, n, re, rs, index, st, p, Add(out, Clear(plain)))
<1> DEFINE s == Shaking(h, Nil, n, re, rs, index, st, p)
           w == Writer(h, Nil, n, re, rs, index, st, p, out)
<1>1. w.end = s /\ w.out = out /\ s.ck = Nil BY WriterFields, ShakingFields
<1>2. EncryptAndHash(w, plain)
        = [end |-> MixHash(Counted(s), Clear(plain)), out |-> Add(out, Clear(plain))]
  <2> HIDE DEF w, s
  <2> QED BY <1>1 DEF EncryptAndHash, NoSecrets, Nil, Add
<1>3. MixHash(Counted(s), Clear(plain)) = Shaking(Add(h, Clear(plain)), Nil, n, re, rs, index,
      st, p)
  BY MixHashes, CountedClear
<1> QED BY <1>2, <1>3 DEF Writer

LEMMA Seals ==
    ASSUME NEW h, NEW ck, NEW n, NEW re, NEW rs, NEW index, NEW st, NEW p, NEW out, NEW plain,
          ck # Nil
    PROVE EncryptAndHash(Writer(h, ck, n, re, rs, index, st, p, out), plain)
            = Writer(Add(h, Piece(HandshakeKey(ck), n, h, plain)), ck, n + 1, re, rs, index,
                  st, p, Add(out, Piece(HandshakeKey(ck), n, h, plain)))
<1> DEFINE s == Shaking(h, ck, n, re, rs, index, st, p)
           w == Writer(h, ck, n, re, rs, index, st, p, out)
           piece == Piece(HandshakeKey(ck), n, h, plain)
<1>1. w.end = s /\ w.out = out /\ s.ck = ck /\ s.n = n /\ s.h = h BY WriterFields, ShakingFields
<1>2. EncryptAndHash(w, plain)
        = [end |-> MixHash(Counted(s), piece), out |-> Add(out, piece)]
  <2> HIDE DEF w, s
  <2> QED BY <1>1 DEF EncryptAndHash, NoSecrets, Nil, Add
<1>3. MixHash(Counted(s), piece) = Shaking(Add(h, piece), ck, n + 1, re, rs, index, st, p)
  <2> HIDE DEF piece
  <2> QED BY MixHashes, CountedKeyed
<1> QED BY <1>2, <1>3 DEF Writer

LEMMA WritesE ==
    ASSUME NEW x, NEW h, NEW ck, NEW n, NEW re, NEW rs, NEW index, NEW st, NEW p, NEW out
    PROVE WriteToken(x, Writer(h, ck, n, re, rs, index, st, p, out), "e") =
            Writer(Add(h, Clear(Ephemeral(x, session))), ck, n, re, rs, index, st, p, Add(out,
                  Clear(Ephemeral(x, session))))
BY DEF WriteToken, Writer, Shaking, Made, MixHash, Add

LEMMA WritesS ==
    ASSUME NEW x, NEW w
    PROVE WriteToken(x, w, "s") = EncryptAndHash(w, Static(x))
BY DEF WriteToken

LEMMA WritesDH ==
    ASSUME NEW x, NEW h, NEW ck, NEW n, NEW re, NEW rs, NEW index, NEW st, NEW p, NEW out,
          NEW token \in {"ee", "es", "se"}
    PROVE WriteToken(x, Writer(h, ck, n, re, rs, index, st, p, out), token) =
          Writer(h, Add(ck, Secret(x, Shaking(h, ck, n, re, rs, index, st, p), token)), 0, re,
                rs, index, st, p, out)
BY DEF WriteToken, Writer, Shaking, Made, MixKey, Add

LEMMA Secrets ==
    ASSUME NEW h, NEW ck, NEW n, NEW re, NEW rs, NEW index, NEW st, NEW p
    PROVE LET s == Shaking(h, ck, n, re, rs, index, st, p)
          IN /\ Secret(Initiator, s, "ee") = DH(EI(session), re)
             /\ Secret(Initiator, s, "es") = DH(EI(session), rs)
             /\ Secret(Initiator, s, "se") = DH(SI, re)
             /\ Secret(Responder, s, "ee") = DH(ER(session), re)
             /\ Secret(Responder, s, "es") = DH(SR, re)
             /\ Secret(Responder, s, "se") = DH(ER(session), rs)
BY DEF Secret, Shaking, Made, EI, ER, SI, SR, Initiator, Responder

LEMMA Patterns ==
    /\ \A i \in 1 .. 4 : i \in DOMAIN Pattern(0) <=> i = 1
    /\ \A i \in 1 .. 4 : i \in DOMAIN Pattern(1)
    /\ \A i \in 1 .. 4 : i \in DOMAIN Pattern(2) <=> i \in {1, 2}
    /\ Pattern(0)[1] = "e"
    /\ Pattern(1)[1] = "e" /\ Pattern(1)[2] = "ee" /\ Pattern(1)[3] = "s" /\ Pattern(1)[4] = "es"
    /\ Pattern(2)[1] = "s" /\ Pattern(2)[2] = "se"
<1>1. Pattern(0) = <<"e">> /\ Pattern(1) = <<"e", "ee", "s", "es">> /\ Pattern(2) = <<"s", "se">>
  BY DEF Pattern
<1> QED BY <1>1

LEMMA Writes ==
    ASSUME NEW x, NEW h, NEW ck, NEW n, NEW re, NEW rs, NEW index, NEW st, NEW p
    PROVE LET b == Writer(h, ck, n, re, rs, index, st, p, Nil)
              wrote == WriteMessage(x, Shaking(h, ck, n, re, rs, index, st, p))
          IN  /\ index = 0 => wrote = EncryptAndHash(WriteToken(x, b, "e"), Payload)
              /\ index = 1 => wrote = EncryptAndHash(WriteToken(x, WriteToken(x, WriteToken(x,
                    WriteToken(x, b, "e"), "ee"), "s"), "es"), Payload)
              /\ index = 2 => wrote = EncryptAndHash(WriteToken(x, WriteToken(x, b, "s"),
                    "se"), Payload)
<1> DEFINE s == Shaking(h, ck, n, re, rs, index, st, p)
<1>0. s.index = index BY DEF Shaking, Made
<1>1. CASE s.index = 0 BY <1>0, <1>1, Patterns DEF WriteMessage, Writer, Nil
<1>2. CASE s.index = 1 BY <1>0, <1>2, Patterns DEF WriteMessage, Writer, Nil
<1>3. CASE s.index = 2 BY <1>0, <1>3, Patterns DEF WriteMessage, Writer, Nil
<1> QED BY <1>0, <1>1, <1>2, <1>3

LEMMA WriteFirst ==
    ASSUME NEW p, NEW st
    PROVE WriteMessage(Initiator, Shaking(Heard0(p), Nil, 0, NoKey, NoKey, 0, st, p)) =
          Writer(Heard1(p, EI(session)), Nil, 0, NoKey, NoKey, 0, st, p,
                Two(Clear(EI(session)), Clear(Payload)))
<1> DEFINE s == Shaking(Heard0(p), Nil, 0, NoKey, NoKey, 0, st, p)
           w == WriteToken(Initiator, Writer(Heard0(p), Nil, 0, NoKey, NoKey, 0, st, p, Nil),
                 "e")
<1>1. WriteMessage(Initiator, s) = EncryptAndHash(w, Payload)
  BY Writes
<1>2. w = Writer(Add(Heard0(p), Clear(EI(session))), Nil, 0, NoKey, NoKey, 0, st, p,
      One(Clear(EI(session))))
   BY WritesE, AddToNil DEF EI
<1> HIDE DEF w
<1> QED 
 BY <1>1, <1>2, SealsClear, AddToOne DEF Heard1

LEMMA WriteSecond ==
    ASSUME NEW p, NEW st, NEW x
    PROVE WriteMessage(Responder, Shaking(Heard1(p, x), Nil, 0, x, NoKey, 1, st, p)) =
          Writer(Heard2(p, x, session), Mixed2(x, session), 1, x, NoKey, 1, st, p,
                Three(Clear(ER(session)), PieceA(p, x, session), PieceB(p, x, session)))
<1> DEFINE we == Responder
           k == session
           w0 == Writer(Heard1(p, x), Nil, 0, x, NoKey, 1, st, p, Nil)
           w1 == WriteToken(we, w0, "e")
           w2 == WriteToken(we, w1, "ee")
           w3 == WriteToken(we, w2, "s")
           w4 == WriteToken(we, w3, "es")
<1>1. WriteMessage(Responder, Shaking(Heard1(p, x), Nil, 0, x, NoKey, 1, st,
      p)) = EncryptAndHash(w4, Payload)
   BY Writes
<1>2. w1 = Writer(HeardE(p, x, k), Nil, 0, x, NoKey, 1, st, p, One(Clear(ER(k))))
   BY WritesE, AddToNil DEF ER, HeardE
<1>3. w2 = Writer(HeardE(p, x, k), Mixed1(x, k), 0, x, NoKey, 1, st, p, One(Clear(ER(k))))
   <2> HIDE DEF w1
   <2> QED BY <1>2, WritesDH, Secrets DEF Mixed1
<1>4. Mixed1(x, k) # Nil /\ Mixed2(x, k) # Nil
   BY MixedFirst
<1>5. w3 = Writer(HeardA(p, x, k), Mixed1(x, k), 1, x, NoKey, 1, st, p, Two(Clear(ER(k)),
      PieceA(p, x, k)))
   <2>1. w3 = EncryptAndHash(w2, SR)  BY WritesS DEF SR
   <2> HIDE DEF w2, w3
   <2> QED BY <2>1, <1>3, <1>4, Seals, AddToOne DEF HeardA, PieceA
<1>6. w4 = Writer(HeardA(p, x, k), Mixed2(x, k), 0, x, NoKey, 1, st, p, Two(Clear(ER(k)),
      PieceA(p, x, k)))
   <2> HIDE DEF w3
   <2> QED BY <1>5, WritesDH, Secrets DEF Mixed2
<1> HIDE DEF w4
<1> QED
  BY <1>1, <1>6, <1>4, Seals, AddToTwo DEF Heard2, PieceB

LEMMA WriteThird ==
    ASSUME NEW p, NEW st
    PROVE WriteMessage(Initiator, Shaking(Heard2(p, EI(session), session), Mixed2(EI(session),
          session), 1, ER(session), SR, 2, st, p)) =
          Writer(Heard3(p, session), Mixed3(session), 1, ER(session), SR, 2, st, p,
                Two(PieceC(p, session), PieceD(p, session)))
<1> DEFINE we == Initiator
           k == session
           w0 == Writer(Heard2(p, EI(k), k), Mixed2(EI(k), k), 1, ER(k), SR, 2, st, p, Nil)
           w1 == WriteToken(we, w0, "s")
           w2 == WriteToken(we, w1, "se")
<1>1. WriteMessage(we, Shaking(Heard2(p, EI(k), k), Mixed2(EI(k), k), 1, ER(k), SR, 2, st,
      p)) = EncryptAndHash(w2, Payload)
   BY Writes
<1>4. Mixed2(EI(k), k) # Nil /\ Mixed3(k) # Nil
   BY MixedFirst
<1>5. w1 = Writer(HeardC(p, k), Mixed2(EI(k), k), 2, ER(k), SR, 2, st, p, One(PieceC(p, k)))
   <2>1. w1 = EncryptAndHash(w0, SI)  BY WritesS DEF SI
   <2> HIDE DEF w1
   <2> QED BY <2>1, <1>4, Seals, AddToNil, 1 + 1 = 2 DEF HeardC, PieceC
<1>6. w2 = Writer(HeardC(p, k), Mixed3(k), 0, ER(k), SR, 2, st, p, One(PieceC(p, k)))
   <2> HIDE DEF w1
   <2> QED BY <1>5, WritesDH, Secrets DEF Mixed3
<1> HIDE DEF w2
<1> QED
  BY <1>1, <1>6, <1>4, Seals, AddToOne DEF Heard3, PieceD

-----------------------------------------------------------------------------
(* Reading one, token by token (ReadToken, DecryptAndHash): the first message *)
(* is always read; the second and the third are read only if every piece     *)
(* arrived as it was written by an end with the same transcript.            *)

LEMMA ReaderFields ==
    ASSUME NEW h, NEW ck, NEW n, NEW re, NEW rs, NEW index, NEW st, NEW p, NEW in, NEW got
    PROVE LET r == Reader(h, ck, n, re, rs, index, st, p, in, got)
          IN r.end = Shaking(h, ck, n, re, rs, index, st, p) /\ r.in = in /\ r.got = got /\ r.ok
BY DEF Reader

LEMMA OpensClear ==
    ASSUME NEW h, NEW n, NEW re, NEW rs, NEW index, NEW st, NEW p, NEW in, NEW got
    PROVE DecryptAndHash(Reader(h, Nil, n, re, rs, index, st, p, in, got))
            = Reader(Add(h, First(in)), Nil, n, re, rs, index, st, p, Rest(in), First(in).plain)
<1> DEFINE s == Shaking(h, Nil, n, re, rs, index, st, p)
           r == Reader(h, Nil, n, re, rs, index, st, p, in, got)
<1>1. r.end = s /\ r.in = in /\ s.ck = Nil BY ShakingFields, ReaderFields
<1>2. DecryptAndHash(r)
        = [end |-> MixHash(Counted(s), First(in)), in |-> Rest(in), got |-> First(in).plain,
              ok |-> TRUE]
  <2> HIDE DEF r, s
  <2> QED BY <1>1 DEF DecryptAndHash, NoSecrets, Nil, First, Rest
<1>3. MixHash(Counted(s), First(in)) = Shaking(Add(h, First(in)), Nil, n, re, rs, index, st, p)
  BY MixHashes, CountedClear
<1> QED BY <1>2, <1>3 DEF Reader

LEMMA OpensSealed ==
    ASSUME NEW h, NEW ck, NEW n, NEW re, NEW rs, NEW index, NEW st, NEW p, NEW in, NEW got,
           ck # Nil, Opens(First(in), HandshakeKey(ck), n, h)
    PROVE DecryptAndHash(Reader(h, ck, n, re, rs, index, st, p, in, got))
            = Reader(Add(h, First(in)), ck, n + 1, re, rs, index, st, p, Rest(in),
                  First(in).plain)
<1> DEFINE s == Shaking(h, ck, n, re, rs, index, st, p)
           r == Reader(h, ck, n, re, rs, index, st, p, in, got)
<1>1. r.end = s /\ r.in = in /\ s.ck = ck /\ s.h = h /\ s.n = n BY ShakingFields, ReaderFields
<1>2. DecryptAndHash(r)
        = [end |-> MixHash(Counted(s), First(in)), in |-> Rest(in), got |-> First(in).plain,
              ok |-> TRUE]
  <2> HIDE DEF r, s
  <2> QED BY <1>1 DEF DecryptAndHash, NoSecrets, Nil, First, Rest
<1>3. MixHash(Counted(s), First(in)) = Shaking(Add(h, First(in)), ck, n + 1, re, rs, index,
      st, p)
  BY MixHashes, CountedKeyed
<1> QED BY <1>2, <1>3 DEF Reader

LEMMA OpensNot ==
    ASSUME NEW h, NEW ck, NEW n, NEW re, NEW rs, NEW index, NEW st, NEW p, NEW in, NEW got,
           ck # Nil, ~Opens(First(in), HandshakeKey(ck), n, h)
    PROVE ~DecryptAndHash(Reader(h, ck, n, re, rs, index, st, p, in, got)).ok
<1> DEFINE s == Shaking(h, ck, n, re, rs, index, st, p)
           r == Reader(h, ck, n, re, rs, index, st, p, in, got)
<1>1. r.end = s /\ r.in = in /\ s.ck = ck /\ s.h = h /\ s.n = n BY ShakingFields, ReaderFields
<1>2. DecryptAndHash(r) = [r EXCEPT !.ok = FALSE]
  <2> HIDE DEF r, s
  <2> QED BY <1>1 DEF DecryptAndHash, NoSecrets, Nil, First, Rest
<1> QED BY <1>2 DEF Reader

LEMMA ReadsE ==
    ASSUME NEW x, NEW h, NEW ck, NEW n, NEW re, NEW rs, NEW index, NEW st, NEW p, NEW in,
          NEW got
    PROVE ReadToken(x, Reader(h, ck, n, re, rs, index, st, p, in, got), "e") =
          Reader(Add(h, First(in)), ck, n, First(in).plain, rs, index, st, p, Rest(in), got)
<1> DEFINE r == Reader(h, ck, n, re, rs, index, st, p, in, got)
           s == Shaking(h, ck, n, re, rs, index, st, p)
           heard == Shaking(Add(h, First(in)), ck, n, re, rs, index, st, p)
<1>1. r.ok /\ r.end = s /\ r.in = in BY ReaderFields
<1>2. MixHash(s, First(in)) = heard BY MixHashes
<1>3. ReadToken(x, r, "e") = [r EXCEPT !.end = [heard EXCEPT !.re = First(in).plain],
      !.in = Rest(in)]
   <2> HIDE DEF r, s, heard
   <2> QED BY <1>1, <1>2 DEF ReadToken, First, Rest
<1>4. [heard EXCEPT !.re = First(in).plain] = Shaking(Add(h, First(in)), ck, n,
      First(in).plain, rs, index, st, p)
   BY DEF Shaking, Made
<1> QED BY <1>3, <1>4 DEF Reader

LEMMA ReadsSealed ==
    ASSUME NEW x, NEW h, NEW ck, NEW n, NEW re, NEW rs, NEW index, NEW st, NEW p, NEW in,
          NEW got,
           ck # Nil, Opens(First(in), HandshakeKey(ck), n, h)
    PROVE ReadToken(x, Reader(h, ck, n, re, rs, index, st, p, in, got), "s")
            = Reader(Add(h, First(in)), ck, n + 1, re, First(in).plain, index, st, p,
                  Rest(in), First(in).plain)
<1> DEFINE r == Reader(h, ck, n, re, rs, index, st, p, in, got)
           o == DecryptAndHash(r)
<1>1. ReadToken(x, r, "s") = [o EXCEPT !.end.rs = o.got]
   <2>1. r.ok BY ReaderFields
   <2> HIDE DEF r
   <2> QED BY <2>1 DEF ReadToken
   <1>11. o = Reader(Add(h, First(in)), ck, n + 1, re, rs, index, st, p, Rest(in),
         First(in).plain)
     BY OpensSealed
   <1> DEFINE opened == Reader(Add(h, First(in)), ck, n + 1, re, rs, index, st, p, Rest(in),
         First(in).plain)
              heard == Shaking(Add(h, First(in)), ck, n + 1, re, rs, index, st, p)
   <1>12. opened.got = First(in).plain /\ opened.end = heard BY ReaderFields
   <1>13. [opened EXCEPT !.end.rs = opened.got] = [opened EXCEPT !.end = [heard EXCEPT !.rs = First(in).plain]]
     <2> HIDE DEF opened, heard
     <2> QED BY <1>12, Zenon
   <1>14. [heard EXCEPT !.rs = First(in).plain] = Shaking(Add(h, First(in)), ck, n + 1, re,
         First(in).plain, index, st, p)
     BY DEF Shaking, Made
   <1>15. ReadToken(x, r, "s") = [opened EXCEPT !.end.rs = opened.got]
     <2> HIDE DEF o, r
     <2> QED BY <1>1, <1>11
   <1> QED BY <1>13, <1>14, <1>15 DEF Reader

LEMMA ReadsBroken ==
    ASSUME NEW x, NEW h, NEW ck, NEW n, NEW re, NEW rs, NEW index, NEW st, NEW p, NEW in,
          NEW got,
           ck # Nil, ~Opens(First(in), HandshakeKey(ck), n, h)
    PROVE ~ReadToken(x, Reader(h, ck, n, re, rs, index, st, p, in, got), "s").ok
<1> DEFINE r == Reader(h, ck, n, re, rs, index, st, p, in, got)
           o == DecryptAndHash(r)
<1>1. ReadToken(x, r, "s") = [o EXCEPT !.end.rs = o.got]
   <2>1. r.ok BY ReaderFields
   <2> HIDE DEF r
   <2> QED BY <2>1 DEF ReadToken
   <1>11. o = [r EXCEPT !.ok = FALSE]
     <2> DEFINE s == Shaking(h, ck, n, re, rs, index, st, p)
     <2>1. r.end = s /\ r.in = in /\ s.ck = ck /\ s.h = h /\ s.n = n BY ShakingFields,
           ReaderFields
     <2> HIDE DEF r, s
     <2> QED BY <2>1 DEF DecryptAndHash, NoSecrets, Nil, First, Rest
   <1>12. ~[o EXCEPT !.end.rs = o.got].ok
     BY <1>11 DEF Reader
   <1> QED BY <1>1, <1>12

LEMMA ReadsNot ==
    ASSUME NEW x, NEW r, NEW token, ~r.ok
    PROVE ReadToken(x, r, token) = r
BY DEF ReadToken, First, Rest

LEMMA ReadsDH ==
    ASSUME NEW x, NEW h, NEW ck, NEW n, NEW re, NEW rs, NEW index, NEW st, NEW p, NEW in,
          NEW got, NEW token \in {"ee", "es", "se"}
    PROVE ReadToken(x, Reader(h, ck, n, re, rs, index, st, p, in, got), token) =
          Reader(h, Add(ck, Secret(x, Shaking(h, ck, n, re, rs, index, st, p), token)), 0, re,
                rs, index, st, p, in, got)
<1> DEFINE r == Reader(h, ck, n, re, rs, index, st, p, in, got)
           s == Shaking(h, ck, n, re, rs, index, st, p)
<1>1. ReadToken(x, r, token) = [r EXCEPT !.end = MixKey(s, Secret(x, s, token))]
   <2>1. r.ok /\ r.end = s BY ReaderFields
   <2> HIDE DEF r, s
   <2> QED BY <2>1 DEF ReadToken, First, Rest
<1>2. ASSUME NEW secret PROVE MixKey(s, secret) = Shaking(h, Add(ck, secret), 0, re, rs,
      index, st, p)
   <2>1. MixKey(s, secret) = [s EXCEPT !.ck = Add(ck, secret), !.n = 0]
     <3>1. s.ck = ck BY ShakingFields
     <3> HIDE DEF s
     <3> QED BY <3>1 DEF MixKey, Add
   <2> QED BY <2>1 DEF Shaking, Made
<1> QED BY <1>1, <1>2 DEF Reader

LEMMA Reads ==
    ASSUME NEW x, NEW h, NEW ck, NEW n, NEW re, NEW rs, NEW index, NEW st, NEW p, NEW m
    PROVE LET b == Reader(h, ck, n, re, rs, index, st, p, m, NoKey)
              msg == ReadMessage(x, Shaking(h, ck, n, re, rs, index, st, p), m)
              e0 == ReadToken(x, b, "e")
              e1 == ReadToken(x, ReadToken(x, ReadToken(x, ReadToken(x, b, "e"), "ee"), "s"),
                    "es")
              e2 == ReadToken(x, ReadToken(x, b, "s"), "se")
          IN  /\ index = 0 => msg = IF e0.ok THEN DecryptAndHash(e0) ELSE e0
              /\ index = 1 => msg = IF e1.ok THEN DecryptAndHash(e1) ELSE e1
              /\ index = 2 => msg = IF e2.ok THEN DecryptAndHash(e2) ELSE e2
<1> DEFINE s == Shaking(h, ck, n, re, rs, index, st, p)
<1>0. s.index = index BY DEF Shaking, Made
<1> DEFINE b == Reader(h, ck, n, re, rs, index, st, p, m, NoKey)
           e0 == ReadToken(x, b, "e")
           e1 == ReadToken(x, ReadToken(x, ReadToken(x, ReadToken(x, b, "e"), "ee"), "s"), "es")
           e2 == ReadToken(x, ReadToken(x, b, "s"), "se")
           do(r, i) == IF i \in DOMAIN Pattern(s.index) THEN ReadToken(x, r, Pattern(s.index)[i])
                       ELSE r
           read == do(do(do(do(b, 1), 2), 3), 4)
<1>1. ReadMessage(x, s, m) = IF read.ok THEN DecryptAndHash(read) ELSE read
  BY DEF ReadMessage, Reader
<1>2. s.index = 0 => read = e0
  <2> HIDE DEF s, b
  <2> QED BY Patterns
<1>3. s.index = 1 => read = e1
  <2> HIDE DEF s, b
  <2> QED BY Patterns
<1>4. s.index = 2 => read = e2
  <2> HIDE DEF s, b
  <2> QED BY Patterns
<1> HIDE DEF s, read, e0, e1, e2
<1>5. /\ index = 0 => ReadMessage(x, s, m) = IF e0.ok THEN DecryptAndHash(e0) ELSE e0
      /\ index = 1 => ReadMessage(x, s, m) = IF e1.ok THEN DecryptAndHash(e1) ELSE e1
      /\ index = 2 => ReadMessage(x, s, m) = IF e2.ok THEN DecryptAndHash(e2) ELSE e2
  BY <1>0, <1>1, <1>2, <1>3, <1>4
<1> QED BY <1>5 DEF s, e0, e1, e2, b

LEMMA Clears == ASSUME NEW x PROVE Clear(x).plain = x
BY DEF Clear, Piece

LEMMA ReadFirst ==
    ASSUME NEW q, NEW st, NEW x
    PROVE ReadMessage(Responder, Shaking(Heard0(q), Nil, 0, NoKey, NoKey, 0, st, q),
          Two(Clear(x), Clear(Payload)))
           = Reader(Heard1(q, x), Nil, 0, x, NoKey, 0, st, q, Nil, Payload)
<1> DEFINE m == Two(Clear(x), Clear(Payload))
           b == Reader(Heard0(q), Nil, 0, NoKey, NoKey, 0, st, q, m, NoKey)
           e0 == ReadToken(Responder, b, "e")
<1>1. e0 = Reader(Add(Heard0(q), Clear(x)), Nil, 0, x, NoKey, 0, st, q, One(Clear(Payload)),
      NoKey)
  BY ReadsE, HeadTail2, Clears
<1>2. e0.ok BY <1>1, ReaderFields
<1>3. DecryptAndHash(e0) = Reader(Heard1(q, x), Nil, 0, x, NoKey, 0, st, q, Nil, Payload)
  <2> HIDE DEF e0
  <2> QED BY <1>1, OpensClear, HeadTail1, Clears DEF Heard1
<1>4. ReadMessage(Responder, Shaking(Heard0(q), Nil, 0, NoKey, NoKey, 0, st, q),
      m) = IF e0.ok THEN DecryptAndHash(e0) ELSE e0
  BY Reads
<1> QED BY <1>2, <1>3, <1>4

LEMMA PieceIs ==
    ASSUME NEW key, NEW n, NEW ad, NEW plain, NEW piece \in Spoilt(Piece(key, n, ad, plain)),
          NEW key2, NEW n2, NEW ad2
    PROVE Opens(piece, key2, n2, ad2) <=> piece = Piece(key, n, ad,
          plain) /\ key2 = key /\ n2 = n /\ ad2 = ad
BY DEF Spoilt, Spoiled, Piece, Opens

LEMMA KeyIs == ASSUME NEW a, NEW b PROVE HandshakeKey(a) = HandshakeKey(b) <=> a = b
BY DEF HandshakeKey, Key

LEMMA ReadSecond ==
    ASSUME NEW p, NEW q, NEW st, NEW x, NEW y, NEW b, NEW c,
           session \in Nat,
           x \in {EI(session), Garbage}, y \in {ER(session), Garbage},
           b \in Spoilt(PieceA(q, x, session)), c \in Spoilt(PieceB(q, x, session)),
           ReadMessage(Initiator, Shaking(Heard1(p, EI(session)), Nil, 0, NoKey, NoKey, 1, st,
                 p), Three(Clear(y), b, c)).ok
    PROVE /\ p = q /\ x = EI(session) /\ y = ER(session)
          /\ ReadMessage(Initiator, Shaking(Heard1(p, EI(session)), Nil, 0, NoKey, NoKey, 1,
                st, p), Three(Clear(y), b, c))
               = Reader(Heard2(p, EI(session), session), Mixed2(EI(session), session), 1,
                     ER(session), SR, 1, st, p, Nil, Payload)
<1> DEFINE k == session
           us == Initiator
           h == Heard1(p, EI(k))
           m == Three(Clear(y), b, c)
           ck1 == Add(Nil, DH(EI(k), y))
           h1 == Add(h, Clear(y))
           r0 == Reader(h, Nil, 0, NoKey, NoKey, 1, st, p, m, NoKey)
           r1 == ReadToken(us, r0, "e")
           r2 == ReadToken(us, r1, "ee")
           r3 == ReadToken(us, r2, "s")
           r4 == ReadToken(us, r3, "es")
           read == ReadMessage(us, Shaking(h, Nil, 0, NoKey, NoKey, 1, st, p), m)
<1>1. read = IF r4.ok THEN DecryptAndHash(r4) ELSE r4 BY Reads
<1>2. r1 = Reader(h1, Nil, 0, y, NoKey, 1, st, p, Two(b, c), NoKey)
   BY ReadsE, HeadTail3, Clears
<1>3. r2 = Reader(h1, ck1, 0, y, NoKey, 1, st, p, Two(b, c), NoKey)
   <2> HIDE DEF r1
   <2> QED BY <1>2, ReadsDH, Secrets
<1>4. ck1 # Nil /\ ck1[1] = DH(EI(k), y)
   <2>1. ck1 = One(DH(EI(k), y)) BY AddToNil
   <2> QED BY <2>1 DEF One, Nil
<1>5. Opens(b, HandshakeKey(ck1), 0, h1)
   <2> SUFFICES ASSUME ~Opens(b, HandshakeKey(ck1), 0, h1) PROVE FALSE OBVIOUS
   <2>1. ~r3.ok
     <3>1. ~Opens(First(Two(b, c)), HandshakeKey(ck1), 0, h1) BY HeadTail2
     <3>2. ck1 # Nil BY <1>4
     <3> HIDE DEF r2, ck1, h1
     <3>3. ~ReadToken(us, Reader(h1, ck1, 0, y, NoKey, 1, st, p, Two(b, c), NoKey), "s").ok
       BY <3>1, <3>2, ReadsBroken
     <3> QED BY <1>3, <3>3
   <2>2. r4 = r3
     <3> HIDE DEF r3
     <3> QED BY <2>1, ReadsNot
   <2> HIDE DEF r4, r3
   <2> QED BY <2>1, <2>2, <1>1 DEF read
<1>6. b = PieceA(q, x, k) /\ ck1 = Mixed1(x, k) /\ h1 = HeardE(q, x, k)
   <2> HIDE DEF ck1, h1
   <2> QED BY <1>5, PieceIs, KeyIs DEF PieceA
<1>7. x = EI(k) /\ y = ER(k)
   <2>1. DH(EI(k), y) = DH(ER(k), x)
     <3> HIDE DEF ck1
     <3> QED BY <1>4, <1>6, MixedFirst
   <2> QED BY <2>1 DEF DH, EI, ER, Ephemeral, Garbage, Initiator, Responder
<1>8. p = q
   <2>1. Prologue(p) = Prologue(q)
     <3>1. h1[1] = Prologue(p) BY FirstOfFour DEF Heard1, Heard0
     <3>2. HeardE(q, x, k)[1] = Prologue(q) BY FirstOfFour DEF HeardE, Heard1, Heard0
     <3> QED BY <3>1, <3>2, <1>6
   <2> QED BY <2>1 DEF Prologue, Clear, Piece
<1>9. h1 = HeardE(p, EI(k), k) /\ ck1 = Mixed1(EI(k), k) /\ b = PieceA(p, EI(k), k)
   BY <1>6, <1>7, <1>8
<1>10. r3 = Reader(HeardA(p, EI(k), k), Mixed1(EI(k), k), 1, ER(k), SR, 1, st, p, One(c), SR)
   <2>1. b.plain = SR BY <1>9 DEF PieceA, Piece
   <2> HIDE DEF r2, ck1, h1
   <2> QED BY <1>3, <1>4, <1>5, <1>7, <1>9, <2>1, ReadsSealed, HeadTail2, 0 + 1 = 1 DEF HeardA
<1>11. r4 = Reader(HeardA(p, EI(k), k), Mixed2(EI(k), k), 0, ER(k), SR, 1, st, p, One(c), SR)
   <2>1. DH(EI(k), SR) = DH(SR, EI(k)) BY DEF DH
   <2> HIDE DEF r3
   <2> QED BY <1>10, <2>1, ReadsDH, Secrets DEF Mixed2
<1>12. r4.ok BY <1>11, ReaderFields
<1>13. Opens(c, HandshakeKey(Mixed2(EI(k), k)), 0, HeardA(p, EI(k), k))
   <2> SUFFICES ASSUME ~Opens(c, HandshakeKey(Mixed2(EI(k), k)), 0, HeardA(p, EI(k),
         k)) PROVE FALSE OBVIOUS
   <2>1. ~DecryptAndHash(r4).ok
     <3>1. First(One(c)) = c BY HeadTail1
     <3>2. Mixed2(EI(k), k) # Nil BY MixedFirst
     <3> HIDE DEF r4
     <3> QED BY <1>11, OpensNot, <3>1, <3>2
   <2> HIDE DEF r4
   <2> QED BY <1>1, <1>12, <2>1 DEF read
<1>14. c = PieceB(p, EI(k), k) /\ c.plain = Payload
   <2>1. c = PieceB(p, EI(k), k) BY <1>13, <1>7, <1>8, PieceIs DEF PieceB
   <2> QED BY <2>1 DEF PieceB, Piece
<1>15. DecryptAndHash(r4) = Reader(Heard2(p, EI(k), k), Mixed2(EI(k), k), 1, ER(k), SR, 1, st,
      p, Nil, Payload)
   <2>1. Mixed2(EI(k), k) # Nil BY MixedFirst
   <2> HIDE DEF r4
   <2> QED BY <1>11, <1>13, <1>14, <2>1, OpensSealed, HeadTail1, 0 + 1 = 1 DEF Heard2
<1> HIDE DEF r4
<1> QED BY <1>1, <1>7, <1>8, <1>12, <1>15

LEMMA ReadThird ==
    ASSUME NEW p, NEW st, NEW c, NEW d,
           session \in Nat,
           c \in Spoilt(PieceC(p, session)), d \in Spoilt(PieceD(p, session)),
           ReadMessage(Responder, Shaking(Heard2(p, EI(session), session), Mixed2(EI(session),
                 session), 1, EI(session), NoKey, 2, st, p), Two(c, d)).ok
    PROVE ReadMessage(Responder, Shaking(Heard2(p, EI(session), session), Mixed2(EI(session),
          session), 1, EI(session), NoKey, 2, st, p), Two(c, d))
               = Reader(Heard3(p, session), Mixed3(session), 1, EI(session), SI, 2, st, p,
                     Nil, Payload)
<1> DEFINE k == session
           us == Responder
           h == Heard2(p, EI(k), k)
           ck == Mixed2(EI(k), k)
           m == Two(c, d)
           r0 == Reader(h, ck, 1, EI(k), NoKey, 2, st, p, m, NoKey)
           r1 == ReadToken(us, r0, "s")
           r2 == ReadToken(us, r1, "se")
           read == ReadMessage(us, Shaking(h, ck, 1, EI(k), NoKey, 2, st, p), m)
<1>1. read = IF r2.ok THEN DecryptAndHash(r2) ELSE r2 BY Reads
<1>4. ck # Nil /\ Mixed3(k) # Nil BY MixedFirst
<1>5. Opens(c, HandshakeKey(ck), 1, h)
   <2> SUFFICES ASSUME ~Opens(c, HandshakeKey(ck), 1, h) PROVE FALSE OBVIOUS
   <2>1. ~r1.ok
     <3>1. ~Opens(First(Two(c, d)), HandshakeKey(ck), 1, h) BY HeadTail2
     <3>2. ck # Nil BY <1>4
     <3> HIDE DEF ck, h
     <3> QED BY <3>1, <3>2, ReadsBroken
   <2>2. r2 = r1
     <3> HIDE DEF r1
     <3> QED BY <2>1, ReadsNot
   <2> HIDE DEF r2, r1
   <2> QED BY <2>1, <2>2, <1>1
<1>6. c = PieceC(p, k) /\ c.plain = SI
   <2>1. c = PieceC(p, k) BY <1>5, PieceIs DEF PieceC
   <2> QED BY <2>1 DEF PieceC, Piece
<1>10. r1 = Reader(HeardC(p, k), ck, 2, EI(k), SI, 2, st, p, One(d), SI)
   <2> HIDE DEF ck
   <2> QED BY <1>4, <1>5, <1>6, ReadsSealed, HeadTail2, 1 + 1 = 2 DEF HeardC
<1>11. r2 = Reader(HeardC(p, k), Mixed3(k), 0, EI(k), SI, 2, st, p, One(d), SI)
   <2>1. DH(ER(k), SI) = DH(SI, ER(k)) BY DEF DH
   <2> HIDE DEF r1
   <2> QED BY <1>10, <2>1, ReadsDH, Secrets DEF Mixed3
<1>12. r2.ok BY <1>11, ReaderFields
<1>13. Opens(d, HandshakeKey(Mixed3(k)), 0, HeardC(p, k))
   <2> SUFFICES ASSUME ~Opens(d, HandshakeKey(Mixed3(k)), 0, HeardC(p, k)) PROVE FALSE OBVIOUS
   <2>1. ~DecryptAndHash(r2).ok
     <3>1. First(One(d)) = d BY HeadTail1
     <3> HIDE DEF r2
     <3> QED BY <1>11, OpensNot, <1>4, <3>1
   <2> HIDE DEF r2
   <2> QED BY <1>1, <1>12, <2>1
<1>14. d = PieceD(p, k) /\ d.plain = Payload
   <2>1. d = PieceD(p, k) BY <1>13, PieceIs DEF PieceD
   <2> QED BY <2>1 DEF PieceD, Piece
<1>15. DecryptAndHash(r2) = Reader(Heard3(p, k), Mixed3(k), 1, EI(k), SI, 2, st, p, Nil,
      Payload)
   <2> HIDE DEF r2
   <2> QED BY <1>11, <1>13, <1>14, OpensSealed, <1>4, HeadTail1, 0 + 1 = 1 DEF Heard3
<1> HIDE DEF r2
<1> QED BY <1>1, <1>12, <1>15

-----------------------------------------------------------------------------
(* The fields of the ends in each stage, and an end that closes.              *)

LEMMA TheRoles == /\ Initiator # Responder /\ Roles = {Initiator, Responder}
                  /\ Other(Initiator) = Responder /\ Other(Responder) = Initiator
BY DEF Roles, Other, Initiator, Responder

LEMMA MadeFields ==
    ASSUME NEW h, NEW ck, NEW n, NEW re, NEW rs, NEW index, NEW status, NEW keys, NEW sent,
          NEW received, NEW datagrams, NEW p
    PROVE LET s == Made(h, ck, n, re, rs, index, status, keys, sent, received, datagrams, p)
          IN  /\ s.h = h /\ s.ck = ck /\ s.n = n /\ s.re = re /\ s.rs = rs /\ s.index = index
              /\ s.status = status /\ s.keys = keys /\ s.sent = sent /\ s.received = received
              /\ s.datagrams = datagrams /\ s.prologue = p
BY DEF Made

LEMMA ClosedMade ==
    ASSUME NEW h, NEW ck, NEW n, NEW re, NEW rs, NEW index, NEW status, NEW keys, NEW sent,
          NEW received, NEW datagrams, NEW p
    PROVE Closed(Made(h, ck, n, re, rs, index, status, keys, sent, received, datagrams, p))
            = Made(h, ck, n, re, rs, index, "closed", keys, sent, received, datagrams, p)
BY DEF Made, Closed

LEMMA NextMade ==
    ASSUME NEW h, NEW ck, NEW n, NEW re, NEW rs, NEW index, NEW status, NEW keys, NEW sent,
          NEW received, NEW datagrams, NEW p
    PROVE NextMessage(Made(h, ck, n, re, rs, index, status, keys, sent, received, datagrams, p))
            = Made(h, ck, n, re, rs, index + 1, status, keys, sent, received, datagrams, p)
BY DEF Made, NextMessage

LEMMA SentMade ==
    ASSUME NEW h, NEW ck, NEW n, NEW re, NEW rs, NEW index, NEW status, NEW keys, NEW sent,
          NEW received, NEW datagrams, NEW p
    PROVE [Made(h, ck, n, re, rs, index, status, keys, sent, received, datagrams,
          p) EXCEPT !.sent = @ + 1]
            = Made(h, ck, n, re, rs, index, status, keys, sent + 1, received, datagrams, p)
BY DEF Made

LEMMA ReceivedMade ==
    ASSUME NEW h, NEW ck, NEW n, NEW re, NEW rs, NEW index, NEW status, NEW keys, NEW sent,
          NEW received, NEW datagrams, NEW p
    PROVE [Made(h, ck, n, re, rs, index, status, keys, sent, received, datagrams,
          p) EXCEPT !.received = @ + 1]
            = Made(h, ck, n, re, rs, index, status, keys, sent, received + 1, datagrams, p)
BY DEF Made

LEMMA DatagramMade ==
    ASSUME NEW h, NEW ck, NEW n, NEW re, NEW rs, NEW index, NEW status, NEW keys, NEW sent,
          NEW received, NEW datagrams, NEW p
    PROVE [Made(h, ck, n, re, rs, index, status, keys, sent, received, datagrams,
          p) EXCEPT !.datagrams = @ + 1]
            = Made(h, ck, n, re, rs, index, status, keys, sent, received, datagrams + 1, p)
BY DEF Made

LEMMA NewFields == ASSUME NEW s, IsNew(s)
    PROVE s.index = 0 /\ s.keys = Nil /\ s.sent = 0 /\ s.received = 0 /\ s.datagrams = 0 /\ s.status \in {"shaking",
          "closed"}
BY MadeFields DEF IsNew, Shaking, Silent

LEMMA DialledFields == ASSUME NEW k, NEW s, HasDialled(k, s)
    PROVE s.index = 1 /\ s.keys = Nil /\ s.sent = 0 /\ s.received = 0 /\ s.datagrams = 0 /\ s.status \in {"shaking",
          "closed"}
BY MadeFields DEF HasDialled, Shaking, Silent

LEMMA AnsweredFields == ASSUME NEW k, NEW s, NEW e, HasAnswered(k, s, e)
    PROVE s.index = 2 /\ s.keys = Nil /\ s.sent = 0 /\ s.received = 0 /\ s.datagrams = 0 /\ s.re = e /\ s.status \in {"shaking",
          "closed"}
BY MadeFields DEF HasAnswered, Shaking, Silent

LEMMA OpenedFields == ASSUME NEW k, NEW x, NEW s, HasOpened(k, x, s)
    PROVE /\ s.index = 3 /\ s.keys = One(Split(x,
              Mixed3(k))) /\ s.keys # <<>> /\ s.keys[1] = Split(x, Mixed3(k))
          /\ s.h = Heard3(s.prologue, k) /\ s.rs = Static(Other(x))
          /\ s.status \in {"open",
                "closed"} /\ s.sent \in Nat /\ s.received \in Nat /\ s.datagrams \in Nat
<1>1. s.index = 3 /\ s.keys = One(Split(x, Mixed3(k))) /\ s.h = Heard3(s.prologue,
      k) /\ s.rs = Static(Other(x))
  BY MadeFields DEF HasOpened
<1>2. One(Split(x, Mixed3(k))) # <<>> /\ One(Split(x, Mixed3(k)))[1] = Split(x, Mixed3(k))
  BY DEF One
<1> QED BY <1>1, <1>2 DEF HasOpened

LEMMA ClosedNew == ASSUME NEW s, IsNew(s)
    PROVE IsNew(Closed(s)) /\ Closed(s).status = "closed" /\ Closed(s).prologue = s.prologue
<1>1. Closed(s) = Shaking(Heard0(s.prologue), Nil, 0, NoKey, NoKey, 0, "closed", s.prologue)
  BY ClosedMade DEF IsNew, Shaking
<1>2. Closed(s).status = "closed" /\ Closed(s).prologue = s.prologue
  <2> DEFINE c == Closed(s)
  <2> HIDE DEF c
  <2> QED BY <1>1, ShakingFields
<1> QED BY <1>1, <1>2 DEF IsNew, Silent

LEMMA ClosedDialled == ASSUME NEW k, NEW s, HasDialled(k, s)
    PROVE HasDialled(k,
          Closed(s)) /\ Closed(s).status = "closed" /\ Closed(s).prologue = s.prologue
<1>1. Closed(s) = Shaking(Heard1(s.prologue, EI(k)), Nil, 0, NoKey, NoKey, 1, "closed",
      s.prologue)
  BY ClosedMade DEF HasDialled, Shaking
<1>2. Closed(s).status = "closed" /\ Closed(s).prologue = s.prologue
  BY <1>1, ShakingFields
<1> QED BY <1>1, <1>2 DEF HasDialled, Silent

LEMMA ClosedAnswered == ASSUME NEW k, NEW s, NEW e, HasAnswered(k, s, e)
    PROVE HasAnswered(k, Closed(s),
          e) /\ Closed(s).status = "closed" /\ Closed(s).prologue = s.prologue
<1>1. Closed(s) = Shaking(Heard2(s.prologue, e, k), Mixed2(e, k), 1, e, NoKey, 2, "closed",
      s.prologue)
  BY ClosedMade DEF HasAnswered, Shaking
<1>2. Closed(s).status = "closed" /\ Closed(s).prologue = s.prologue
  BY <1>1, ShakingFields
<1> QED BY <1>1, <1>2 DEF HasAnswered, Silent

LEMMA ClosedOpened == ASSUME NEW k, NEW x, NEW s, HasOpened(k, x, s)
    PROVE /\ HasOpened(k, x,
              Closed(s)) /\ Closed(s).status = "closed" /\ Closed(s).prologue = s.prologue
          /\ Closed(s).sent = s.sent /\ Closed(s).received = s.received /\ Closed(s).datagrams = s.datagrams
<1>1. Closed(s) = Made(Heard3(s.prologue, k), Mixed3(k), 1, Ephemeral(Other(x), k),
      Static(Other(x)), 3, "closed",
                One(Split(x, Mixed3(k))), s.sent, s.received, s.datagrams, s.prologue)
  BY ClosedMade DEF HasOpened
<1>2. /\ Closed(s).status = "closed" /\ Closed(s).prologue = s.prologue
      /\ Closed(s).sent = s.sent /\ Closed(s).received = s.received /\ Closed(s).datagrams = s.datagrams
  BY <1>1, MadeFields
<1> QED BY <1>1, <1>2 DEF HasOpened

LEMMA ClosesInitiator ==
    ASSUME NEW k, NEW i, NEW r, NEW wi, NEW wr, Stage(k, i, r, wi, wr)
    PROVE /\ Stage(k, Closed(i), r, wi, wr)
          /\ wr # <<>> => Stage(k, Closed(i), r, wi, Tail(wr))
<1>1. CASE Unsaid(k, i, r, wi, wr)
  BY <1>1, ClosedNew DEF Unsaid, Stage, Nil
<1>2. CASE Dialled(k, i, r, wi, wr)
  BY <1>2, ClosedDialled DEF Dialled, Stage, Nil
<1>3. CASE Answered(k, i, r, wi, wr)
  BY <1>3, ClosedDialled DEF Answered, Stage
<1>4. CASE Half(k, i, r, wi, wr)
  <2>1. wr = Nil /\ HasOpened(k, Initiator, i) BY <1>4 DEF Half
  <2>2. Half(k, Closed(i), r, wi, wr) BY <1>4, <2>1, ClosedOpened DEF Half
  <2> QED BY <2>1, <2>2 DEF Stage, Nil
<1>5. CASE Settled(k, i, r, wi, wr)
  <2>1. HasOpened(k, Initiator, i) BY <1>5 DEF Settled
  <2>2. ASSUME NEW w PROVE Settled(k, Closed(i), r, wi, w) BY <1>5, <2>1,
        ClosedOpened DEF Settled
  <2> QED BY <2>2 DEF Stage
<1> QED BY <1>1, <1>2, <1>3, <1>4, <1>5 DEF Stage

LEMMA ClosesResponder ==
    ASSUME NEW k, NEW i, NEW r, NEW wi, NEW wr, Stage(k, i, r, wi, wr)
    PROVE /\ Stage(k, i, Closed(r), wi, wr)
          /\ wi # <<>> => Stage(k, i, Closed(r), Tail(wi), wr)
<1>1. CASE Unsaid(k, i, r, wi, wr)
  BY <1>1, ClosedNew DEF Unsaid, Stage, Nil
<1>2. CASE Dialled(k, i, r, wi, wr)
  BY <1>2, ClosedNew DEF Dialled, Stage, Nil
<1>3. CASE Answered(k, i, r, wi, wr)
  <2>1. PICK e \in {EI(k), Garbage} :
        /\ HasDialled(k, i) /\ HasAnswered(k, r, e) /\ wi = Nil
        /\ i.status = "closed" \/ \E m \in Answers(k, r.prologue, e) : wr = One(m)
    BY <1>3 DEF Answered
  <2>2. Answered(k, i, Closed(r), wi, wr) BY <2>1, ClosedAnswered DEF Answered
  <2> QED BY <2>1, <2>2 DEF Stage, Nil
<1>4. CASE Half(k, i, r, wi, wr)
  <2>1. HasAnswered(k, r, EI(k)) BY <1>4 DEF Half
  <2>2. ASSUME NEW w PROVE Half(k, i, Closed(r), w, wr) BY <1>4, <2>1, ClosedAnswered DEF Half
  <2> QED BY <2>2 DEF Stage
<1>5. CASE Settled(k, i, r, wi, wr)
  <2>1. HasOpened(k, Responder, r) BY <1>5 DEF Settled
  <2>2. ASSUME NEW w PROVE Settled(k, i, Closed(r), w, wr) BY <1>5, <2>1,
        ClosedOpened DEF Settled
  <2> QED BY <2>2 DEF Stage
<1> QED BY <1>1, <1>2, <1>3, <1>4, <1>5 DEF Stage

ClosedSame(s,
      c) == c.index = s.index /\ c.keys = s.keys /\ c.sent = s.sent /\ c.datagrams = s.datagrams
                    /\ c.prologue = s.prologue /\ c.re = s.re

IsEnd(s) == s = Made(s.h, s.ck, s.n, s.re, s.rs, s.index, s.status, s.keys, s.sent,
      s.received, s.datagrams, s.prologue)

LEMMA StageEnds ==
    ASSUME NEW k, NEW i, NEW r, NEW wi, NEW wr, Stage(k, i, r, wi, wr)
    PROVE IsEnd(i) /\ IsEnd(r)
<1>1. ASSUME NEW s, IsNew(s) PROVE IsEnd(s)
  BY <1>1, MadeFields DEF IsNew, Shaking, IsEnd
<1>2. ASSUME NEW s, HasDialled(k, s) PROVE IsEnd(s)
  BY <1>2, MadeFields DEF HasDialled, Shaking, IsEnd
<1>3. ASSUME NEW s, NEW e, HasAnswered(k, s, e) PROVE IsEnd(s)
  BY <1>3, MadeFields DEF HasAnswered, Shaking, IsEnd
<1>4. ASSUME NEW s, NEW x, HasOpened(k, x, s) PROVE IsEnd(s)
  BY <1>4, MadeFields DEF HasOpened, IsEnd
<1> QED BY <1>1, <1>2, <1>3, <1>4 DEF Stage, Unsaid, Dialled, Answered, Half, Settled

LEMMA ClosedIsSame == ASSUME NEW s, IsEnd(s) PROVE ClosedSame(s, Closed(s))
<1>1. Closed(s) = Made(s.h, s.ck, s.n, s.re, s.rs, s.index, "closed", s.keys, s.sent,
      s.received, s.datagrams, s.prologue)
  BY ClosedMade DEF IsEnd
<1> QED BY <1>1, MadeFields DEF ClosedSame

LEMMA AccountedSame ==
    ASSUME NEW k, NEW i, NEW r, NEW i2, NEW r2, NEW S, Accounted(k, i, r, S),
           ClosedSame(i, i2), ClosedSame(r, r2)
    PROVE Accounted(k, i2, r2, S)
BY DEF Accounted, ClosedSame, SaidInShaking, SentBy

LEMMA SameSame == ASSUME NEW s PROVE ClosedSame(s, s)
BY DEF ClosedSame

LEMMA MixedIsOf ==
    ASSUME NEW k \in Nat, NEW j \in Nat, NEW e \in {EI(k), Garbage}, NEW ck \in {Mixed1(e, k),
          Mixed2(e, k), Mixed3(k)}
    PROVE (ER(j) \in ck[1] <=> j = k) /\ ck # Nil
<1>1. ck[1] = DH(ER(k), e) \/ ck[1] = DH(ER(k), EI(k))
   BY MixedFirst
<1>2. ck # Nil BY MixedFirst
<1> QED BY <1>1, <1>2 DEF DH, ER, EI, Ephemeral, Garbage, Initiator, Responder

LEMMA UniqueAdds ==
    ASSUME NEW S, NEW f, Unique(S), \A a \in S : ~(a.key = f.key /\ a.n = f.n)
    PROVE Unique(S \cup {f})
BY DEF Unique

-----------------------------------------------------------------------------
(* The steps that leave the handshake alone: the start, an end that closes, a  *)
(* new session.                                                              *)

LEMMA SecureStarts == SecureInit => SecureIInv
<1> SUFFICES ASSUME SecureInit PROVE SecureIInv OBVIOUS
<1>1. PICK a, b \in Prologues : end = [x \in Roles |-> NewEnd(IF x = Initiator THEN a ELSE b)]
  BY DEF SecureInit
<1>2. ASSUME NEW p PROVE IsNew(NewEnd(p))
  <2>1. NewEnd(p) = Shaking(Heard0(p), Nil, 0, NoKey, NoKey, 0, "shaking", p)
    BY DEF NewEnd, Shaking, Made, Heard0, One, Prologue, NoSecrets, Nil
  <2>2. NewEnd(p).status = "shaking" /\ NewEnd(p).prologue = p BY <2>1, ShakingFields
  <2> QED BY <2>1, <2>2 DEF IsNew, Silent
<1>3. IsNew(end[Initiator]) /\ IsNew(end[Responder]) /\ wire[Initiator] = Nil /\ wire[Responder] = Nil
  BY <1>1, <1>2, TheRoles DEF SecureInit, Nil
<1>4. Stage(session, end[Initiator], end[Responder], wire[Initiator], wire[Responder])
  BY <1>3 DEF Stage, Unsaid
<1> QED BY <1>1, <1>4 DEF SecureIInv, SecureInit, Accounted, Unique

LEMMA StepClose == ASSUME SecureIInv, NEW x \in Roles, Close(x) PROVE SecureIInv'
<1> DEFINE k == session
           i == end[Initiator]
           r == end[Responder]
<1>1. Stage(k, i, r, wire[Initiator], wire[Responder]) /\ Accounted(k, i, r,
      sealed) BY DEF SecureIInv
<1>2. IsEnd(i) /\ IsEnd(r) BY <1>1, StageEnds
<1>3. CASE x = Initiator
  <2>1. end' = [end EXCEPT ![Initiator] = Closed(i)] /\ UNCHANGED <<wire, session, damage,
        sealed>> BY <1>3 DEF Close
  <2>2. end'[Initiator] = Closed(i) /\ end'[Responder] = r /\ end' = [y \in Roles |-> end'[y]]
    BY <2>1, TheRoles DEF SecureIInv
  <2>3. Stage(k, Closed(i), r, wire[Initiator], wire[Responder]) BY <1>1, ClosesInitiator
  <2>4. Accounted(k, Closed(i), r, sealed) BY <1>1, <1>2, ClosedIsSame, AccountedSame, SameSame
  <2> QED BY <2>1, <2>2, <2>3, <2>4 DEF SecureIInv
<1>4. CASE x = Responder
  <2>1. end' = [end EXCEPT ![Responder] = Closed(r)] /\ UNCHANGED <<wire, session, damage,
        sealed>> BY <1>4 DEF Close
  <2>2. end'[Responder] = Closed(r) /\ end'[Initiator] = i /\ end' = [y \in Roles |-> end'[y]]
    BY <2>1, TheRoles DEF SecureIInv
  <2>3. Stage(k, i, Closed(r), wire[Initiator], wire[Responder]) BY <1>1, ClosesResponder
  <2>4. Accounted(k, i, Closed(r), sealed) BY <1>1, <1>2, ClosedIsSame, AccountedSame, SameSame
  <2> QED BY <2>1, <2>2, <2>3, <2>4 DEF SecureIInv
<1> QED BY <1>3, <1>4, TheRoles

LEMMA StepReconnect == ASSUME SecureIInv, Reconnect PROVE SecureIInv'
<1> DEFINE k == session
<1>1. session' = k + 1 /\ end' = [x \in Roles |-> NewEnd(end[x].prologue)] /\ wire' = [x \in Roles |-> <<>>] /\ sealed' = sealed /\ k \in Nat
  BY DEF Reconnect, SecureIInv
<1>2. ASSUME NEW p PROVE IsNew(NewEnd(p))
  <2>1. NewEnd(p) = Shaking(Heard0(p), Nil, 0, NoKey, NoKey, 0, "shaking", p)
    BY DEF NewEnd, Shaking, Made, Heard0, One, Prologue, NoSecrets, Nil
  <2>2. NewEnd(p).status = "shaking" /\ NewEnd(p).prologue = p BY <2>1, ShakingFields
  <2> QED BY <2>1, <2>2 DEF IsNew, Silent
<1>3. /\ IsNew(end'[Initiator]) /\ IsNew(end'[Responder]) /\ wire'[Initiator] = Nil /\ wire'[Responder] = Nil
      /\ end' = [x \in Roles |-> end'[x]] /\ wire' = [x \in Roles |-> wire'[x]]
  BY <1>1, <1>2, TheRoles DEF Nil
<1>4. Stage(k + 1, end'[Initiator], end'[Responder], wire'[Initiator], wire'[Responder])
  BY <1>3 DEF Stage, Unsaid
<1>5. Accounted(k + 1, end'[Initiator], end'[Responder], sealed)
  <2>1. \A a \in sealed, j \in Nat : IsOf(j, a) => j <= k BY DEF SecureIInv, Accounted
  <2> QED BY <2>1, <1>1 DEF Accounted
<1> QED BY <1>1, <1>3, <1>4, <1>5 DEF SecureIInv

-----------------------------------------------------------------------------
(* The handshake: the initiator dials, the responder answers, the initiator   *)
(* agrees, the responder settles (OpenHandshake, ReadHandshake).             *)

LEMMA NextShaking ==
    ASSUME NEW h, NEW ck, NEW n, NEW re, NEW rs, NEW index, NEW st, NEW p
    PROVE NextMessage(Shaking(h, ck, n, re, rs, index, st, p)) = Shaking(h, ck, n, re, rs,
          index + 1, st, p)
BY NextMade DEF Shaking

LEMMA StepOpenHandshake == ASSUME SecureIInv, NEW x \in Roles,
      OpenHandshake(x) PROVE SecureIInv'
<1> DEFINE k == session
           i == end[Initiator]
           r == end[Responder]
           p == i.prologue
           written == WriteMessage(Initiator, i)
           m == Two(Clear(EI(k)), Clear(Payload))
<1>1. /\ i.status = "shaking" /\ i.index = 0
      /\ end' = [end EXCEPT ![Initiator] = NextMessage(written.end)]
      /\ wire' = [wire EXCEPT ![Initiator] = Append(wire[Initiator], written.out)]
      /\ session' = session /\ sealed' = sealed
  BY DEF OpenHandshake
<1>2. Unsaid(k, i, r, wire[Initiator], wire[Responder])
  BY <1>1, DialledFields, OpenedFields DEF SecureIInv, Stage, Dialled, Answered, Half, Settled
<1>3. i = Shaking(Heard0(p), Nil, 0, NoKey, NoKey, 0, "shaking", p)
  BY <1>1, <1>2 DEF Unsaid, IsNew
<1>4. written = Writer(Heard1(p, EI(k)), Nil, 0, NoKey, NoKey, 0, "shaking", p, m)
  <2> HIDE DEF p, i
  <2> QED BY <1>3, WriteFirst
<1>5. NextMessage(written.end) = Shaking(Heard1(p, EI(k)), Nil, 0, NoKey, NoKey, 1, "shaking",
      p) /\ written.out = m
  <2> HIDE DEF p, i, written, m
  <2> QED BY <1>4, WriterFields, NextShaking, 0 + 1 = 1
<1>6. /\ end'[Initiator] = Shaking(Heard1(p, EI(k)), Nil, 0, NoKey, NoKey, 1, "shaking",
          p) /\ end'[Responder] = r
      /\ end' = [y \in Roles |-> end'[y]]
  <2> HIDE DEF p, written
  <2> QED BY <1>1, <1>5, TheRoles DEF SecureIInv
<1>7. wire'[Initiator] = One(m) /\ wire'[Responder] = Nil /\ wire' = [y \in Roles |-> wire'[y]]
  <2>1. Append(wire[Initiator], m) = One(m)
    <3> HIDE DEF m
    <3> QED BY <1>2, AddToNil DEF Unsaid, Add
  <2>2. wire' = [wire EXCEPT ![Initiator] = Append(wire[Initiator], m)]
    <3> HIDE DEF m, written
    <3> QED BY <1>1, <1>5
  <2> HIDE DEF m
  <2> QED BY <1>2, <2>1, <2>2, TheRoles DEF SecureIInv, Unsaid
<1>8. HasDialled(k, end'[Initiator])
  BY <1>6, ShakingFields DEF HasDialled, Silent
<1>9. Dialled(k, end'[Initiator], end'[Responder], wire'[Initiator], wire'[Responder])
  BY <1>2, <1>6, <1>7, <1>8 DEF Dialled, Greetings, Unsaid
<1>10. Accounted(k, end'[Initiator], end'[Responder], sealed)
  <2>1. Accounted(k, i, r, sealed) /\ IsNew(r) /\ IsNew(i) BY <1>2 DEF SecureIInv, Unsaid
  <2>2. \A a \in sealed : ~IsOf(k, a) BY <2>1, NewFields DEF Accounted, SaidInShaking, SentBy,
        Nil
  <2> QED BY <2>1, <2>2 DEF Accounted
<1> QED BY <1>1, <1>6, <1>7, <1>9, <1>10 DEF SecureIInv, Stage

LEMMA SealedThree == ASSUME NEW a, NEW b, NEW c, IsClear(a), ~IsClear(b), ~IsClear(c)
    PROVE Sealed(Three(a, b, c)) = {b, c}
<1>1. Range(Three(a, b, c)) = {a, b, c}
  BY DEF Range, Three
<1> QED BY <1>1 DEF Sealed

LEMMA SealedTwo == ASSUME NEW a, NEW b, ~IsClear(a), ~IsClear(b)
    PROVE Sealed(Two(a, b)) = {a, b}
<1>1. Range(Two(a, b)) = {a, b}
  BY DEF Range, Two
<1> QED BY <1>1 DEF Sealed

LEMMA PieceFields == ASSUME NEW key, NEW n, NEW ad, NEW plain
    PROVE LET a == Piece(key, n, ad, plain)
          IN a.key = key /\ a.n = n /\ a.ad = ad /\ a.plain = plain
BY DEF Piece

LEMMA HandshakeKeys == ASSUME NEW ck
    PROVE HandshakeKey(ck).ck = ck /\ HandshakeKey(ck).use = "handshake"
BY DEF HandshakeKey, Key

LEMMA PieceKeys == ASSUME NEW p, NEW e, NEW k
    PROVE /\ PieceA(p, e, k).key = HandshakeKey(Mixed1(e, k)) /\ PieceA(p, e, k).n = 0
          /\ PieceB(p, e, k).key = HandshakeKey(Mixed2(e, k)) /\ PieceB(p, e, k).n = 0
          /\ PieceC(p, k).key = HandshakeKey(Mixed2(EI(k), k)) /\ PieceC(p, k).n = 1
          /\ PieceD(p, k).key = HandshakeKey(Mixed3(k)) /\ PieceD(p, k).n = 0
          /\ ~IsClear(PieceA(p, e, k)) /\ ~IsClear(PieceB(p, e, k)) /\ ~IsClear(PieceC(p,
                k)) /\ ~IsClear(PieceD(p, k))
          /\ PieceA(p, e, k).key # PieceB(p, e, k).key
<1>1. /\ PieceA(p, e, k).key = HandshakeKey(Mixed1(e, k)) /\ PieceA(p, e, k).n = 0
      /\ PieceB(p, e, k).key = HandshakeKey(Mixed2(e, k)) /\ PieceB(p, e, k).n = 0
  BY DEF PieceA, PieceB, Piece
<1>2. /\ PieceC(p, k).key = HandshakeKey(Mixed2(EI(k), k)) /\ PieceC(p, k).n = 1
      /\ PieceD(p, k).key = HandshakeKey(Mixed3(k)) /\ PieceD(p, k).n = 0
  BY DEF PieceC, PieceD, Piece
<1>3. Mixed1(e, k) # <<>> /\ Mixed2(e, k) # <<>> /\ Mixed2(EI(k),
      k) # <<>> /\ Mixed3(k) # <<>> /\ Mixed1(e, k) # Mixed2(e, k)
  <2>1. Mixed1(e, k) # Nil /\ Mixed2(e, k) # Nil /\ Mixed3(k) # Nil BY MixedFirst
  <2>2. Mixed2(EI(k), k) # Nil BY MixedFirst
  <2>3. Len(Mixed1(e, k)) = 1 /\ Len(Mixed2(e, k)) = 2 BY MixedFirst
  <2> QED BY <2>1, <2>2, <2>3 DEF Nil
<1>4. HandshakeKey(Mixed1(e, k)) # HandshakeKey(Mixed2(e, k))
  BY <1>3, KeyIs
<1> QED BY <1>1, <1>2, <1>3, <1>4, HandshakeKeys DEF IsClear, NoSecrets

LEMMA WeWrites == \A n \in {0, 1, 2} : (WeWrite(Initiator,
      n) <=> n # 1) /\ (WeWrite(Responder, n) <=> n = 1)
<1>1. 0 % 2 = 0 /\ 1 % 2 = 1 /\ 2 % 2 = 0 OBVIOUS
<1> QED BY <1>1, TheRoles DEF WeWrite

(* r reads the first message and answers. *)

LEMMA StepAnswer ==
    ASSUME SecureIInv, ReadHandshake(Responder),
           Dialled(session, end[Initiator], end[Responder], wire[Initiator], wire[Responder])
    PROVE SecureIInv'
<1> DEFINE k == session
           i == end[Initiator]
           r == end[Responder]
           q == r.prologue
           wi == wire[Initiator]
           wr == wire[Responder]
           read == ReadMessage(Responder, r, Head(wi))
           next == NextMessage(read.end)
           written == WriteMessage(Responder, next)
<1>1. r.status = "shaking" /\ HasDialled(k, i) /\ IsNew(r) /\ wr = Nil
  BY DEF Dialled, ReadHandshake
<1>2. PICK e \in {EI(k), Garbage} : wi = One(Two(Clear(e), Clear(Payload)))
  BY <1>1 DEF Dialled, Greetings
<1>3. r = Shaking(Heard0(q), Nil, 0, NoKey, NoKey, 0, "shaking", q)
  BY <1>1 DEF IsNew
<1>4. Head(wi) = Two(Clear(e), Clear(Payload)) /\ Tail(wi) = Nil
  BY <1>2, HeadTail1 DEF First, Rest
<1>5. read = Reader(Heard1(q, e), Nil, 0, e, NoKey, 0, "shaking", q, Nil, Payload)
  <2> HIDE DEF q, r
  <2> QED BY <1>3, <1>4, ReadFirst
<1>6. read.ok /\ next = Shaking(Heard1(q, e), Nil, 0, e, NoKey, 1, "shaking", q)
  <2> HIDE DEF q, r, read
  <2> QED BY <1>5, ReaderFields, NextShaking, 0 + 1 = 1
<1>7. written = Writer(Heard2(q, e, k), Mixed2(e, k), 1, e, NoKey, 1, "shaking", q,
      Three(Clear(ER(k)), PieceA(q, e, k), PieceB(q, e, k)))
  <2> HIDE DEF q, next
  <2> QED BY <1>6, WriteSecond
<1> DEFINE r2 == Shaking(Heard2(q, e, k), Mixed2(e, k), 1, e, NoKey, 2, "shaking", q)
           m2 == Three(Clear(ER(k)), PieceA(q, e, k), PieceB(q, e, k))
<1>8. NextMessage(written.end) = r2 /\ written.out = m2
  <2> HIDE DEF q, written
  <2> QED BY <1>7, WriterFields, NextShaking, 1 + 1 = 2
<1>9. Established(Responder, r2) = r2
  <2>1. r2.index = 2 BY ShakingFields
  <2> HIDE DEF r2
  <2> QED BY <2>1 DEF Established
<1>10. next.index # 3
  <2> HIDE DEF q, next
  <2> QED BY <1>6, ShakingFields
<1>11. /\ end' = [end EXCEPT ![Responder] = r2]
       /\ wire' = [wire EXCEPT ![Initiator] = Tail(wi), ![Responder] = Append(wr, m2)]
       /\ sealed' = sealed \cup Sealed(m2)
       /\ session' = session
  <2> HIDE DEF r2, m2
  <2>1. read.ok /\ next.index # 3 BY <1>6, <1>10
  <2>2. /\ end' = [end EXCEPT ![Responder] = Established(Responder, NextMessage(written.end))]
        /\ wire' = [wire EXCEPT ![Initiator] = Tail(wi), ![Responder] = Append(wr, written.out)]
        /\ sealed' = sealed \cup Sealed(written.out)
        /\ session' = session
    BY <2>1, TheRoles DEF ReadHandshake
  <2> HIDE DEF written
  <2> QED BY <2>2, <1>8, <1>9
<1>12. Append(wr, m2) = One(m2)
  <2> HIDE DEF m2
  <2> QED BY <1>1, AddToNil DEF Add
<1>13. /\ end'[Initiator] = i /\ end'[Responder] = r2 /\ end' = [y \in Roles |-> end'[y]]
       /\ wire'[Initiator] = Nil /\ wire'[Responder] = One(m2) /\ wire' = [y \in Roles |-> wire'[y]]
  <2> HIDE DEF r2, m2
  <2> QED BY <1>4, <1>11, <1>12, TheRoles DEF SecureIInv
<1>14. HasAnswered(k, r2, e) /\ r2.prologue = q
  BY ShakingFields DEF HasAnswered, Silent
<1>15. Stage(k, i, r2, Nil, One(m2))
  <2>1. m2 \in Answers(k, q, e) BY DEF Answers, Spoilt
  <2> HIDE DEF r2, m2, q
  <2> QED BY <1>1, <1>14, <2>1 DEF Stage, Answered
<1> DEFINE A == PieceA(q, e, k)
           B == PieceB(q, e, k)
<1>16. Sealed(m2) = {A, B}
  <2>1. IsClear(Clear(ER(k))) BY DEF IsClear, Clear, Piece, HandshakeKey, Key
  <2> QED BY <2>1, PieceKeys, SealedThree
<1>17. Accounted(k, i, r, sealed) /\ Unique(sealed) /\ k \in Nat BY DEF SecureIInv
<1>18. \A a \in sealed : ~IsOf(k, a)
  BY <1>1, <1>17, NewFields, DialledFields DEF Accounted, SaidInShaking, SentBy, Nil
<1>19. \A j \in Nat : (IsOf(j, A) <=> j = k) /\ (IsOf(j, B) <=> j = k)
  <2> TAKE j \in Nat
  <2>1. A.key.ck = Mixed1(e, k) /\ B.key.ck = Mixed2(e, k)
    <3>1. A.key = HandshakeKey(Mixed1(e, k)) /\ B.key = HandshakeKey(Mixed2(e, k)) BY PieceKeys
    <3> HIDE DEF A, B
    <3> QED BY <3>1, HandshakeKeys
  <2> HIDE DEF A, B
  <2> QED BY <2>1, <1>17, MixedIsOf DEF IsOf
<1>20. Unique(sealed \cup {A, B})
  <2>1. \A a \in sealed : a.key # A.key /\ a.key # B.key
    <3> HIDE DEF A, B
    <3> QED BY <1>18, <1>19, <1>17 DEF IsOf
  <2>2. A.key # B.key BY PieceKeys
  <2> HIDE DEF A, B
  <2>3. Unique(sealed \cup {A}) BY <2>1, <1>17, UniqueAdds
  <2>4. Unique((sealed \cup {A}) \cup {B}) BY <2>1, <2>2, <2>3, UniqueAdds
  <2>5. (sealed \cup {A}) \cup {B} = sealed \cup {A, B} OBVIOUS
  <2> QED BY <2>4, <2>5
<1>21. Accounted(k, i, r2, sealed \cup {A, B})
  <2>1. A.key.use = "handshake" /\ B.key.use = "handshake"
    <3>1. A.key = HandshakeKey(Mixed1(e, k)) /\ B.key = HandshakeKey(Mixed2(e, k)) BY PieceKeys
    <3> HIDE DEF A, B
    <3> QED BY <3>1, HandshakeKeys
  <2>2. r2.index = 2 /\ r2.re = e BY <1>14, AnsweredFields
  <2>3. SaidInShaking(k, i, r2, A) /\ SaidInShaking(k, i, r2, B)
    <3> HIDE DEF r2, q
    <3> QED BY <2>1, <2>2, <1>14 DEF SaidInShaking
  <2> HIDE DEF A, B, r2
  <2> QED BY <1>17, <1>18, <1>19, <2>3 DEF Accounted
<1> HIDE DEF r2, m2, A, B
<1> QED BY <1>11, <1>13, <1>15, <1>16, <1>17, <1>20, <1>21 DEF SecureIInv

LEMMA StageFails ==
    ASSUME SecureIInv, NEW x \in Roles, wire[Other(x)] # <<>>,
           end' = [end EXCEPT ![x] = Closed(end[x])],
           wire' = [wire EXCEPT ![Other(x)] = Tail(wire[Other(x)])],
           UNCHANGED <<session, sealed>>
    PROVE SecureIInv'
<1> DEFINE k == session
           i == end[Initiator]
           r == end[Responder]
           wi == wire[Initiator]
           wr == wire[Responder]
<1>1. Stage(k, i, r, wi, wr) /\ Accounted(k, i, r, sealed) BY DEF SecureIInv
<1>2. IsEnd(i) /\ IsEnd(r) BY <1>1, StageEnds
<1>3. CASE x = Initiator
  <2>1. /\ end'[Initiator] = Closed(i) /\ end'[Responder] = r /\ end' = [y \in Roles |-> end'[y]]
        /\ wire'[Initiator] = wi /\ wire'[Responder] = Tail(wr) /\ wire' = [y \in Roles |-> wire'[y]]
    BY <1>3, TheRoles DEF SecureIInv
  <2>2. wr # <<>> BY <1>3, TheRoles
  <2>3. Stage(k, Closed(i), r, wi, Tail(wr)) BY <1>1, <2>2, ClosesInitiator
  <2>4. Accounted(k, Closed(i), r, sealed) BY <1>1, <1>2, ClosedIsSame, AccountedSame, SameSame
  <2> QED BY <2>1, <2>3, <2>4 DEF SecureIInv
<1>4. CASE x = Responder
  <2>1. /\ end'[Responder] = Closed(r) /\ end'[Initiator] = i /\ end' = [y \in Roles |-> end'[y]]
        /\ wire'[Responder] = wr /\ wire'[Initiator] = Tail(wi) /\ wire' = [y \in Roles |-> wire'[y]]
    BY <1>4, TheRoles DEF SecureIInv
  <2>2. wi # <<>> BY <1>4, TheRoles
  <2>3. Stage(k, i, Closed(r), Tail(wi), wr) BY <1>1, <2>2, ClosesResponder
  <2>4. Accounted(k, i, Closed(r), sealed) BY <1>1, <1>2, ClosedIsSame, AccountedSame, SameSame
  <2> QED BY <2>1, <2>3, <2>4 DEF SecureIInv
<1> QED BY <1>3, <1>4, TheRoles

LEMMA EstablishedShaking ==
    ASSUME NEW x, NEW h, NEW ck, NEW n, NEW re, NEW rs, NEW st, NEW p
    PROVE Established(x, Shaking(h, ck, n, re, rs, 3, st, p)) =
            Made(h, ck, n, re, rs, 3, "open", One(Split(x, ck)), 0, 0, 0, p)
<1> DEFINE s == Shaking(h, ck, n, re, rs, 3, st, p)
<1>1. s.index = 3 /\ s.ck = ck BY ShakingFields
<1>2. Established(x, s) = [s EXCEPT !.status = "open", !.keys = One(Split(x, ck))]
  <2> HIDE DEF s
  <2> QED BY <1>1 DEF Established, One
<1> QED BY <1>2 DEF Shaking, Made

(* i reads the answer and sends the last message. *)

LEMMA StepAgree ==
    ASSUME SecureIInv, ReadHandshake(Initiator),
           Answered(session, end[Initiator], end[Responder], wire[Initiator], wire[Responder])
    PROVE SecureIInv'
<1> DEFINE k == session
           i == end[Initiator]
           r == end[Responder]
           p == i.prologue
           wi == wire[Initiator]
           wr == wire[Responder]
           read == ReadMessage(Initiator, i, Head(wr))
           next == NextMessage(read.end)
           written == WriteMessage(Initiator, next)
<1>0. k \in Nat /\ Accounted(k, i, r, sealed) /\ Unique(sealed) BY DEF SecureIInv
<1>1. PICK e \in {EI(k), Garbage} :
        /\ HasDialled(k, i) /\ HasAnswered(k, r, e) /\ wi = Nil
        /\ \E m \in Answers(k, r.prologue, e) : wr = One(m)
  BY DEF Answered, ReadHandshake
<1>2. PICK y \in {ER(k), Garbage}, b \in Spoilt(PieceA(r.prologue, e, k)),
      c \in Spoilt(PieceB(r.prologue, e, k)) :
         wr = One(Three(Clear(y), b, c))
  BY <1>1 DEF Answers
<1>3. i = Shaking(Heard1(p, EI(k)), Nil, 0, NoKey, NoKey, 1, "shaking", p)
  BY <1>1 DEF HasDialled, ReadHandshake
<1>4. Head(wr) = Three(Clear(y), b, c) /\ Tail(wr) = Nil
  BY <1>2, HeadTail1 DEF First, Rest
<1>5. CASE ~read.ok
  <2>1. end' = [end EXCEPT ![Initiator] = Closed(end[Initiator])] /\ wire' = [wire EXCEPT ![Responder] = Tail(wr)]
        /\ UNCHANGED <<session, sealed>> /\ wr # <<>>
    BY <1>5, TheRoles DEF ReadHandshake
  <2> QED BY <2>1, StageFails, TheRoles
<1>6. CASE read.ok
  <2>1. p = r.prologue /\ e = EI(k) /\ read = Reader(Heard2(p, EI(k), k), Mixed2(EI(k), k), 1,
        ER(k), SR, 1, "shaking", p, Nil, Payload)
    <3>1. ReadMessage(Initiator, Shaking(Heard1(p, EI(k)), Nil, 0, NoKey, NoKey, 1, "shaking",
          p), Three(Clear(y), b, c)).ok
      <4> HIDE DEF p, i
      <4> QED BY <1>3, <1>4, <1>6
    <3>2. read = ReadMessage(Initiator, Shaking(Heard1(p, EI(k)), Nil, 0, NoKey, NoKey, 1,
          "shaking", p), Three(Clear(y), b, c))
      <4> HIDE DEF p, i
      <4> QED BY <1>3, <1>4
    <3> DEFINE q == r.prologue
    <3>3. b \in Spoilt(PieceA(q, e, k)) /\ c \in Spoilt(PieceB(q, e, k)) /\ e \in {EI(k),
          Garbage} /\ y \in {ER(k), Garbage} BY <1>1, <1>2
    <3> HIDE DEF p, read, q
    <3>4. p = q /\ e = EI(k) /\ read = Reader(Heard2(p, EI(k), k), Mixed2(EI(k), k), 1, ER(k),
          SR, 1, "shaking", p, Nil, Payload)
      BY <1>0, <3>1, <3>2, <3>3, ReadSecond
    <3> QED BY <3>4 DEF q
  <2>2. next = Shaking(Heard2(p, EI(k), k), Mixed2(EI(k), k), 1, ER(k), SR, 2, "shaking", p)
    <3> HIDE DEF p, i, read
    <3> QED BY <2>1, ReaderFields, NextShaking, 1 + 1 = 2
  <2> DEFINE m3 == Two(PieceC(p, k), PieceD(p, k))
             i2 == Made(Heard3(p, k), Mixed3(k), 1, ER(k), SR, 3, "open", One(Split(Initiator,
                   Mixed3(k))), 0, 0, 0, p)
  <2>3. written = Writer(Heard3(p, k), Mixed3(k), 1, ER(k), SR, 2, "shaking", p, m3)
    <3> HIDE DEF p, next
    <3> QED BY <2>2, WriteThird
  <2>4. Established(Initiator, NextMessage(written.end)) = i2 /\ written.out = m3
    <3>1. NextMessage(written.end) = Shaking(Heard3(p, k), Mixed3(k), 1, ER(k), SR, 3,
          "shaking", p) /\ written.out = m3
      <4> HIDE DEF p, written, m3
      <4> QED BY <2>3, WriterFields, NextShaking, 2 + 1 = 3
    <3> HIDE DEF p, written, m3
    <3> QED BY <3>1, EstablishedShaking
  <2>5. next.index # 3
    <3> HIDE DEF p, next
    <3> QED BY <2>2, ShakingFields
  <2>6. /\ end' = [end EXCEPT ![Initiator] = i2]
        /\ wire' = [wire EXCEPT ![Responder] = Tail(wr), ![Initiator] = Append(wi, m3)]
        /\ sealed' = sealed \cup Sealed(m3)
        /\ session' = session
    <3> HIDE DEF i2, m3
    <3>1. read.ok /\ next.index # 3 BY <1>6, <2>5
    <3>2. /\ end' = [end EXCEPT ![Initiator] = Established(Initiator, NextMessage(written.end))]
          /\ wire' = [wire EXCEPT ![Responder] = Tail(wr), ![Initiator] = Append(wi,
                written.out)]
          /\ sealed' = sealed \cup Sealed(written.out)
          /\ session' = session
      BY <3>1, TheRoles DEF ReadHandshake
    <3> HIDE DEF written
    <3> QED BY <3>2, <2>4
  <2>7. Append(wi, m3) = One(m3)
    <3> HIDE DEF m3
    <3> QED BY <1>1, AddToNil DEF Add
  <2>8. /\ end'[Responder] = r /\ end'[Initiator] = i2 /\ end' = [z \in Roles |-> end'[z]]
        /\ wire'[Responder] = Nil /\ wire'[Initiator] = One(m3) /\ wire' = [z \in Roles |-> wire'[z]]
    <3> HIDE DEF i2, m3
    <3> QED BY <1>4, <2>6, <2>7, TheRoles DEF SecureIInv
  <2>9. HasOpened(k, Initiator, i2) /\ i2.prologue = p /\ i2.received = 0 /\ i2.sent = 0
    BY MadeFields, TheRoles DEF HasOpened, ER, SR
  <2>10. Stage(k, i2, r, One(m3), Nil)
    <3>1. m3 \in Finals(k, p) BY DEF Finals, Spoilt
    <3> HIDE DEF i2, m3, p
    <3>2. /\ One(m3) \in Seq(Finals(k, p) \cup Frames(k, Initiator, i2.sent))
          /\ One(m3) # <<>> /\ One(m3)[1] \in Finals(k, p) /\ Len(One(m3)) = 1
      BY <3>1 DEF One
    <3>3. \A j \in 2..Len(One(m3)) : One(m3)[j] \in Frames(k, Initiator, i2.sent)
      <4>1. 2..Len(One(m3)) = {} BY <3>2
      <4> QED BY <4>1
    <3>4. Half(k, i2, r, One(m3), Nil)
      <4>1. HasAnswered(k, r, EI(k)) BY <1>1, <2>1
      <4>2. i2.prologue = r.prologue /\ p = r.prologue BY <2>1, <2>9
      <4> DEFINE w == One(m3)
      <4>3. /\ w \in Seq(Finals(k, r.prologue) \cup Frames(k, Initiator, i2.sent))
            /\ w # <<>> /\ w[1] \in Finals(k, r.prologue)
            /\ \A j \in 2..Len(w) : w[j] \in Frames(k, Initiator, i2.sent)
        BY <3>2, <3>3, <4>2
      <4> HIDE DEF w
      <4>4. Half(k, i2, r, w, Nil) BY <2>9, <4>1, <4>2, <4>3 DEF Half
      <4> QED BY <4>4 DEF w
    <3> QED BY <3>4 DEF Stage
  <2> DEFINE C == PieceC(p, k)
             D == PieceD(p, k)
  <2>11. Sealed(m3) = {C, D} BY PieceKeys, SealedTwo
  <2>12. C.key.ck = Mixed2(EI(k), k) /\ D.key.ck = Mixed3(k) /\ C.n = 1 /\ D.n = 0
         /\ C.key.use = "handshake" /\ D.key.use = "handshake"
    <3>1. C.key = HandshakeKey(Mixed2(EI(k),
          k)) /\ D.key = HandshakeKey(Mixed3(k)) /\ C.n = 1 /\ D.n = 0 BY PieceKeys
    <3> HIDE DEF C, D
    <3> QED BY <3>1, HandshakeKeys
  <2>13. \A j \in Nat : (IsOf(j, C) <=> j = k) /\ (IsOf(j, D) <=> j = k)
    <3> TAKE j \in Nat
    <3> HIDE DEF C, D
    <3> QED BY <1>0, <2>12, MixedIsOf DEF IsOf
  <2>14. i.keys = Nil /\ r.keys = Nil /\ i.index = 1 /\ r.re = EI(k) /\ r.index = 2
    BY <1>1, <2>1, DialledFields, AnsweredFields
  <2>15. \A a \in sealed : IsOf(k, a) => a \in {PieceA(p, EI(k), k), PieceB(p, EI(k),
        k)} /\ a.key.use = "handshake"
    <3> HIDE DEF p
    <3> QED BY <1>0, <2>1, <2>14 DEF Accounted, SaidInShaking, SentBy, Nil
  <2>16. /\ Len(C.key.ck) = 2 /\ Len(D.key.ck) = 3
         /\ Len(PieceA(p, EI(k), k).key.ck) = 1 /\ Len(PieceB(p, EI(k),
               k).key.ck) = 2 /\ PieceB(p, EI(k), k).n = 0
    <3>1. Len(C.key.ck) = 2 /\ Len(D.key.ck) = 3
      <4> HIDE DEF C, D
      <4> QED BY <2>12, MixedFirst
    <3>2. PieceA(p, EI(k), k).key.ck = Mixed1(EI(k), k) /\ PieceB(p, EI(k),
          k).key.ck = Mixed2(EI(k), k) /\ PieceB(p, EI(k), k).n = 0
      <4>1. PieceA(p, EI(k), k).key = HandshakeKey(Mixed1(EI(k), k)) /\ PieceB(p, EI(k),
            k).key = HandshakeKey(Mixed2(EI(k), k)) /\ PieceB(p, EI(k), k).n = 0
        BY PieceKeys
      <4> HIDE DEF p
      <4> QED BY <4>1, HandshakeKeys
    <3>3. Len(Mixed1(EI(k), k)) = 1 /\ Len(Mixed2(EI(k), k)) = 2 BY MixedFirst
    <3> HIDE DEF C, D, p
    <3> QED BY <3>1, <3>2, <3>3
  <2>17. Unique(sealed \cup {C, D})
    <3> HIDE DEF C, D, p
    <3>1. \A a \in sealed : ~(a.key = C.key /\ a.n = C.n) /\ a.key # D.key
      <4> SUFFICES ASSUME NEW a \in sealed PROVE ~(a.key = C.key /\ a.n = C.n) /\ a.key # D.key OBVIOUS
      <4>1. CASE IsOf(k, a)
        <5>1. a = PieceA(p, EI(k), k) \/ a = PieceB(p, EI(k), k) BY <4>1, <2>15
        <5>2. Len(a.key.ck) = 1 \/ (Len(a.key.ck) = 2 /\ a.n = 0) BY <5>1, <2>16
        <5> QED BY <5>2, <2>12, <2>16
      <4>2. CASE ~IsOf(k, a) BY <4>2, <2>13, <1>0 DEF IsOf
      <4> QED BY <4>1, <4>2
    <3>2. C.key # D.key BY <2>16
    <3>3. Unique(sealed \cup {C}) BY <3>1, <1>0, UniqueAdds
    <3>4. Unique((sealed \cup {C}) \cup {D}) BY <3>1, <3>2, <3>3, UniqueAdds
    <3>5. (sealed \cup {C}) \cup {D} = sealed \cup {C, D} OBVIOUS
    <3> QED BY <3>4, <3>5
  <2>18. Accounted(k, i2, r, sealed \cup {C, D})
    <3>1. i2.index = 3 BY <2>9, OpenedFields
    <3> HIDE DEF C, D, i2
    <3>2. \A a \in sealed \cup {C, D} : IsOf(k, a) => SaidInShaking(k, i2, r, a)
      BY <3>1, <2>12, <2>14, <2>15 DEF SaidInShaking
    <3>3. \A a \in sealed \cup {C, D}, j \in Nat : IsOf(j, a) => j <= k
      BY <1>0, <2>13 DEF Accounted
    <3> QED BY <3>2, <3>3 DEF Accounted
  <2> HIDE DEF i2, m3, C, D
  <2> QED BY <1>0, <2>6, <2>8, <2>10, <2>11, <2>17, <2>18 DEF SecureIInv
<1> QED BY <1>5, <1>6

LEMMA SeqInto == ASSUME NEW S, NEW F, NEW t \in Seq(S),
      \A j \in 1..Len(t) : t[j] \in F PROVE t \in Seq(F)
<1>1. t = [j \in 1..Len(t) |-> t[j]] /\ Len(t) \in Nat OBVIOUS
<1> QED BY <1>1

(* r reads the last message: both are established. *)

LEMMA StepSettle ==
    ASSUME SecureIInv, ReadHandshake(Responder),
           Half(session, end[Initiator], end[Responder], wire[Initiator], wire[Responder])
    PROVE SecureIInv'
<1> DEFINE k == session
           i == end[Initiator]
           r == end[Responder]
           p == r.prologue
           wi == wire[Initiator]
           wr == wire[Responder]
           F == Frames(k, Initiator, i.sent)
           read == ReadMessage(Responder, r, Head(wi))
           next == NextMessage(read.end)
<1>0. k \in Nat /\ Accounted(k, i, r, sealed) /\ Unique(sealed) BY DEF SecureIInv
<1>1. /\ HasOpened(k, Initiator, i) /\ HasAnswered(k, r, EI(k)) /\ wr = Nil
      /\ i.prologue = r.prologue /\ i.received = 0 /\ r.status = "shaking"
      /\ wi \in Seq(Finals(k, p) \cup F) /\ wi # <<>> /\ wi[1] \in Finals(k, p)
      /\ \A j \in 2..Len(wi) : wi[j] \in F
  BY DEF Half, ReadHandshake
<1>2. PICK c \in Spoilt(PieceC(p, k)), d \in Spoilt(PieceD(p, k)) : wi[1] = Two(c, d)
  BY <1>1 DEF Finals
<1>3. r = Shaking(Heard2(p, EI(k), k), Mixed2(EI(k), k), 1, EI(k), NoKey, 2, "shaking", p)
  BY <1>1 DEF HasAnswered
<1>4. Head(wi) = Two(c, d)
  BY <1>1, <1>2, HeadTailProperties
<1>5. Tail(wi) \in Seq(F)
  <2> DEFINE S == Finals(k, p) \cup F
  <2>1. wi \in Seq(S) /\ wi # <<>> /\ \A j \in 2..Len(wi) : wi[j] \in F BY <1>1
  <2> HIDE DEF S, F
  <2>2. Tail(wi) \in Seq(S) /\ Len(Tail(wi)) = Len(wi) - 1 /\ Len(wi) \in Nat /\ \A j \in 1..Len(Tail(wi)) : Tail(wi)[j] = wi[j + 1]
    BY <2>1
  <2>3. \A j \in 1..Len(Tail(wi)) : Tail(wi)[j] \in F
    BY <2>1, <2>2
  <2> QED BY <2>2, <2>3, SeqInto
<1>6. CASE ~read.ok
  <2>1. end' = [end EXCEPT ![Responder] = Closed(end[Responder])] /\ wire' = [wire EXCEPT ![Initiator] = Tail(wi)]
        /\ UNCHANGED <<session, sealed>> /\ wi # <<>>
    BY <1>6, TheRoles DEF ReadHandshake
  <2> QED BY <2>1, StageFails, TheRoles
<1>7. CASE read.ok
  <2>1. read = Reader(Heard3(p, k), Mixed3(k), 1, EI(k), SI, 2, "shaking", p, Nil, Payload)
    <3> HIDE DEF p, r
    <3>1. read = ReadMessage(Responder, Shaking(Heard2(p, EI(k), k), Mixed2(EI(k), k), 1,
          EI(k), NoKey, 2, "shaking", p), Two(c, d))
      BY <1>3, <1>4
    <3> HIDE DEF read
    <3> QED BY <1>0, <1>2, <1>7, <3>1, ReadThird
  <2>2. next = Shaking(Heard3(p, k), Mixed3(k), 1, EI(k), SI, 3, "shaking", p)
    <3> HIDE DEF p, r, read
    <3> QED BY <2>1, ReaderFields, NextShaking, 2 + 1 = 3
  <2> DEFINE r2 == Made(Heard3(p, k), Mixed3(k), 1, EI(k), SI, 3, "open", One(Split(Responder,
        Mixed3(k))), 0, 0, 0, p)
  <2>3. next.index = 3 /\ Established(Responder, next) = r2
    <3> HIDE DEF p, next
    <3> QED BY <2>2, ShakingFields, EstablishedShaking
  <2>4. /\ end' = [end EXCEPT ![Responder] = r2]
        /\ wire' = [wire EXCEPT ![Initiator] = Tail(wi)]
        /\ sealed' = sealed /\ session' = session
    <3> HIDE DEF r2
    <3>1. read.ok /\ next.index = 3 BY <1>7, <2>3
    <3>2. /\ end' = [end EXCEPT ![Responder] = Established(Responder, next)]
          /\ wire' = [wire EXCEPT ![Initiator] = Tail(wi)]
          /\ sealed' = sealed /\ session' = session
      BY <3>1, TheRoles DEF ReadHandshake
    <3> QED BY <3>2, <2>3
  <2>5. /\ end'[Initiator] = i /\ end'[Responder] = r2 /\ end' = [z \in Roles |-> end'[z]]
        /\ wire'[Responder] = wr /\ wire'[Initiator] = Tail(wi) /\ wire' = [z \in Roles |-> wire'[z]]
    <3> HIDE DEF r2
    <3> QED BY <2>4, TheRoles DEF SecureIInv
  <2>6. HasOpened(k, Responder, r2) /\ r2.prologue = p /\ r2.received = 0 /\ r2.sent = 0
    BY MadeFields, TheRoles DEF HasOpened, EI, SI
  <2>7. i.sent \in Nat BY <1>1, OpenedFields
  <2>8. Settled(k, i, r2, Tail(wi), wr)
    <3>1. wr \in Seq(Frames(k, Responder, r2.sent)) BY <1>1 DEF Nil
    <3>2. i.prologue = r2.prologue /\ i.received <= r2.sent /\ r2.received <= i.sent
      BY <1>1, <2>6, <2>7
    <3> HIDE DEF r2
    <3> QED BY <1>1, <1>5, <2>6, <3>1, <3>2 DEF Settled
  <2>9. Accounted(k, i, r2, sealed)
    <3>1. r2.index = 3 /\ r.keys = Nil /\ r.index = 2 /\ i.index = 3 BY <1>1, <2>6,
          OpenedFields, AnsweredFields
    <3> HIDE DEF r2
    <3> QED BY <1>0, <3>1 DEF Accounted, SaidInShaking, SentBy, Nil
  <2> HIDE DEF r2
  <2> QED BY <1>0, <2>4, <2>5, <2>8, <2>9 DEF SecureIInv, Stage
<1> QED BY <1>6, <1>7

LEMMA StepReadHandshake == ASSUME SecureIInv, NEW x \in Roles,
      ReadHandshake(x) PROVE SecureIInv'
<1> DEFINE k == session
           i == end[Initiator]
           r == end[Responder]
           wi == wire[Initiator]
           wr == wire[Responder]
<1>1. Stage(k, i, r, wi, wr) BY DEF SecureIInv
<1>2. CASE x = Initiator
  <2>1. i.status = "shaking" /\ ~WeWrite(Initiator,
        i.index) /\ wr # Nil /\ ReadHandshake(Initiator)
    BY <1>2, TheRoles DEF ReadHandshake, Nil
  <2>2. ~Unsaid(k, i, r, wi, wr) BY <2>1 DEF Unsaid
  <2>3. ~Dialled(k, i, r, wi, wr) BY <2>1 DEF Dialled
  <2>4. ~Half(k, i, r, wi, wr) BY <2>1 DEF Half
  <2>5. ~Settled(k, i, r, wi, wr) BY <2>1, OpenedFields DEF Settled
  <2> QED BY <1>1, <2>1, <2>2, <2>3, <2>4, <2>5, StepAgree DEF Stage
<1>3. CASE x = Responder
  <2>1. r.status = "shaking" /\ ~WeWrite(Responder,
        r.index) /\ wi # Nil /\ ReadHandshake(Responder)
    BY <1>3, TheRoles DEF ReadHandshake, Nil
  <2>2. ~Unsaid(k, i, r, wi, wr) BY <2>1 DEF Unsaid
  <2>3. ~Answered(k, i, r, wi, wr) BY <2>1 DEF Answered
  <2>5. ~Settled(k, i, r, wi, wr) BY <2>1, OpenedFields DEF Settled
  <2> QED BY <1>1, <2>1, <2>2, <2>3, <2>5, StepAnswer, StepSettle DEF Stage
<1> QED BY <1>2, <1>3, TheRoles

-----------------------------------------------------------------------------
(* An established end seals a frame or a datagram: the number it uses is one   *)
(* the account does not hold yet, under a key only it sends with.            *)

LEMMA SplitKeys == ASSUME NEW ck
    PROVE /\ Split(Initiator, ck).send = Key(ck, "stream", 1) /\ Split(Initiator,
              ck).recv = Key(ck, "stream", 2)
          /\ Split(Initiator, ck).udpSend = Key(ck, "datagram", 1) /\ Split(Initiator,
                ck).udpRecv = Key(ck, "datagram", 2)
          /\ Split(Responder, ck).send = Key(ck, "stream", 2) /\ Split(Responder,
                ck).recv = Key(ck, "stream", 1)
          /\ Split(Responder, ck).udpSend = Key(ck, "datagram", 2) /\ Split(Responder,
                ck).udpRecv = Key(ck, "datagram", 1)
BY TheRoles DEF Split

LEMMA KeyFields == ASSUME NEW ck, NEW use, NEW dir
    PROVE Key(ck, use, dir).ck = ck /\ Key(ck, use, dir).use = use /\ Key(ck, use,
          dir).dir = dir
BY DEF Key

(* Who has opened, of the two. *)

LEMMA OpenEnds ==
    ASSUME NEW k, NEW i, NEW r, NEW wi, NEW wr, Stage(k, i, r, wi, wr)
    PROVE /\ i.keys # <<>> => HasOpened(k, Initiator, i)
          /\ r.keys # <<>> => HasOpened(k, Responder, r)
          /\ i.status = "open" => i.keys # <<>>
          /\ r.status = "open" => r.keys # <<>>
          /\ i.keys # <<>> => r.index # 0
<1>1. CASE Unsaid(k, i, r, wi, wr) BY <1>1, NewFields DEF Unsaid, Nil
<1>2. CASE Dialled(k, i, r, wi, wr) BY <1>2, NewFields, DialledFields DEF Dialled, Nil
<1>3. CASE Answered(k, i, r, wi, wr) BY <1>3, DialledFields, AnsweredFields DEF Answered, Nil
<1>4. CASE Half(k, i, r, wi, wr) BY <1>4, OpenedFields, AnsweredFields DEF Half, Nil
<1>5. CASE Settled(k, i, r, wi, wr) BY <1>5, OpenedFields DEF Settled
<1> QED BY <1>1, <1>2, <1>3, <1>4, <1>5 DEF Stage

(* A key's next number is not used yet. *)

LEMMA Unused ==
    ASSUME SecureIInv, NEW x \in Roles, end[x].keys # <<>>, NEW a \in sealed,
           NEW key, NEW n, a.key = key, a.n = n,
           \/ key = end[x].keys[1].send /\ n = end[x].sent
           \/ key = end[x].keys[1].udpSend /\ n = end[x].datagrams
    PROVE FALSE
<1> DEFINE k == session
           i == end[Initiator]
           r == end[Responder]
           ck == Mixed3(k)
<1>1. /\ k \in Nat /\ Accounted(k, i, r, sealed)
      /\ Stage(k, i, r, wire[Initiator], wire[Responder]) BY DEF SecureIInv
<1>2. /\ i.keys # <<>> => HasOpened(k, Initiator, i)
      /\ r.keys # <<>> => HasOpened(k, Responder, r)
  BY <1>1, OpenEnds
<1>3. i.keys # <<>> => i.keys[1].send = Key(ck, "stream", 1) /\ i.keys[1].udpSend = Key(ck,
      "datagram", 1) /\ i.sent \in Nat /\ i.datagrams \in Nat
  BY <1>2, OpenedFields, SplitKeys
<1>4. r.keys # <<>> => r.keys[1].send = Key(ck, "stream", 2) /\ r.keys[1].udpSend = Key(ck,
      "datagram", 2) /\ r.sent \in Nat /\ r.datagrams \in Nat
  BY <1>2, OpenedFields, SplitKeys
<1>5. a.key.ck = ck /\ a.key.use # "handshake"
  <2>1. CASE x = Initiator
    <3>1. key \in {Key(ck, "stream", 1), Key(ck, "datagram", 1)} BY <2>1, <1>3
    <3> QED BY <3>1, KeyFields
  <2>2. CASE x = Responder
    <3>1. key \in {Key(ck, "stream", 2), Key(ck, "datagram", 2)} BY <2>2, <1>4
    <3> QED BY <3>1, KeyFields
  <2> QED BY <2>1, <2>2, TheRoles
<1>6. IsOf(k, a)
  BY <1>1, <1>5, MixedIsOf DEF IsOf
<1>7. SentBy(i, a) \/ SentBy(r, a)
  BY <1>1, <1>5, <1>6 DEF Accounted, SaidInShaking
<1>8. ASSUME NEW use1, NEW use2, NEW d1, NEW d2, Key(ck, use1, d1) = Key(ck, use2,
      d2) PROVE use1 = use2 /\ d1 = d2
  BY <1>8, KeyFields
<1>9. CASE x = Initiator
  <2>1. \/ key = Key(ck, "stream", 1) /\ n = i.sent
        \/ key = Key(ck, "datagram", 1) /\ n = i.datagrams
    BY <1>3, <1>9
  <2>2. ~SentBy(i, a)
    BY <2>1, <1>3, <1>8 DEF SentBy
  <2>3. ~SentBy(r, a)
    BY <2>1, <1>4, <1>8 DEF SentBy
  <2> QED BY <2>2, <2>3, <1>7
<1>10. CASE x = Responder
  <2>1. \/ key = Key(ck, "stream", 2) /\ n = r.sent
        \/ key = Key(ck, "datagram", 2) /\ n = r.datagrams
    BY <1>4, <1>10
  <2>2. ~SentBy(r, a)
    BY <2>1, <1>4, <1>8 DEF SentBy
  <2>3. ~SentBy(i, a)
    BY <2>1, <1>3, <1>8 DEF SentBy
  <2> QED BY <2>2, <2>3, <1>7
<1> QED BY <1>9, <1>10, TheRoles

LEMMA SentOpened == ASSUME NEW k, NEW x, NEW s, HasOpened(k, x, s)
    PROVE LET t == [s EXCEPT !.sent = @ + 1]
          IN  /\ HasOpened(k, x, t) /\ t.sent = s.sent + 1
              /\ t.received = s.received /\ t.datagrams = s.datagrams
              /\ t.status = s.status /\ t.prologue = s.prologue /\ t.keys = s.keys /\ t.index = s.index /\ t.re = s.re
<1> DEFINE t == [s EXCEPT !.sent = @ + 1]
           S == Made(Heard3(s.prologue, k), Mixed3(k), 1, Ephemeral(Other(x), k),
                 Static(Other(x)), 3, s.status,
                  One(Split(x, Mixed3(k))), s.sent, s.received, s.datagrams, s.prologue)
<1>1. s = S BY DEF HasOpened
<1>2. [S EXCEPT !.sent = @ + 1] = Made(Heard3(s.prologue, k), Mixed3(k), 1,
      Ephemeral(Other(x), k), Static(Other(x)), 3, s.status,
                One(Split(x, Mixed3(k))), s.sent + 1, s.received, s.datagrams, s.prologue)
  BY SentMade
<1>3. t = Made(Heard3(s.prologue, k), Mixed3(k), 1, Ephemeral(Other(x), k), Static(Other(x)),
      3, s.status,
                One(Split(x, Mixed3(k))), s.sent + 1, s.received, s.datagrams, s.prologue)
  <2> HIDE DEF S
  <2> QED BY <1>1, <1>2
<1>4. /\ t.sent = s.sent + 1
      /\ t.received = s.received /\ t.datagrams = s.datagrams
      /\ t.status = s.status /\ t.prologue = s.prologue /\ t.keys = s.keys /\ t.index = s.index /\ t.re = s.re
  <2>1. /\ t.sent = s.sent + 1
        /\ t.received = s.received /\ t.datagrams = s.datagrams
        /\ t.status = s.status /\ t.prologue = s.prologue /\ t.keys = One(Split(x,
              Mixed3(k))) /\ t.index = 3 /\ t.re = Ephemeral(Other(x), k)
    <3> HIDE DEF t
    <3> QED BY <1>3, MadeFields
  <2>2. s.keys = One(Split(x, Mixed3(k))) /\ s.index = 3 /\ s.re = Ephemeral(Other(x), k)
    <3> HIDE DEF t
    <3> QED BY <1>1, MadeFields
  <2> HIDE DEF t
  <2> QED BY <2>1, <2>2
<1>5. s.status \in {"open",
      "closed"} /\ s.sent \in Nat /\ s.received \in Nat /\ s.datagrams \in Nat BY DEF HasOpened
<1> HIDE DEF t
<1>6. HasOpened(k, x, t) BY <1>3, <1>4, <1>5 DEF HasOpened
<1> QED BY <1>4, <1>6 DEF t

LEMMA ReceivedOpened == ASSUME NEW k, NEW x, NEW s, HasOpened(k, x, s)
    PROVE LET t == [s EXCEPT !.received = @ + 1]
          IN  /\ HasOpened(k, x, t) /\ t.received = s.received + 1
              /\ t.sent = s.sent /\ t.datagrams = s.datagrams
              /\ t.status = s.status /\ t.prologue = s.prologue /\ t.keys = s.keys /\ t.index = s.index /\ t.re = s.re
<1> DEFINE t == [s EXCEPT !.received = @ + 1]
           S == Made(Heard3(s.prologue, k), Mixed3(k), 1, Ephemeral(Other(x), k),
                 Static(Other(x)), 3, s.status,
                  One(Split(x, Mixed3(k))), s.sent, s.received, s.datagrams, s.prologue)
<1>1. s = S BY DEF HasOpened
<1>2. [S EXCEPT !.received = @ + 1] = Made(Heard3(s.prologue, k), Mixed3(k), 1,
      Ephemeral(Other(x), k), Static(Other(x)), 3, s.status,
                One(Split(x, Mixed3(k))), s.sent, s.received + 1, s.datagrams, s.prologue)
  BY ReceivedMade
<1>3. t = Made(Heard3(s.prologue, k), Mixed3(k), 1, Ephemeral(Other(x), k), Static(Other(x)),
      3, s.status,
                One(Split(x, Mixed3(k))), s.sent, s.received + 1, s.datagrams, s.prologue)
  <2> HIDE DEF S
  <2> QED BY <1>1, <1>2
<1>4. /\ t.received = s.received + 1
      /\ t.sent = s.sent /\ t.datagrams = s.datagrams
      /\ t.status = s.status /\ t.prologue = s.prologue /\ t.keys = s.keys /\ t.index = s.index /\ t.re = s.re
  <2>1. /\ t.received = s.received + 1
        /\ t.sent = s.sent /\ t.datagrams = s.datagrams
        /\ t.status = s.status /\ t.prologue = s.prologue /\ t.keys = One(Split(x,
              Mixed3(k))) /\ t.index = 3 /\ t.re = Ephemeral(Other(x), k)
    <3> HIDE DEF t
    <3> QED BY <1>3, MadeFields
  <2>2. s.keys = One(Split(x, Mixed3(k))) /\ s.index = 3 /\ s.re = Ephemeral(Other(x), k)
    <3> HIDE DEF t
    <3> QED BY <1>1, MadeFields
  <2> HIDE DEF t
  <2> QED BY <2>1, <2>2
<1>5. s.status \in {"open",
      "closed"} /\ s.sent \in Nat /\ s.received \in Nat /\ s.datagrams \in Nat BY DEF HasOpened
<1> HIDE DEF t
<1>6. HasOpened(k, x, t) BY <1>3, <1>4, <1>5 DEF HasOpened
<1> QED BY <1>4, <1>6 DEF t

LEMMA DatagramOpened == ASSUME NEW k, NEW x, NEW s, HasOpened(k, x, s)
    PROVE LET t == [s EXCEPT !.datagrams = @ + 1]
          IN  /\ HasOpened(k, x, t) /\ t.datagrams = s.datagrams + 1
              /\ t.sent = s.sent /\ t.received = s.received
              /\ t.status = s.status /\ t.prologue = s.prologue /\ t.keys = s.keys /\ t.index = s.index /\ t.re = s.re
<1> DEFINE t == [s EXCEPT !.datagrams = @ + 1]
           S == Made(Heard3(s.prologue, k), Mixed3(k), 1, Ephemeral(Other(x), k),
                 Static(Other(x)), 3, s.status,
                  One(Split(x, Mixed3(k))), s.sent, s.received, s.datagrams, s.prologue)
<1>1. s = S BY DEF HasOpened
<1>2. [S EXCEPT !.datagrams = @ + 1] = Made(Heard3(s.prologue, k), Mixed3(k), 1,
      Ephemeral(Other(x), k), Static(Other(x)), 3, s.status,
                One(Split(x, Mixed3(k))), s.sent, s.received, s.datagrams + 1, s.prologue)
  BY DatagramMade
<1>3. t = Made(Heard3(s.prologue, k), Mixed3(k), 1, Ephemeral(Other(x), k), Static(Other(x)),
      3, s.status,
                One(Split(x, Mixed3(k))), s.sent, s.received, s.datagrams + 1, s.prologue)
  <2> HIDE DEF S
  <2> QED BY <1>1, <1>2
<1>4. /\ t.datagrams = s.datagrams + 1
      /\ t.sent = s.sent /\ t.received = s.received
      /\ t.status = s.status /\ t.prologue = s.prologue /\ t.keys = s.keys /\ t.index = s.index /\ t.re = s.re
  <2>1. /\ t.datagrams = s.datagrams + 1
        /\ t.sent = s.sent /\ t.received = s.received
        /\ t.status = s.status /\ t.prologue = s.prologue /\ t.keys = One(Split(x,
              Mixed3(k))) /\ t.index = 3 /\ t.re = Ephemeral(Other(x), k)
    <3> HIDE DEF t
    <3> QED BY <1>3, MadeFields
  <2>2. s.keys = One(Split(x, Mixed3(k))) /\ s.index = 3 /\ s.re = Ephemeral(Other(x), k)
    <3> HIDE DEF t
    <3> QED BY <1>1, MadeFields
  <2> HIDE DEF t
  <2> QED BY <2>1, <2>2
<1>5. s.status \in {"open",
      "closed"} /\ s.sent \in Nat /\ s.received \in Nat /\ s.datagrams \in Nat BY DEF HasOpened
<1> HIDE DEF t
<1>6. HasOpened(k, x, t) BY <1>3, <1>4, <1>5 DEF HasOpened
<1> QED BY <1>4, <1>6 DEF t

LEMMA AccountedAdds ==
    ASSUME SecureIInv, NEW x \in Roles, end[x].keys # <<>>, NEW f, NEW s,
           \/ f.key = end[x].keys[1].send /\ f.n = end[x].sent
           \/ f.key = end[x].keys[1].udpSend /\ f.n = end[x].datagrams,
           SentBy(s, f),
           s.keys = end[x].keys, s.index = end[x].index, s.prologue = end[x].prologue,
                 s.re = end[x].re,
           s.sent \in Nat, s.datagrams \in Nat, s.sent >= end[x].sent,
                 s.datagrams >= end[x].datagrams
    PROVE /\ Unique(sealed \cup {f})
          /\ x = Initiator => Accounted(session, s, end[Responder], sealed \cup {f})
          /\ x = Responder => Accounted(session, end[Initiator], s, sealed \cup {f})
<1> DEFINE k == session
           i == end[Initiator]
           r == end[Responder]
           ck == Mixed3(k)
<1>1. /\ k \in Nat /\ Accounted(k, i, r, sealed) /\ Unique(sealed)
      /\ Stage(k, i, r, wire[Initiator], wire[Responder]) BY DEF SecureIInv
<1>2. \A a \in sealed : ~(a.key = f.key /\ a.n = f.n) BY Unused
<1>3. Unique(sealed \cup {f}) BY <1>1, <1>2, UniqueAdds
<1>4. HasOpened(k, x, end[x]) BY <1>1, OpenEnds, TheRoles
<1>5. f.key.ck = ck
  <2>1. end[x].keys[1] = Split(x, ck) BY <1>4, OpenedFields
  <2>2. \E use, dir : f.key = Key(ck, use, dir) BY <2>1, SplitKeys, TheRoles
  <2> QED BY <2>2, KeyFields
<1>6. \A j \in Nat : IsOf(j, f) => j = k BY <1>1, <1>5, MixedIsOf DEF IsOf
<1>7. end[x].sent \in Nat /\ end[x].datagrams \in Nat BY <1>4, OpenedFields
<1>8. \A a \in sealed : SentBy(end[x], a) => SentBy(s, a)
  BY <1>7 DEF SentBy
<1>9. CASE x = Initiator
  <2>1. ASSUME NEW a \in sealed, IsOf(k, a) PROVE SaidInShaking(k, s, r, a) \/ SentBy(s,
        a) \/ SentBy(r, a)
    <3>1. CASE SaidInShaking(k, i, r, a) BY <3>1, <1>9 DEF SaidInShaking
    <3>2. CASE SentBy(i, a) BY <3>2, <1>9, <1>8
    <3> QED BY <3>1, <3>2, <1>1, <2>1 DEF Accounted
  <2>2. Accounted(k, s, r, sealed \cup {f}) BY <2>1, <1>1, <1>6 DEF Accounted
  <2> QED BY <1>3, <1>9, <2>2, TheRoles
<1>10. CASE x = Responder
  <2>1. ASSUME NEW a \in sealed, IsOf(k, a) PROVE SaidInShaking(k, i, s, a) \/ SentBy(i,
        a) \/ SentBy(s, a)
    <3>1. CASE SaidInShaking(k, i, r, a) BY <3>1, <1>10 DEF SaidInShaking
    <3>2. CASE SentBy(r, a) BY <3>2, <1>10, <1>8
    <3> QED BY <3>1, <3>2, <1>1, <2>1 DEF Accounted
  <2>2. Accounted(k, i, s, sealed \cup {f}) BY <2>1, <1>1, <1>6 DEF Accounted
  <2> QED BY <1>3, <1>10, <2>2, TheRoles
<1> QED BY <1>9, <1>10, TheRoles

LEMMA FramesGrow ==
    ASSUME NEW k, NEW x, NEW n \in Nat
    PROVE /\ Frames(k, x, n) \subseteq Frames(k, x, n + 1)
          /\ \A d \in Data : One(Said(Split(x, Mixed3(k)).send, n, d)) \in Frames(k, x, n + 1)
<1>1. 0..(n - 1) \subseteq 0..((n + 1) - 1) /\ n \in 0..((n + 1) - 1) OBVIOUS
<1>2. ASSUME NEW m \in Frames(k, x, n) PROVE m \in Frames(k, x, n + 1)
  <2>1. PICK j \in 0..(n - 1), d \in Data : \E f \in Spoilt(Said(Split(x, Mixed3(k)).send, j,
        d)) : m = One(f)
    BY <1>2 DEF Frames
  <2> QED BY <2>1, <1>1 DEF Frames
<1>3. ASSUME NEW d \in Data PROVE One(Said(Split(x, Mixed3(k)).send, n, d)) \in Frames(k, x,
      n + 1)
  <2>1. Said(Split(x, Mixed3(k)).send, n, d) \in Spoilt(Said(Split(x, Mixed3(k)).send, n,
        d)) BY DEF Spoilt
  <2> QED BY <2>1, <1>1 DEF Frames
<1> QED BY <1>2, <1>3

LEMMA SeqWider == ASSUME NEW S, NEW T, S \subseteq T, NEW w \in Seq(S) PROVE w \in Seq(T)
<1>1. w = [j \in 1..Len(w) |-> w[j]] /\ Len(w) \in Nat /\ \A j \in 1..Len(w) : w[j] \in S OBVIOUS
<1> QED BY <1>1

LEMMA StepSealFrame == ASSUME SecureIInv, NEW x \in Roles, NEW d \in Data, SealFrame(x,
      d) PROVE SecureIInv'
<1> DEFINE k == session
           i == end[Initiator]
           r == end[Responder]
           wi == wire[Initiator]
           wr == wire[Responder]
           s == end[x]
           t == [s EXCEPT !.sent = @ + 1]
           f == Said(s.keys[1].send, s.sent, d)
           F(y, n) == Frames(k, y, n)
<1>1. /\ k \in Nat /\ Accounted(k, i, r, sealed) /\ Unique(sealed) /\ Stage(k, i, r, wi, wr)
  BY DEF SecureIInv
<1>2. /\ s.status = "open"
      /\ end' = [end EXCEPT ![x] = t]
      /\ wire' = [wire EXCEPT ![x] = Append(wire[x], One(f))]
      /\ sealed' = sealed \cup {f} /\ session' = session
  BY DEF SealFrame, One
<1>3. s.keys # <<>> /\ HasOpened(k, x, s) BY <1>1, <1>2, OpenEnds, TheRoles
<1>4. /\ HasOpened(k, x,
          t) /\ t.sent = s.sent + 1 /\ t.received = s.received /\ t.datagrams = s.datagrams
      /\ t.status = s.status /\ t.prologue = s.prologue /\ t.keys = s.keys /\ t.index = s.index /\ t.re = s.re
  BY <1>3, SentOpened
<1>5. s.sent \in Nat /\ s.datagrams \in Nat /\ s.received \in Nat /\ s.keys[1] = Split(x,
      Mixed3(k)) BY <1>3, OpenedFields
<1>6. f.key = s.keys[1].send /\ f.n = s.sent BY DEF Said, Piece
<1>7. One(f) \in F(x, s.sent + 1) /\ F(x, s.sent) \subseteq F(x, s.sent + 1)
  BY <1>5, FramesGrow
<1> HIDE DEF t, f, F
<1>8. SentBy(t, f) BY <1>3, <1>4, <1>5, <1>6 DEF SentBy
<1>9. /\ Unique(sealed \cup {f})
      /\ x = Initiator => Accounted(session, t, end[Responder], sealed \cup {f})
      /\ x = Responder => Accounted(session, end[Initiator], t, sealed \cup {f})
  <2>1. t.sent \in Nat /\ t.datagrams \in Nat /\ t.sent >= s.sent /\ t.datagrams >= s.datagrams BY <1>4,
        <1>5
  <2> QED BY <1>3, <1>4, <1>6, <1>8, <2>1, AccountedAdds
<1>10. ASSUME NEW S, NEW T, S \subseteq T, One(f) \in T, NEW w \in Seq(S) PROVE Append(w,
      One(f)) \in Seq(T)
  <2>1. w \in Seq(T) BY <1>10, SeqWider
  <2> QED BY <1>10, <2>1
<1>11. CASE x = Initiator
  <2>1. /\ end'[Initiator] = t /\ end'[Responder] = r /\ end' = [y \in Roles |-> end'[y]]
        /\ wire'[Initiator] = Append(wi,
              One(f)) /\ wire'[Responder] = wr /\ wire' = [y \in Roles |-> wire'[y]]
    BY <1>2, <1>11, TheRoles DEF SecureIInv
  <2>2. s = i /\ s.index = 3 BY <1>3, <1>11, OpenedFields
  <2>3. CASE Half(k, i, r, wi, wr)
    <3>1. Half(k, t, r, Append(wi, One(f)), wr)
      <4>1. CASE r.status = "closed" BY <2>2, <2>3, <1>4, <1>11, <4>1 DEF Half
      <4>2. CASE r.status # "closed"
        <5> DEFINE S == Finals(k, r.prologue) \cup F(Initiator, s.sent)
                   T == Finals(k, r.prologue) \cup F(Initiator, t.sent)
        <5>1. /\ wi \in Seq(S) /\ wi # <<>> /\ wi[1] \in Finals(k, r.prologue)
              /\ \A j \in 2..Len(wi) : wi[j] \in F(Initiator, s.sent)
          BY <2>2, <2>3, <4>2 DEF Half, F
        <5>2. S \subseteq T /\ One(f) \in T /\ One(f) \in F(Initiator, t.sent) /\ F(Initiator,
              s.sent) \subseteq F(Initiator, t.sent)
          BY <1>4, <1>7, <1>11
        <5>3. Append(wi, One(f)) \in Seq(T) BY <5>1, <5>2, <1>10
        <5> HIDE DEF S, T
        <5>4. /\ Append(wi, One(f)) # <<>> /\ Append(wi, One(f))[1] = wi[1]
              /\ Len(Append(wi, One(f))) = Len(wi) + 1 /\ Len(wi) \in Nat
              /\ Append(wi, One(f))[Len(wi) + 1] = One(f)
              /\ \A j \in 1..Len(wi) : Append(wi, One(f))[j] = wi[j]
          <6>1. wi \in Seq(T) /\ One(f) \in T BY <5>1, <5>2, SeqWider
          <6> QED BY <5>1, <6>1, AppendProperties
        <5>5. \A j \in 2..Len(Append(wi, One(f))) : Append(wi, One(f))[j] \in F(Initiator,
              t.sent)
          <6> TAKE j \in 2..Len(Append(wi, One(f)))
          <6>1. j \in 2..Len(wi) \/ j = Len(wi) + 1 BY <5>4
          <6>2. CASE j \in 2..Len(wi) BY <6>2, <5>1, <5>2, <5>4
          <6>3. CASE j = Len(wi) + 1 BY <6>3, <5>2, <5>4
          <6> QED BY <6>1, <6>2, <6>3
        <5> QED BY <1>4, <1>11, <2>2, <2>3, <5>1, <5>3, <5>4, <5>5 DEF Half, T, F
      <4> QED BY <4>1, <4>2
    <3> QED BY <1>1, <1>2, <1>9, <1>11, <2>1, <3>1 DEF SecureIInv, Stage
  <2>4. CASE Settled(k, i, r, wi, wr)
    <3>1. Settled(k, t, r, Append(wi, One(f)), wr)
      <4>1. r.status = "closed" \/ Append(wi, One(f)) \in Seq(F(Initiator, t.sent))
        BY <1>4, <1>7, <1>10, <1>11, <2>2, <2>4 DEF Settled, F
      <4>2. r.received \in Nat /\ r.received <= t.sent
        BY <1>4, <1>5, <2>2, <2>4, OpenedFields DEF Settled
      <4> QED BY <1>4, <1>11, <2>2, <2>4, <4>1, <4>2 DEF Settled, F
    <3> QED BY <1>1, <1>2, <1>9, <1>11, <2>1, <3>1 DEF SecureIInv, Stage
  <2> QED BY <1>1, <2>2, <2>3, <2>4, NewFields, DialledFields DEF Stage, Unsaid, Dialled,
        Answered
<1>12. CASE x = Responder
  <2>1. /\ end'[Responder] = t /\ end'[Initiator] = i /\ end' = [y \in Roles |-> end'[y]]
        /\ wire'[Responder] = Append(wr,
              One(f)) /\ wire'[Initiator] = wi /\ wire' = [y \in Roles |-> wire'[y]]
    BY <1>2, <1>12, TheRoles DEF SecureIInv
  <2>2. s = r /\ s.index = 3 BY <1>3, <1>12, OpenedFields
  <2>4. CASE Settled(k, i, r, wi, wr)
    <3>1. Settled(k, i, t, wi, Append(wr, One(f)))
      <4>1. i.status = "closed" \/ Append(wr, One(f)) \in Seq(F(Responder, t.sent))
        BY <1>4, <1>7, <1>10, <1>12, <2>2, <2>4 DEF Settled, F
      <4>2. i.received \in Nat /\ i.received <= t.sent
        BY <1>4, <1>5, <2>2, <2>4, OpenedFields DEF Settled
      <4> QED BY <1>4, <1>12, <2>2, <2>4, <4>1, <4>2 DEF Settled, F
    <3> QED BY <1>1, <1>2, <1>9, <1>12, <2>1, <3>1 DEF SecureIInv, Stage
  <2> QED BY <1>1, <2>2, <2>4, NewFields, AnsweredFields DEF Stage, Unsaid, Dialled, Answered,
        Half
<1> QED BY <1>11, <1>12, TheRoles

LEMMA StepSealDatagram == ASSUME SecureIInv, NEW x \in Roles, NEW d \in Data, SealDatagram(x,
      d) PROVE SecureIInv'
<1> DEFINE k == session
           i == end[Initiator]
           r == end[Responder]
           wi == wire[Initiator]
           wr == wire[Responder]
           s == end[x]
           t == [s EXCEPT !.datagrams = @ + 1]
           f == Said(s.keys[1].udpSend, s.datagrams, d)
<1>1. /\ k \in Nat /\ Accounted(k, i, r, sealed) /\ Unique(sealed) /\ Stage(k, i, r, wi, wr)
  BY DEF SecureIInv
<1>2. /\ s.status = "open"
      /\ end' = [end EXCEPT ![x] = t]
      /\ wire' = wire /\ sealed' = sealed \cup {f} /\ session' = session
  BY DEF SealDatagram
<1>3. s.keys # <<>> /\ HasOpened(k, x, s) BY <1>1, <1>2, OpenEnds, TheRoles
<1>4. /\ HasOpened(k, x,
          t) /\ t.datagrams = s.datagrams + 1 /\ t.received = s.received /\ t.sent = s.sent
      /\ t.status = s.status /\ t.prologue = s.prologue /\ t.keys = s.keys /\ t.index = s.index /\ t.re = s.re
  BY <1>3, DatagramOpened
<1>5. s.sent \in Nat /\ s.datagrams \in Nat /\ s.received \in Nat /\ s.index = 3 BY <1>3,
      OpenedFields
<1>6. f.key = s.keys[1].udpSend /\ f.n = s.datagrams BY DEF Said, Piece
<1> HIDE DEF t, f
<1>8. SentBy(t, f) BY <1>3, <1>4, <1>5, <1>6 DEF SentBy
<1>9. /\ Unique(sealed \cup {f})
      /\ x = Initiator => Accounted(session, t, end[Responder], sealed \cup {f})
      /\ x = Responder => Accounted(session, end[Initiator], t, sealed \cup {f})
  <2>1. t.sent \in Nat /\ t.datagrams \in Nat /\ t.sent >= s.sent /\ t.datagrams >= s.datagrams BY <1>4,
        <1>5
  <2> QED BY <1>3, <1>4, <1>6, <1>8, <2>1, AccountedAdds
<1>11. CASE x = Initiator
  <2>1. end'[Initiator] = t /\ end'[Responder] = r /\ end' = [y \in Roles |-> end'[y]]
    BY <1>2, <1>11, TheRoles DEF SecureIInv
  <2>3. Half(k, i, r, wi, wr) => Half(k, t, r, wi, wr)
    BY <1>4, <1>11 DEF Half
  <2>4. Settled(k, i, r, wi, wr) => Settled(k, t, r, wi, wr)
    BY <1>4, <1>11 DEF Settled
  <2>5. Stage(k, t, r, wi, wr)
    BY <1>1, <1>5, <1>11, <2>3, <2>4, NewFields, DialledFields DEF Stage, Unsaid, Dialled,
          Answered
  <2> QED BY <1>1, <1>2, <1>9, <1>11, <2>1, <2>5 DEF SecureIInv
<1>12. CASE x = Responder
  <2>1. end'[Responder] = t /\ end'[Initiator] = i /\ end' = [y \in Roles |-> end'[y]]
    BY <1>2, <1>12, TheRoles DEF SecureIInv
  <2>4. Settled(k, i, r, wi, wr) => Settled(k, i, t, wi, wr)
    BY <1>4, <1>12 DEF Settled
  <2>5. Stage(k, i, t, wi, wr)
    BY <1>1, <1>5, <1>12, <2>4, NewFields, AnsweredFields DEF Stage, Unsaid, Dialled,
          Answered, Half
  <2> QED BY <1>1, <1>2, <1>9, <1>12, <2>1, <2>5 DEF SecureIInv
<1> QED BY <1>11, <1>12, TheRoles

(* A frame that opens carries a number its sender has used. *)

-----------------------------------------------------------------------------
(* An end reads a frame: it opens only if it is the one the other end sealed   *)
(* with the number the reader is at, so that one was sent.                    *)

LEMMA FrameCounts ==
    ASSUME NEW k, NEW x, NEW n \in Nat, NEW w \in Seq(Frames(k, x, n)), w # <<>>,
           NEW key, NEW j, Opens(Head(Head(w)), key, j, <<>>)
    PROVE j \in Nat /\ j < n /\ Tail(w) \in Seq(Frames(k, x, n))
<1> DEFINE S == Frames(k, x, n)
<1>1. Head(w) \in S /\ Tail(w) \in Seq(S)
  <2>1. w \in Seq(S) OBVIOUS
  <2> HIDE DEF S
  <2> QED BY <2>1, HeadTailProperties
<1>2. PICK l \in 0..(n - 1), d \in Data : \E f \in Spoilt(Said(Split(x, Mixed3(k)).send, l,
      d)) : Head(w) = One(f)
  BY <1>1 DEF Frames
<1>3. PICK f \in Spoilt(Said(Split(x, Mixed3(k)).send, l, d)) : Head(w) = One(f)
  BY <1>2
<1>4. Head(Head(w)) = f BY <1>3, HeadTail1 DEF First
<1>5. j = l BY <1>4, PieceIs DEF Said
<1> QED BY <1>1, <1>5

LEMMA StepUnsealFrame == ASSUME SecureIInv, NEW x \in Roles, UnsealFrame(x) PROVE SecureIInv'
<1> DEFINE k == session
           i == end[Initiator]
           r == end[Responder]
           wi == wire[Initiator]
           wr == wire[Responder]
           s == end[x]
           t == [s EXCEPT !.received = @ + 1]
           opens == Opens(Head(Head(wire[Other(x)])), s.keys[1].recv, s.received, <<>>)
<1>1. /\ k \in Nat /\ Accounted(k, i, r, sealed) /\ Unique(sealed) /\ Stage(k, i, r, wi, wr)
  BY DEF SecureIInv
<1>2. /\ s.status = "open" /\ wire[Other(x)] # <<>>
      /\ wire' = [wire EXCEPT ![Other(x)] = Tail(wire[Other(x)])] /\ UNCHANGED <<sealed,
            session>>
      /\ opens => end' = [end EXCEPT ![x] = t]
      /\ ~opens => end' = [end EXCEPT ![x] = Closed(s)]
  BY DEF UnsealFrame
<1>3. s.keys # <<>> /\ HasOpened(k, x, s) BY <1>1, <1>2, OpenEnds, TheRoles
<1>4. /\ HasOpened(k, x,
          t) /\ t.received = s.received + 1 /\ t.datagrams = s.datagrams /\ t.sent = s.sent
      /\ t.status = s.status /\ t.prologue = s.prologue /\ t.keys = s.keys /\ t.index = s.index /\ t.re = s.re
  BY <1>3, ReceivedOpened
<1>5. s.received \in Nat /\ s.index = 3 BY <1>3, OpenedFields
<1>6. CASE ~opens BY <1>2, <1>6, StageFails
<1>7. CASE opens
  <2> HIDE DEF t
  <2>1. end' = [end EXCEPT ![x] = t] BY <1>2, <1>7
  <2>2. ClosedSame(s, t) BY <1>4 DEF ClosedSame
  <2>3. CASE x = Initiator
    <3>1. /\ end'[Initiator] = t /\ end'[Responder] = r /\ end' = [y \in Roles |-> end'[y]]
          /\ wire'[Responder] = Tail(wr) /\ wire'[Initiator] = wi /\ wire' = [y \in Roles |-> wire'[y]]
      BY <1>2, <2>1, <2>3, TheRoles DEF SecureIInv
    <3>2. wr # <<>> /\ wr # Nil /\ Opens(Head(Head(wr)), s.keys[1].recv, s.received,
          <<>>) BY <1>2, <1>7, <2>3, TheRoles DEF Nil
    <3>3. Settled(k, i, r, wi, wr)
      BY <1>1, <1>5, <2>3, <3>2, NewFields, DialledFields DEF Stage, Unsaid, Dialled,
            Answered, Half
    <3>4. wr \in Seq(Frames(k, Responder, r.sent)) /\ r.sent \in Nat BY <1>2, <2>3, <3>3,
          OpenedFields DEF Settled
    <3>5. s.received < r.sent /\ Tail(wr) \in Seq(Frames(k, Responder, r.sent)) BY <3>2, <3>4,
          FrameCounts
    <3>6. t.received <= r.sent BY <1>4, <1>5, <3>4, <3>5
    <3>7. Settled(k, t, r, wi, Tail(wr)) BY <1>4, <2>3, <3>3, <3>5, <3>6 DEF Settled
    <3>8. Accounted(k, t, r, sealed) BY <1>1, <2>2, <2>3, AccountedSame, SameSame
    <3> QED BY <1>1, <1>2, <3>1, <3>7, <3>8 DEF SecureIInv, Stage
  <2>4. CASE x = Responder
    <3>1. /\ end'[Responder] = t /\ end'[Initiator] = i /\ end' = [y \in Roles |-> end'[y]]
          /\ wire'[Initiator] = Tail(wi) /\ wire'[Responder] = wr /\ wire' = [y \in Roles |-> wire'[y]]
      BY <1>2, <2>1, <2>4, TheRoles DEF SecureIInv
    <3>2. wi # <<>> /\ Opens(Head(Head(wi)), s.keys[1].recv, s.received, <<>>) BY <1>2, <1>7,
          <2>4, TheRoles
    <3>3. Settled(k, i, r, wi, wr)
      BY <1>1, <1>5, <2>4, NewFields, AnsweredFields DEF Stage, Unsaid, Dialled, Answered, Half
    <3>4. wi \in Seq(Frames(k, Initiator, i.sent)) /\ i.sent \in Nat BY <1>2, <2>4, <3>3,
          OpenedFields DEF Settled
    <3>5. s.received < i.sent /\ Tail(wi) \in Seq(Frames(k, Initiator, i.sent)) BY <3>2, <3>4,
          FrameCounts
    <3>6. t.received <= i.sent BY <1>4, <1>5, <3>4, <3>5
    <3>7. Settled(k, i, t, Tail(wi), wr) BY <1>4, <2>4, <3>3, <3>5, <3>6 DEF Settled
    <3>8. Accounted(k, i, t, sealed) BY <1>1, <2>2, <2>4, AccountedSame, SameSame
    <3> QED BY <1>1, <1>2, <3>1, <3>7, <3>8 DEF SecureIInv, Stage
  <2> QED BY <2>3, <2>4, TheRoles
<1> QED BY <1>6, <1>7

-----------------------------------------------------------------------------
(* A message is damaged on its way: it stays one of the forms its stage allows. *)

Hurt(piece) == IF IsClear(piece) THEN Clear(Garbage) ELSE Spoiled(piece)
HurtMessage(m, b) == [m EXCEPT ![b] = Hurt(m[b])]
HurtWire(w, a, b) == [w EXCEPT ![a] = HurtMessage(w[a], b)]

LEMMA HurtSealed ==
    ASSUME NEW key, NEW n, NEW ad, NEW plain, key.ck # <<>>, NEW c \in Spoilt(Piece(key, n,
          ad, plain))
    PROVE Hurt(c) \in Spoilt(Piece(key, n, ad, plain))
<1>1. c.key = key BY DEF Spoilt, Spoiled, Piece
<1>2. Hurt(c) = Spoiled(c) BY <1>1 DEF Hurt, IsClear, NoSecrets
<1>3. Spoiled(c) = Spoiled(Piece(key, n, ad, plain)) BY DEF Spoilt, Spoiled, Piece
<1> QED BY <1>2, <1>3 DEF Spoilt

LEMMA HurtClear == ASSUME NEW plain PROVE Hurt(Clear(plain)) = Clear(Garbage)
BY DEF Hurt, IsClear, Clear, Piece, HandshakeKey, Key

LEMMA HurtOne == ASSUME NEW m,
      NEW n PROVE DOMAIN One(m) = {1} /\ One(m)[1] = m /\ [One(m) EXCEPT ![1] = n] = One(n)
BY DEF One

LEMMA HurtGreeting ==
    ASSUME NEW k, NEW m \in Greetings(k), NEW b \in DOMAIN m, m[b] # Clear(Payload)
    PROVE HurtMessage(m, b) \in Greetings(k)
<1>1. PICK e \in {EI(k), Garbage} : m = Two(Clear(e), Clear(Payload)) BY DEF Greetings
<1>2. b = 1 /\ m[1] = Clear(e) BY <1>1 DEF Two
<1>3. HurtMessage(m, b) = [m EXCEPT ![1] = Clear(Garbage)] BY <1>2, HurtClear DEF HurtMessage
<1>4. HurtMessage(m, b) = Two(Clear(Garbage), Clear(Payload)) BY <1>1, <1>3 DEF Two
<1> QED BY <1>4 DEF Greetings

LEMMA HurtPieces ==
    ASSUME NEW p, NEW e, NEW k
    PROVE /\ \A c \in Spoilt(PieceA(p, e, k)) : Hurt(c) \in Spoilt(PieceA(p, e, k))
          /\ \A c \in Spoilt(PieceB(p, e, k)) : Hurt(c) \in Spoilt(PieceB(p, e, k))
          /\ \A c \in Spoilt(PieceC(p, k)) : Hurt(c) \in Spoilt(PieceC(p, k))
          /\ \A c \in Spoilt(PieceD(p, k)) : Hurt(c) \in Spoilt(PieceD(p, k))
<1>1. Mixed1(e, k) # <<>> /\ Mixed2(e, k) # <<>> /\ Mixed3(k) # <<>> BY MixedFirst DEF Nil
<1>2. Mixed2(EI(k), k) # <<>> BY MixedFirst DEF Nil
<1>3. ASSUME NEW ck, ck # <<>> PROVE HandshakeKey(ck).ck # <<>> BY <1>3, HandshakeKeys
<1> QED BY <1>1, <1>2, <1>3, HurtSealed DEF PieceA, PieceB, PieceC, PieceD

LEMMA HurtAnswer ==
    ASSUME NEW k, NEW p, NEW e, NEW m \in Answers(k, p, e), NEW b \in DOMAIN m
    PROVE HurtMessage(m, b) \in Answers(k, p, e)
<1>1. PICK y \in {ER(k), Garbage}, c \in Spoilt(PieceA(p, e, k)), d \in Spoilt(PieceB(p, e,
      k)) :
         m = Three(Clear(y), c, d)
  BY DEF Answers
<1>2. b \in {1, 2, 3} /\ m[1] = Clear(y) /\ m[2] = c /\ m[3] = d BY <1>1 DEF Three
<1>3. ASSUME NEW h PROVE /\ [Three(Clear(y), c, d) EXCEPT ![1] = h] = Three(h, c, d)
                         /\ [Three(Clear(y), c, d) EXCEPT ![2] = h] = Three(Clear(y), h, d)
                         /\ [Three(Clear(y), c, d) EXCEPT ![3] = h] = Three(Clear(y), c, h)
  BY DEF Three
<1>4. \/ HurtMessage(m, b) = Three(Clear(Garbage), c, d)
      \/ HurtMessage(m, b) = Three(Clear(y), Hurt(c), d)
      \/ HurtMessage(m, b) = Three(Clear(y), c, Hurt(d))
  BY <1>1, <1>2, <1>3, HurtClear DEF HurtMessage
<1>5. Hurt(c) \in Spoilt(PieceA(p, e, k)) /\ Hurt(d) \in Spoilt(PieceB(p, e, k)) BY HurtPieces
<1> QED BY <1>4, <1>5 DEF Answers

LEMMA HurtFinal ==
    ASSUME NEW k, NEW p, NEW m \in Finals(k, p), NEW b \in DOMAIN m
    PROVE HurtMessage(m, b) \in Finals(k, p)
<1>1. PICK c \in Spoilt(PieceC(p, k)), d \in Spoilt(PieceD(p, k)) : m = Two(c, d)
  BY DEF Finals
<1>2. b \in {1, 2} /\ m[1] = c /\ m[2] = d BY <1>1 DEF Two
<1>3. ASSUME NEW h PROVE [Two(c, d) EXCEPT ![1] = h] = Two(h, d) /\ [Two(c,
      d) EXCEPT ![2] = h] = Two(c, h)
  BY DEF Two
<1>4. HurtMessage(m, b) = Two(Hurt(c), d) \/ HurtMessage(m, b) = Two(c, Hurt(d))
  BY <1>1, <1>2, <1>3 DEF HurtMessage
<1>5. Hurt(c) \in Spoilt(PieceC(p, k)) /\ Hurt(d) \in Spoilt(PieceD(p, k)) BY HurtPieces
<1> QED BY <1>4, <1>5 DEF Finals

LEMMA HurtFrame ==
    ASSUME NEW k, NEW x \in Roles, NEW n, NEW m \in Frames(k, x, n), NEW b \in DOMAIN m
    PROVE HurtMessage(m, b) \in Frames(k, x, n)
<1> DEFINE key == Split(x, Mixed3(k)).send
<1>1. PICK l \in 0..(n - 1), d \in Data : \E f \in Spoilt(Said(key, l, d)) : m = One(f)
  BY DEF Frames
<1>2. PICK f \in Spoilt(Said(key, l, d)) : m = One(f) BY <1>1
<1>3. HurtMessage(m, b) = One(Hurt(f)) BY <1>2, HurtOne DEF HurtMessage
<1>4. key.ck # <<>>
  <2>1. key.ck = Mixed3(k) BY SplitKeys, KeyFields, TheRoles
  <2>2. Mixed3(k) # <<>> BY MixedFirst DEF Nil
  <2> QED BY <2>1, <2>2
<1> HIDE DEF key
<1>5. Hurt(f) \in Spoilt(Said(key, l, d)) BY <1>4, HurtSealed DEF Said
<1> QED BY <1>3, <1>5 DEF Frames, key

LEMMA HurtFrames ==
    ASSUME NEW k, NEW x \in Roles, NEW n, NEW w \in Seq(Frames(k, x, n)), NEW a \in DOMAIN w,
          NEW b \in DOMAIN w[a]
    PROVE HurtWire(w, a, b) \in Seq(Frames(k, x, n))
<1> DEFINE S == Frames(k, x, n)
<1>1. w[a] \in S BY ElementOfSeq
<1>2. HurtMessage(w[a], b) \in S BY <1>1, HurtFrame
<1> HIDE DEF S
<1> QED BY <1>2, ExceptSeq DEF S, HurtWire

LEMMA HurtInitiator ==
    ASSUME NEW k, NEW i, NEW r, NEW wi, NEW wr, Stage(k, i, r, wi, wr),
           NEW a \in DOMAIN wi, NEW b \in DOMAIN wi[a], wi[a][b] # Clear(Payload)
    PROVE Stage(k, i, r, HurtWire(wi, a, b), wr)
<1>0. wi # Nil BY DEF Nil
<1>1. ~Unsaid(k, i, r, wi, wr) /\ ~Answered(k, i, r, wi, wr) BY <1>0 DEF Unsaid, Answered
<1>2. CASE Dialled(k, i, r, wi, wr)
  <2>1. CASE r.status = "closed" BY <1>2, <2>1 DEF Dialled, Stage
  <2>2. CASE r.status # "closed"
    <3>1. PICK m \in Greetings(k) : wi = One(m) BY <1>2, <2>2 DEF Dialled
    <3>2. a = 1 /\ wi[a] = m BY <3>1, HurtOne
    <3>3. HurtWire(wi, a, b) = One(HurtMessage(m, b)) BY <3>1, <3>2, HurtOne DEF HurtWire
    <3>4. HurtMessage(m, b) \in Greetings(k) BY <3>2, HurtGreeting
    <3> QED BY <1>2, <3>3, <3>4 DEF Dialled, Stage
  <2> QED BY <2>1, <2>2
<1>3. CASE Half(k, i, r, wi, wr)
  <2>1. CASE r.status = "closed" BY <1>3, <2>1 DEF Half, Stage
  <2>2. CASE r.status # "closed"
    <3> DEFINE M == Finals(k, r.prologue)
               F == Frames(k, Initiator, i.sent)
               S == M \cup F
               w == HurtWire(wi, a, b)
               h == HurtMessage(wi[a], b)
    <3>1. wi \in Seq(S) /\ wi # <<>> /\ wi[1] \in M /\ \A j \in 2..Len(wi) : wi[j] \in F
      BY <1>3, <2>2 DEF Half
    <3>2. a \in 1..Len(wi) /\ Len(wi) \in Nat
      <4> HIDE DEF S
      <4> QED BY <3>1, LenProperties
    <3>3. (a = 1 => h \in M) /\ (a # 1 => h \in F)
      <4>1. CASE a = 1 BY <4>1, <3>1, HurtFinal
      <4>2. CASE a # 1
        <5>1. a \in 2..Len(wi) BY <4>2, <3>2
        <5>2. wi[a] \in F BY <5>1, <3>1
        <5> QED BY <4>2, <5>2, HurtFrame, TheRoles
      <4> QED BY <4>1, <4>2
    <3> HIDE DEF M, F
    <3>4. w = [wi EXCEPT ![a] = h] BY DEF HurtWire
    <3> HIDE DEF h, w
    <3>5. w \in Seq(S) /\ Len(w) = Len(wi) /\ \A j \in 1..Len(wi) : w[j] = IF j = a THEN h ELSE wi[j]
      <4>1. h \in S BY <3>3
      <4> HIDE DEF S
      <4> QED BY <3>1, <3>2, <3>4, <4>1, ExceptSeq
    <3>6. w # <<>> /\ 1 \in 1..Len(wi)
      <4>1. Len(wi) # 0 BY <3>1, <3>2
      <4> QED BY <4>1, <3>2, <3>5
    <3>7. w[1] \in M /\ \A j \in 2..Len(w) : w[j] \in F
      <4>1. w[1] \in M BY <3>1, <3>3, <3>5, <3>6
      <4>2. ASSUME NEW j \in 2..Len(w) PROVE w[j] \in F
        <5>1. j \in 1..Len(wi) /\ j # 1 /\ j \in 2..Len(wi) BY <3>2, <3>5
        <5> QED BY <5>1, <3>1, <3>3, <3>5
      <4> QED BY <4>1, <4>2
    <3>8. Half(k, i, r, w, wr)
      BY <1>3, <3>5, <3>6, <3>7 DEF Half, M, F
    <3> QED BY <3>8 DEF Stage, w
  <2> QED BY <2>1, <2>2
<1>4. CASE Settled(k, i, r, wi, wr)
  <2>1. r.status = "closed" \/ HurtWire(wi, a, b) \in Seq(Frames(k, Initiator, i.sent))
    BY <1>4, HurtFrames, TheRoles DEF Settled
  <2>2. Settled(k, i, r, HurtWire(wi, a, b), wr) BY <1>4, <2>1 DEF Settled
  <2> QED BY <2>2 DEF Stage
<1> QED BY <1>1, <1>2, <1>3, <1>4 DEF Stage

LEMMA HurtResponder ==
    ASSUME NEW k, NEW i, NEW r, NEW wi, NEW wr, Stage(k, i, r, wi, wr),
           NEW a \in DOMAIN wr, NEW b \in DOMAIN wr[a]
    PROVE Stage(k, i, r, wi, HurtWire(wr, a, b))
<1>0. wr # Nil BY DEF Nil
<1>1. ~Unsaid(k, i, r, wi, wr) /\ ~Dialled(k, i, r, wi, wr) /\ ~Half(k, i, r, wi, wr)
  BY <1>0 DEF Unsaid, Dialled, Half
<1>2. CASE Answered(k, i, r, wi, wr)
  <2>0. PICK e \in {EI(k), Garbage} :
        /\ HasDialled(k, i) /\ HasAnswered(k, r, e) /\ wi = Nil
        /\ i.status = "closed" \/ \E m \in Answers(k, r.prologue, e) : wr = One(m)
    BY <1>2 DEF Answered
  <2>1. CASE i.status = "closed" BY <2>0, <2>1 DEF Answered, Stage
  <2>2. CASE i.status # "closed"
    <3>1. PICK m \in Answers(k, r.prologue, e) : wr = One(m) BY <2>0, <2>2
    <3>2. a = 1 /\ wr[a] = m BY <3>1, HurtOne
    <3>3. HurtWire(wr, a, b) = One(HurtMessage(m, b)) BY <3>1, <3>2, HurtOne DEF HurtWire
    <3>4. HurtMessage(m, b) \in Answers(k, r.prologue, e) BY <3>2, HurtAnswer
    <3> QED BY <2>0, <3>3, <3>4 DEF Answered, Stage
  <2> QED BY <2>1, <2>2
<1>4. CASE Settled(k, i, r, wi, wr)
  <2>1. i.status = "closed" \/ HurtWire(wr, a, b) \in Seq(Frames(k, Responder, r.sent))
    BY <1>4, HurtFrames, TheRoles DEF Settled
  <2>2. Settled(k, i, r, wi, HurtWire(wr, a, b)) BY <1>4, <2>1 DEF Settled
  <2> QED BY <2>2 DEF Stage
<1> QED BY <1>1, <1>2, <1>4 DEF Stage

LEMMA StepDamage == ASSUME SecureIInv, NEW x \in Roles, Damage(x) PROVE SecureIInv'
<1> DEFINE k == session
           i == end[Initiator]
           r == end[Responder]
           wi == wire[Initiator]
           wr == wire[Responder]
<1>1. /\ k \in Nat /\ Accounted(k, i, r, sealed) /\ Unique(sealed) /\ Stage(k, i, r, wi, wr)
  BY DEF SecureIInv
<1>12. PICK a \in DOMAIN wire[x] : \E b \in DOMAIN wire[x][a] :
         /\ wire[x][a][b] # Clear(Payload)
         /\ wire' = [wire EXCEPT ![x][a][b] = IF IsClear(@) THEN Clear(Garbage) ELSE [@ EXCEPT !.intact = FALSE]]
  BY DEF Damage
<1>2. PICK b \in DOMAIN wire[x][a] :
         /\ wire[x][a][b] # Clear(Payload)
         /\ wire' = [wire EXCEPT ![x][a][b] = IF IsClear(@) THEN Clear(Garbage) ELSE [@ EXCEPT !.intact = FALSE]]
  BY <1>12
<1>3. end' = end /\ session' = session /\ sealed' = sealed BY DEF Damage
<1>4. wire' = [wire EXCEPT ![x] = HurtWire(wire[x], a, b)]
  BY <1>2 DEF HurtWire, HurtMessage, Hurt, Spoiled
<1>5. CASE x = Initiator
  <2>1. wire'[Initiator] = HurtWire(wi, a,
        b) /\ wire'[Responder] = wr /\ wire' = [y \in Roles |-> wire'[y]]
    BY <1>4, <1>5, TheRoles DEF SecureIInv
  <2>2. Stage(k, i, r, HurtWire(wi, a, b), wr) BY <1>1, <1>2, <1>5, HurtInitiator
  <2> QED BY <1>1, <1>3, <2>1, <2>2 DEF SecureIInv
<1>6. CASE x = Responder
  <2>1. wire'[Responder] = HurtWire(wr, a,
        b) /\ wire'[Initiator] = wi /\ wire' = [y \in Roles |-> wire'[y]]
    BY <1>4, <1>6, TheRoles DEF SecureIInv
  <2>2. Stage(k, i, r, wi, HurtWire(wr, a, b)) BY <1>1, <1>2, <1>6, HurtResponder
  <2> QED BY <1>1, <1>3, <2>1, <2>2 DEF SecureIInv
<1> QED BY <1>5, <1>6, TheRoles

-----------------------------------------------------------------------------
(* All steps together, and what follows from the invariant.                    *)

LEMMA SecureSteps == SecureIInv /\ [SecureNext]_secureVars => SecureIInv'
<1> SUFFICES ASSUME SecureIInv, [SecureNext]_secureVars PROVE SecureIInv' OBVIOUS
<1>1. CASE \E x \in Roles : OpenHandshake(x) BY <1>1, StepOpenHandshake
<1>2. CASE \E x \in Roles : ReadHandshake(x) BY <1>2, StepReadHandshake
<1>3. CASE \E x \in Roles : \E data \in Data : SealFrame(x, data) BY <1>3, StepSealFrame
<1>4. CASE \E x \in Roles : \E data \in Data : SealDatagram(x, data) BY <1>4, StepSealDatagram
<1>5. CASE \E x \in Roles : UnsealFrame(x) BY <1>5, StepUnsealFrame
<1>6. CASE \E x \in Roles : Close(x) BY <1>6, StepClose
<1>7. CASE \E x \in Roles : Damage(x) BY <1>7, StepDamage
<1>8. CASE Reconnect BY <1>8, StepReconnect
<1>9. CASE UNCHANGED secureVars
  BY <1>9 DEF secureVars, SecureIInv
<1> QED BY <1>1, <1>2, <1>3, <1>4, <1>5, <1>6, <1>7, <1>8, <1>9 DEF SecureNext

LEMMA SecureIsAuthentic == SecureIInv => Authentic
<1> SUFFICES ASSUME SecureIInv PROVE Authentic OBVIOUS
<1> DEFINE k == session
           i == end[Initiator]
           r == end[Responder]
           wi == wire[Initiator]
           wr == wire[Responder]
<1>1. Stage(k, i, r, wi, wr) BY DEF SecureIInv
<1>2. /\ i.keys # <<>> => HasOpened(k, Initiator, i)
      /\ r.keys # <<>> => HasOpened(k, Responder, r)
  BY <1>1, OpenEnds
<1>3. i.keys # <<>> => Half(k, i, r, wi, wr) \/ Settled(k, i, r, wi, wr)
  BY <1>1, NewFields, DialledFields DEF Stage, Unsaid, Dialled, Answered, Nil
<1>4. r.keys # <<>> => Settled(k, i, r, wi, wr)
  BY <1>1, NewFields, AnsweredFields DEF Stage, Unsaid, Dialled, Answered, Half, Nil
<1>5. i.keys # <<>> =>
         /\ i.rs = Static(Responder) /\ i.prologue = r.prologue /\ i.h = Heard3(i.prologue, k)
         /\ i.keys[1] = Split(Initiator, Mixed3(k))
  BY <1>2, <1>3, OpenedFields, TheRoles DEF Half, Settled
<1>6. i.keys # <<>> => i.received <= r.sent
  BY <1>3, AnsweredFields DEF Half, Settled
<1>7. r.keys # <<>> =>
         /\ r.rs = Static(Initiator) /\ r.prologue = i.prologue /\ r.h = Heard3(r.prologue, k)
         /\ r.keys[1] = Split(Responder, Mixed3(k)) /\ r.received <= i.sent
  BY <1>2, <1>4, OpenedFields, TheRoles DEF Settled
<1>8. /\ Split(Initiator, Mixed3(k)).send = Split(Responder, Mixed3(k)).recv
      /\ Split(Initiator, Mixed3(k)).udpSend = Split(Responder, Mixed3(k)).udpRecv
      /\ Split(Responder, Mixed3(k)).send = Split(Initiator, Mixed3(k)).recv
      /\ Split(Responder, Mixed3(k)).udpSend = Split(Initiator, Mixed3(k)).udpRecv
  BY SplitKeys
<1>9. ASSUME i.keys # <<>>, r.keys # <<>>
      PROVE /\ i.h = r.h /\ i.keys[1].send = r.keys[1].recv /\ i.keys[1].udpSend = r.keys[1].udpRecv
            /\ r.keys[1].send = i.keys[1].recv /\ r.keys[1].udpSend = i.keys[1].udpRecv
  BY <1>5, <1>7, <1>8, <1>9
<1> QED BY <1>5, <1>6, <1>7, <1>9, TheRoles DEF Authentic

(* In every behaviour the ends and the wire are in a stage of this session     *)
(* and everything sealed is accounted for (open, read_handshake, seal, unseal, *)
(* seal_datagram, whatever is lost, damaged or closed in between).           *)
THEOREM SecureInvariance == SecureSpec => []SecureIInv
<1>1. SecureInit => SecureIInv
  BY SecureStarts
<1>2. SecureIInv /\ [SecureNext]_secureVars => SecureIInv'
  BY SecureSteps
<1> QED
  BY <1>1, <1>2, PTL DEF SecureSpec

(* An established end has authenticated the other, was configured alike and    *)
(* agrees with it on the transcript and on all four keys; it receives no more *)
(* than was sent, for any number of sessions and of damaged messages         *)
(* (read_handshake, mesh_prologue, split).                                   *)
THEOREM SecureAuthentic == SecureSpec => []Authentic
<1>1. SecureIInv => Authentic
  BY SecureIsAuthentic
<1> QED
  BY SecureInvariance, <1>1, PTL

(* No key ever seals two things under one number, in the handshake, on the     *)
(* stream or for datagrams, and no key of one session is one of another       *)
(* (build_nonce, init_key, split).                                           *)
THEOREM SecureNeverReused == SecureSpec => []NeverReused
<1>1. SecureIInv => NeverReused
  BY DEF SecureIInv, Unique, NeverReused
<1> QED
  BY SecureInvariance, <1>1, PTL
=============================================================================
