--------------------------- MODULE MeshLinkProofs ---------------------------
(***************************************************************************)
(* What every interface on MeshLink may rely on, whatever words M its       *)
(* streams carry: they stay streams of words and ends, a send only adds to  *)
(* them, and losing a peer touches no other connection.  And some facts    *)
(* about the sequences and sets the interfaces keep.                       *)
(***************************************************************************)
EXTENDS MeshLink, FiniteSetsExt, SequencesExt, Functions,
        SequenceTheorems, WellFoundedInduction, TLAPS

Streams(w, M) == w \in [Pairs -> Seq(M \cup {Eof})]

Envelopes(p, M) == [from : Peers \ {p}, msg : M]

LinkTyped(M) ==
    /\ up \subseteq Pairs /\ accepting \subseteq Pairs
    /\ Streams(wire, M)
    /\ DOMAIN late = Peers
    /\ \A p \in Peers : late[p] \in Seq(Envelopes(p, M))

-----------------------------------------------------------------------------
(* Sequences and sets.                                                     *)

(* A set of numbers has a smallest one.                                      *)
LEMMA LeastOf ==
    ASSUME NEW S \in SUBSET Nat, S # {}
    PROVE  \E x \in S : \A y \in S : x =< y
<1> DEFINE R == {ss \in Nat \X Nat : ss[1] < ss[2]}
<1>1. IsWellFoundedOn(R, Nat)
    BY NatLessThanWellFounded DEF OpToRel
<1>2. \E x \in S : \A y \in S : ~ (<<y, x>> \in R)
    <2> HIDE DEF R
    <2> QED
        BY <1>1, WFMin
<1>3. PICK x \in S : \A y \in S : ~ (<<y, x>> \in R)
    BY <1>2
<1>4. ASSUME NEW y \in S
      PROVE  x =< y
    <2>1. y < x => <<y, x>> \in R
        OBVIOUS
    <2> HIDE DEF R
    <2> QED
        BY <1>3, <2>1
<1> QED
    BY <1>4

LEMMA MinOf ==
    ASSUME NEW S \in SUBSET Nat, S # {}
    PROVE  Min(S) \in S
    BY LeastOf DEF Min

LEMMA InsertKeeps ==
    ASSUME NEW M, NEW s \in Seq(M), NEW i \in 0 .. Len(s), NEW e \in M
    PROVE  /\ InsertAt(s, i + 1, e) \in Seq(M)
           /\ e \in Range(InsertAt(s, i + 1, e))
<1> DEFINE before == SubSeq(s, 1, i)
           after == SubSeq(s, i + 1, Len(s))
           longer == before \o <<e>> \o after
<1>1. before \in Seq(M) /\ Len(before) = i
    OBVIOUS
<1>2. after \in Seq(M)
    OBVIOUS
<1>3. InsertAt(s, i + 1, e) = longer
    <2>1. (i + 1) - 1 = i
        OBVIOUS
    <2> QED
        BY <2>1 DEF InsertAt
<1> HIDE DEF before, after
<1>4. /\ before \o <<e>> \in Seq(M) /\ Len(before \o <<e>>) = i + 1
      /\ (before \o <<e>>)[i + 1] = e
    BY <1>1
<1>5. longer \in Seq(M) /\ i + 1 \in 1 .. Len(longer) /\ longer[i + 1] = e
    BY <1>2, <1>4, ConcatProperties, LenProperties
<1> HIDE DEF longer
<1> QED
    BY <1>3, <1>5, LenProperties DEF Range

LEMMA RemoveKeepsOthers ==
    ASSUME NEW M, NEW s \in Seq(M), NEW i \in DOMAIN s
    PROVE  /\ RemoveAt(s, i) \in Seq(M)
           /\ \A j \in DOMAIN s : j # i => s[j] \in Range(RemoveAt(s, i))
<1> DEFINE before == SubSeq(s, 1, i - 1)
           after == SubSeq(s, i + 1, Len(s))
           rest == before \o after
<1>1. i \in 1 .. Len(s) /\ Len(s) \in Nat /\ DOMAIN s = 1 .. Len(s)
    BY LenProperties
<1>2. /\ before \in Seq(M) /\ Len(before) = i - 1
      /\ \A k \in 1 .. i - 1 : before[k] = s[k]
    BY <1>1
<1>3. /\ after \in Seq(M) /\ Len(after) = Len(s) - i
      /\ \A k \in 1 .. Len(s) - i : after[k] = s[k + i]
    BY <1>1, SMTT(30)
<1> HIDE DEF before, after
<1>4. /\ rest \in Seq(M) /\ Len(rest) = Len(s) - 1
      /\ \A k \in 1 .. Len(s) - 1 : rest[k] = IF k <= i - 1 THEN before[k]
                                           ELSE after[k - (i - 1)]
    <2>1. /\ rest \in Seq(M) /\ Len(rest) = Len(before) + Len(after)
          /\ \A k \in 1 .. Len(before) + Len(after) :
               rest[k] = IF k <= Len(before) THEN before[k] ELSE after[k - Len(before)]
        BY <1>2, <1>3, ConcatProperties
    <2>2. Len(before) + Len(after) = Len(s) - 1
        BY <1>1, <1>2, <1>3
    <2> HIDE DEF rest
    <2> QED
        BY <1>2, <2>1, <2>2
<1>5. RemoveAt(s, i) = rest
    BY DEF RemoveAt, before, after
<1> HIDE DEF rest
<1>6. DOMAIN rest = 1 .. Len(s) - 1
    BY <1>4, LenProperties
<1>7. ASSUME NEW j \in DOMAIN s, j # i
      PROVE  \E k \in DOMAIN rest : rest[k] = s[j]
    <2>1. CASE j < i
        <3>1. j \in 1 .. Len(s) - 1 /\ j \in 1 .. i - 1
            BY <1>1, <2>1
        <3> QED
            BY <1>2, <1>4, <1>6, <3>1
    <2>2. CASE j > i
        <3>1. /\ j - 1 \in 1 .. Len(s) - 1 /\ ~(j - 1 <= i - 1)
              /\ j - i \in 1 .. Len(s) - i /\ (j - 1) - (i - 1) = j - i /\ (j - i) + i = j
            BY <1>1, <2>2
        <3>2. rest[j - 1] = after[j - i]
            BY <1>4, <3>1
        <3>3. after[j - i] = s[j]
            BY <1>3, <3>1
        <3> QED
            BY <1>6, <3>1, <3>2, <3>3
    <2> QED
        BY <1>1, <1>7, <2>1, <2>2
<1> QED
    BY <1>4, <1>5, <1>7 DEF Range

-----------------------------------------------------------------------------
(* Sending.                                                                *)

LEMMA PostedOK ==
    ASSUME NEW M, NEW w, Streams(w, M), NEW p, NEW q, NEW m \in M
    PROVE  /\ Streams(Posted(w, p, q, <<m>>), M)
           /\ \A pq \in Pairs : Range(w[pq]) \subseteq Range(Posted(w, p, q, <<m>>)[pq])
           /\ <<p, q>> \in Pairs /\ <<p, q>> \in up /\ Reads(q, p)
                => m \in Range(Posted(w, p, q, <<m>>)[<<p, q>>])
<1> DEFINE W == M \cup {Eof}
           x == Posted(w, p, q, <<m>>)
<1>1. CASE <<p, q>> \in Pairs /\ <<p, q>> \in up /\ Reads(q, p)
    <2> DEFINE s == w[<<p, q>>]
               t == s \o <<m>>
    <2>1. s \in Seq(W) /\ <<m>> \in Seq(W)
        BY <1>1 DEF Streams
    <2>2. t \in Seq(W)
        BY <2>1, ConcatProperties
    <2>3. x = [w EXCEPT ![<<p, q>>] = t]
        BY <1>1 DEF Posted
    <2>4. /\ Len(s) \in Nat /\ Len(t) = Len(s) + 1
          /\ DOMAIN s = 1 .. Len(s) /\ DOMAIN t = 1 .. Len(s) + 1
          /\ \A i \in 1 .. Len(s) : t[i] = s[i]
          /\ t[Len(s) + 1] = m
        BY <2>1, ConcatProperties, LenProperties
    <2> HIDE DEF s, t
    <2>5. Range(s) \subseteq Range(t) /\ m \in Range(t)
        BY <2>4 DEF Range
    <2>6. /\ \A pq \in Pairs : x[pq] = IF pq = <<p, q>> THEN t ELSE w[pq]
          /\ x \in [Pairs -> Seq(W)]
        BY <1>1, <2>2, <2>3 DEF Streams
    <2> HIDE DEF x, W
    <2>7. \A pq \in Pairs : Range(w[pq]) \subseteq Range(x[pq])
        BY <2>5, <2>6 DEF s
    <2> QED
        BY <1>1, <2>5, <2>6, <2>7 DEF Streams, x, W
<1>2. CASE ~(<<p, q>> \in Pairs /\ <<p, q>> \in up /\ Reads(q, p))
    <2>1. x = w
        BY <1>2 DEF Posted, Streams
    <2> QED
        BY <1>2, <2>1
<1> QED
    BY <1>1, <1>2

(* Several words at once.                                                    *)
LEMMA PostedSeq ==
    ASSUME NEW M, NEW w, Streams(w, M), NEW p, NEW q, NEW ms \in Seq(M)
    PROVE  /\ Streams(Posted(w, p, q, ms), M)
           /\ \A pq \in Pairs :
                Posted(w, p, q, ms)[pq] = IF pq = <<p, q>> /\ pq \in up /\ Reads(q, p)
                                          THEN w[pq] \o ms ELSE w[pq]
<1> DEFINE W == M \cup {Eof}
<1>1. CASE <<p, q>> \in Pairs /\ <<p, q>> \in up /\ Reads(q, p)
    <2> DEFINE s == w[<<p, q>>] \o ms
    <2>1. s \in Seq(W)
        <3>1. w[<<p, q>>] \in Seq(W) /\ ms \in Seq(W)
            BY <1>1 DEF Streams
        <3> QED
            BY <3>1, ConcatProperties
    <2>2. Posted(w, p, q, ms) = [w EXCEPT ![<<p, q>>] = s]
        BY <1>1 DEF Posted
    <2> HIDE DEF s
    <2>3. Posted(w, p, q, ms) \in [Pairs -> Seq(W)]
        BY <1>1, <2>1, <2>2 DEF Streams
    <2>4. \A pq \in Pairs : Posted(w, p, q, ms)[pq] = IF pq = <<p, q>> THEN s ELSE w[pq]
        BY <1>1, <2>2 DEF Streams
    <2> QED
        BY <1>1, <2>3, <2>4 DEF Streams, s
<1>2. CASE ~(<<p, q>> \in Pairs /\ <<p, q>> \in up /\ Reads(q, p))
    <2>1. Posted(w, p, q, ms) = w
        BY <1>2 DEF Posted, Streams
    <2> QED
        BY <1>2, <2>1
<1> QED
    BY <1>1, <1>2

LEMMA LinkSent ==
    ASSUME NEW M, LinkTyped(M), Streams(wire', M), UNCHANGED <<up, accepting, late>>
    PROVE  LinkTyped(M)'
    BY DEF LinkTyped, Streams

LEMMA LinkSame ==
    ASSUME NEW M, LinkTyped(M), UNCHANGED linkVars
    PROVE  LinkTyped(M)'
    BY DEF LinkTyped, Streams, linkVars

LEMMA LinkWider ==
    ASSUME NEW M, NEW N, M \subseteq N, LinkTyped(M)
    PROVE  LinkTyped(N)
<1>1. ASSUME NEW pq \in Pairs
      PROVE  wire[pq] \in Seq(N \cup {Eof})
    BY DEF LinkTyped, Streams
<1>2. Streams(wire, N)
    BY <1>1 DEF LinkTyped, Streams
<1>3. ASSUME NEW p \in Peers
      PROVE  late[p] \in Seq(Envelopes(p, N))
    <2>1. Envelopes(p, M) \subseteq Envelopes(p, N)
        BY DEF Envelopes
    <2>2. late[p] \in Seq(Envelopes(p, M))
        BY DEF LinkTyped
    <2> QED
        BY <2>1, <2>2
<1> QED
    BY <1>2, <1>3 DEF LinkTyped

-----------------------------------------------------------------------------
(* Reading.                                                                *)

(* What is read from a live stream that has not ended is a word.              *)
LEMMA ReadOK ==
    ASSUME NEW M, LinkTyped(M), NEW p \in Peers, NEW q \in Peers \ {p},
           wire[<<q, p>>] # <<>>, Head(wire[<<q, p>>]) # Eof
    PROVE  /\ Head(wire[<<q, p>>]) \in M
           /\ Streams([wire EXCEPT ![<<q, p>>] = Tail(@)], M)
           /\ \A pq \in Pairs \ {<<q, p>>} : [wire EXCEPT ![<<q, p>>] = Tail(@)][pq] = wire[pq]
           /\ Range(wire[<<q, p>>]) = {Head(wire[<<q, p>>])}
                \cup Range([wire EXCEPT ![<<q, p>>] = Tail(@)][<<q, p>>])
<1> DEFINE W == M \cup {Eof}
           s == wire[<<q, p>>]
           w == [wire EXCEPT ![<<q, p>>] = Tail(s)]
<1>1. Streams(wire, M) /\ <<q, p>> \in Pairs
    BY DEF LinkTyped, Pairs
<1>2. s \in Seq(W) /\ s # <<>>
    BY <1>1 DEF Streams
<1>3. Head(s) \in W /\ Tail(s) \in Seq(W)
    BY <1>2, HeadTailProperties
<1>4. Range(s) = {Head(s)} \cup Range(Tail(s))
    <2>1. /\ Len(s) \in Nat \ {0} /\ DOMAIN s = 1 .. Len(s) /\ Head(s) = s[1]
          /\ DOMAIN Tail(s) = 1 .. Len(s) - 1
          /\ \A i \in 1 .. Len(s) - 1 : Tail(s)[i] = s[i + 1]
        BY <1>2, <1>3, HeadTailProperties, LenProperties
    <2> HIDE DEF s
    <2>2. ASSUME NEW i \in 1 .. Len(s), i # 1
          PROVE  \E j \in 1 .. Len(s) - 1 : Tail(s)[j] = s[i]
        <3>1. i - 1 \in 1 .. Len(s) - 1 /\ (i - 1) + 1 = i
            BY <2>1, <2>2
        <3> QED
            BY <2>1, <3>1
    <2>3. ASSUME NEW i \in 1 .. Len(s) - 1
          PROVE  i + 1 \in 1 .. Len(s)
        BY <2>1
    <2>4. 1 \in 1 .. Len(s)
        BY <2>1
    <2> DEFINE t == Tail(s)
    <2> HIDE DEF t
    <2>5. Range(s) = {s[i] : i \in 1 .. Len(s)} /\ Range(t) = {t[i] : i \in 1 .. Len(s) - 1}
        BY <2>1 DEF Range, t
    <2>6. Range(s) \subseteq {Head(s)} \cup Range(t)
        BY <2>1, <2>2, <2>5 DEF t
    <2>7. {Head(s)} \cup Range(t) \subseteq Range(s)
        BY <2>1, <2>3, <2>4, <2>5 DEF t
    <2> QED
        BY <2>6, <2>7 DEF t
<1>5. w \in [Pairs -> Seq(W)] /\ w[<<q, p>>] = Tail(s)
      /\ \A pq \in Pairs \ {<<q, p>>} : w[pq] = wire[pq]
    BY <1>1, <1>3 DEF Streams
<1>6. Head(s) \in M
    BY <1>3
<1> QED
    BY <1>4, <1>5, <1>6 DEF Streams

(* What was read too late is somebody else's word; w is what is sent upon it.  *)
LEMMA ReadLateOK ==
    ASSUME NEW M, LinkTyped(M), NEW p \in Peers, late[p] # <<>>
    PROVE  Head(late[p]).from \in Peers \ {p} /\ Head(late[p]).msg \in M
<1>1. Head(late[p]) \in Envelopes(p, M)
    BY HeadTailProperties DEF LinkTyped
<1> QED
    BY <1>1 DEF Envelopes

LEMMA LateTaken ==
    ASSUME NEW M, LinkTyped(M), NEW p \in Peers, late[p] # <<>>, Streams(wire', M),
           late' = [late EXCEPT ![p] = Tail(@)], UNCHANGED <<up, accepting>>
    PROVE  LinkTyped(M)'
<1>1. Tail(late[p]) \in Seq(Envelopes(p, M))
    BY HeadTailProperties DEF LinkTyped
<1> QED
    BY <1>1 DEF LinkTyped, Streams, Envelopes

-----------------------------------------------------------------------------
(* Losing a peer.                                                          *)
(* Dropping a peer, whatever is sent to the others of it.                     *)
LEMMA DropOK ==
    ASSUME NEW M, LinkTyped(M), NEW w, Streams(w, M), NEW p \in Peers, NEW q \in Peers, NEW n \in Nat,
           DropPeer(p, q, n, w)
    PROVE  LinkTyped(M)'
<1> USE DEF LinkTyped
<1> DEFINE W == M \cup {Eof}
<1>1. <<p, q>> \in Pairs /\ <<q, p>> \in Pairs /\ p # q
    BY DEF DropPeer, Pairs
<1>2. wire[<<p, q>>] \in Seq(W) /\ wire[<<q, p>>] \in Seq(W)
    BY <1>1 DEF Streams
<1>3. up' \subseteq Pairs /\ accepting' \subseteq Pairs
    BY DEF DropPeer
<1>4. Streams(wire', M)
    <2>1. PICK kept \in 0 .. Len(wire[<<p, q>>]) :
            wire' = [w EXCEPT ![<<q, p>>] = <<>>,
                              ![<<p, q>>] = IF Reads(q, p)
                                            THEN SubSeq(wire[<<p, q>>], 1, kept) \o <<Eof>>
                                            ELSE <<>>]
        BY DEF DropPeer
    <2>2. SubSeq(wire[<<p, q>>], 1, kept) \in Seq(W)
        BY <1>2
    <2>3. <<Eof>> \in Seq(W)
        OBVIOUS
    <2>4. SubSeq(wire[<<p, q>>], 1, kept) \o <<Eof>> \in Seq(W)
        BY <2>2, <2>3, ConcatProperties
    <2> DEFINE kw == IF Reads(q, p) THEN SubSeq(wire[<<p, q>>], 1, kept) \o <<Eof>> ELSE <<>>
    <2>5. <<>> \in Seq(W)
        BY EmptySeq
    <2>6. kw \in Seq(W)
        BY <2>4, <2>5, Zenon
    <2>7. wire' = [[w EXCEPT ![<<q, p>>] = <<>>] EXCEPT ![<<p, q>>] = kw]
        BY <2>1
    <2> HIDE DEF kw
    <2> QED
        BY <2>5, <2>6, <2>7, <1>1 DEF Streams
<1>5. DOMAIN late' = Peers
    BY DEF DropPeer
<1>6. ASSUME NEW r \in Peers
      PROVE  late'[r] \in Seq(Envelopes(r, M))
    <2>1. CASE r = p
        <3> DEFINE e(i) == [from |-> q, msg |-> wire[<<q, p>>][i]]
        <3>1. ASSUME NEW i \in 1 .. n
              PROVE  e(i) \in Envelopes(p, M)
            <4>1. wire[<<q, p>>][i] \in W /\ wire[<<q, p>>][i] # Eof
                <5>1. Len(wire[<<q, p>>]) \in Nat /\ n <= Len(wire[<<q, p>>])
                    BY <1>2, LenProperties DEF DropPeer
                <5>2. i \in 1 .. Len(wire[<<q, p>>])
                    BY <5>1
                <5>3. wire[<<q, p>>][i] \in W
                    BY <1>2, <5>2, ElementOfSeq
                <5> QED
                    BY <5>3 DEF DropPeer
            <4>2. wire[<<q, p>>][i] \in M
                BY <4>1
            <4> QED
                BY <4>2, <1>1 DEF Envelopes
        <3>2. late'[p] = [i \in 1 .. n |-> e(i)]
            BY DEF DropPeer
        <3> HIDE DEF e
        <3> QED
            BY <2>1, <3>1, <3>2, IsASeq
    <2>2. CASE r # p
        BY <2>2 DEF DropPeer
    <2> QED
        BY <2>1, <2>2
<1> QED
    BY <1>3, <1>4, <1>5, <1>6

LEMMA VanishOK ==
    ASSUME NEW M, LinkTyped(M), NEW p \in Peers, Vanish(p)
    PROVE  LinkTyped(M)'
<1> USE DEF LinkTyped
<1> DEFINE W == M \cup {Eof}
           ended == {pq \in up \cup accepting : pq[1] = p /\ Reads(pq[2], p)}
<1>1. up' \subseteq Pairs /\ accepting' \subseteq Pairs
    BY DEF Vanish
<1>2. DOMAIN late' = Peers /\ \A r \in Peers : late'[r] \in Seq(Envelopes(r, M))
    BY DEF Vanish
<1>3. Streams(wire', M)
    <2>1. PICK kept \in [ended -> UNION {0 .. Len(wire[pq]) : pq \in ended}] :
            /\ \A pq \in ended : kept[pq] <= Len(wire[pq])
            /\ wire' = [pq \in Pairs |->
                          IF pq[2] = p THEN <<>>
                          ELSE IF pq \in ended THEN SubSeq(wire[pq], 1, kept[pq]) \o <<Eof>>
                          ELSE wire[pq]]
        BY DEF Vanish
    <2>2. ASSUME NEW pq \in ended
          PROVE  SubSeq(wire[pq], 1, kept[pq]) \o <<Eof>> \in Seq(W)
        <3>1. wire[pq] \in Seq(W)
            BY DEF Streams
        <3>2. PICK x \in ended : kept[pq] \in 0 .. Len(wire[x])
            BY <2>1
        <3>3. kept[pq] \in 0 .. Len(wire[pq])
            BY <2>1, <3>1, <3>2, LenProperties
        <3>4. SubSeq(wire[pq], 1, kept[pq]) \in Seq(W)
            BY <3>1, <3>3
        <3>5. <<Eof>> \in Seq(W)
            OBVIOUS
        <3> QED
            BY <3>4, <3>5, ConcatProperties
    <2>3. ASSUME NEW pq \in Pairs
          PROVE  wire'[pq] \in Seq(W)
        <3>1. <<>> \in Seq(W) /\ wire[pq] \in Seq(W)
            BY DEF Streams
        <3>2. CASE pq[2] # p /\ pq \in ended
            BY <2>1, <2>2, <3>2
        <3>3. CASE ~(pq[2] # p /\ pq \in ended)
            BY <2>1, <3>1, <3>3
        <3> QED
            BY <3>2, <3>3
    <2> QED
        BY <2>1, <2>3 DEF Streams
<1> QED
    BY <1>1, <1>2, <1>3

(* No other connection notices.                                             *)
LEMMA DropElsewhere ==
    ASSUME NEW M, NEW w, Streams(w, M), NEW p \in Peers, NEW q \in Peers, NEW n,
           DropPeer(p, q, n, w)
    PROVE  /\ up' = up \ {<<p, q>>}
           /\ \A pq \in Pairs : {pq[1], pq[2]} # {p, q} => wire'[pq] = w[pq]
    BY DEF DropPeer, Streams

LEMMA VanishElsewhere ==
    ASSUME NEW p \in Peers, Vanish(p)
    PROVE  /\ up' = {pq \in up : pq[1] # p}
           /\ \A pq \in Pairs : p \notin {pq[1], pq[2]} => wire'[pq] = wire[pq]
    BY DEF Vanish
=============================================================================
