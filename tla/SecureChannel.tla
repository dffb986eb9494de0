--------------------------- MODULE SecureChannel ---------------------------
(***************************************************************************)
(* The two ends of a connection (src/net/secure_channel.cpp and            *)
(* peer_channel.cpp): the three messages of Noise XX, the keys both draw   *)
(* from them, and the frames sealed under those.  What the cryptography    *)
(* promises is taken for granted: a hash or a derived key is the sequence  *)
(* of what was mixed into it, a secret two keys share is the set of the    *)
(* two, and what was sealed opens only under the same key, number and      *)
(* associated data, and if it arrives as it was sent.                      *)
(***************************************************************************)
EXTENDS Naturals, FiniteSets, SequencesExt

CONSTANTS
    Prologues,      \* what the two ends may be configured with
    Data,           \* what may be said in a frame or a datagram
    MaxSessions,    \* bound on the connections, one after the other
    MaxFrames,      \* bound on the frames, and on the datagrams, an end seals in one
    MaxDamage       \* bound on the messages damaged on their way

ASSUME SecureAssumption == {MaxSessions, MaxFrames, MaxDamage} \subseteq Nat

VARIABLES
    end,            \* the channel at each end of the connection
    wire,           \* wire[x]: what x sent and the other end has not read
    session,        \* which connection this is
    damage,         \* how many messages have been damaged
    sealed          \* history: everything ever sealed under a key

secureVars == <<end, wire, session, damage, sealed>>

Initiator == "i"
Responder == "r"
Roles == {Initiator, Responder}
Other(x) == IF x = Initiator THEN Responder ELSE Initiator

-----------------------------------------------------------------------------
(* Public keys and secrets.  An ephemeral is new in every session.           *)

Static(x) == [kind |-> "static", of |-> x, session |-> 0]
Ephemeral(x, n) == [kind |-> "ephemeral", of |-> x, session |-> n]
Garbage == [kind |-> "garbage", of |-> "nobody", session |-> 0]
NoKey == [kind |-> "none", of |-> "nobody", session |-> 0]
Payload == NoKey

DH(a, b) == {a, b}

(* A key: the secrets mixed into the chaining key it is derived from, and what *)
(* it is for.  Handshakes have one per secret, NoSecrets while there is none. *)
Key(ck, use, dir) == [ck |-> ck, use |-> use, dir |-> dir]
HandshakeKey(ck) == Key(ck, "handshake", 0)
NoSecrets == <<>>

(* A piece of a message: what it carries, and under what it is sealed.        *)
Piece(key, n, ad, plain) ==
    [key |-> key, n |-> n, ad |-> ad, plain |-> plain, intact |-> TRUE]
Clear(plain) == Piece(HandshakeKey(NoSecrets), 0, <<>>, plain)
IsClear(piece) == piece.key.ck = NoSecrets

WeWrite(x, index) == (x = Initiator) <=> (index % 2 = 0)

(* noise_handshake::noise_handshake                                        *)
NewEnd(prologue) ==
    [h |-> <<Clear([kind |-> "prologue", of |-> prologue, session |-> 0])>>, ck |-> NoSecrets, n |-> 0,
     re |-> NoKey, rs |-> NoKey, index |-> 0, status |-> "shaking",
     keys |-> <<>>, sent |-> 0, received |-> 0, datagrams |-> 0, prologue |-> prologue]

SecureInit ==
    /\ \E a, b \in Prologues :
         end = [x \in Roles |-> NewEnd(IF x = Initiator THEN a ELSE b)]
    /\ wire = [x \in Roles |-> <<>>]
    /\ session = 1
    /\ damage = 0
    /\ sealed = {}

-----------------------------------------------------------------------------
(* One token after the other.  With the end goes the message: what is written *)
(* so far, or what is left to read, what was read last and whether all is    *)
(* well.                                                                   *)

MixKey(s, secret) == [s EXCEPT !.ck = Append(@, secret), !.n = 0]
MixHash(s, piece) == [s EXCEPT !.h = Append(@, piece)]

(* A number of the key is used up, if there is a key.                          *)
Counted(s) == IF s.ck = NoSecrets THEN s ELSE [s EXCEPT !.n = @ + 1]

(* encrypt_and_hash; without a key, what is written goes in the clear.        *)
EncryptAndHash(w, plain) ==
    LET s == w.end
        piece == IF s.ck = NoSecrets THEN Clear(plain)
                 ELSE Piece(HandshakeKey(s.ck), s.n, s.h, plain)
    IN  [end |-> MixHash(Counted(s), piece), out |-> Append(w.out, piece)]

(* Broken: what has been said so far is not bound to what is opened.           *)
OpensUnbound(piece, key, n, ad) ==
    piece.intact /\ piece.key = key /\ piece.n = n

Opens(piece, key, n, ad) ==
    piece.intact /\ piece.key = key /\ piece.n = n /\ piece.ad = ad

(* decrypt_and_hash                                                        *)
DecryptAndHash(r) ==
    LET s == r.end
        piece == Head(r.in)
    IN  IF s.ck # NoSecrets /\ ~Opens(piece, HandshakeKey(s.ck), s.n, s.h)
        THEN [r EXCEPT !.ok = FALSE]
        ELSE [end |-> MixHash(Counted(s), piece), in |-> Tail(r.in),
              got |-> piece.plain, ok |-> TRUE]

(* The secret of a token: ours of the one kind and theirs of the other.       *)
Secret(x, s, token) ==
    LET mine(kind) == IF kind = "e" THEN Ephemeral(x, session) ELSE Static(x)
        theirs(kind) == IF kind = "e" THEN s.re ELSE s.rs
    IN  CASE token = "ee" -> DH(mine("e"), theirs("e"))
          [] token = "es" -> IF x = Initiator THEN DH(mine("e"), theirs("s"))
                                              ELSE DH(mine("s"), theirs("e"))
          [] token = "se" -> IF x = Initiator THEN DH(mine("s"), theirs("e"))
                                              ELSE DH(mine("e"), theirs("s"))

WriteToken(x, w, token) ==
    LET ours == Clear(Ephemeral(x, session))
    IN  CASE token = "e" -> [end |-> MixHash(w.end, ours), out |-> Append(w.out, ours)]
          [] token = "s" -> EncryptAndHash(w, Static(x))
          [] OTHER -> [w EXCEPT !.end = MixKey(@, Secret(x, @, token))]

ReadToken(x, r, token) ==
    CASE ~r.ok -> r
      [] r.ok /\ token = "e" ->
           [r EXCEPT !.end = [MixHash(@, Head(r.in)) EXCEPT !.re = Head(r.in).plain],
                     !.in = Tail(@)]
      [] r.ok /\ token = "s" ->
           LET opened == DecryptAndHash(r) IN [opened EXCEPT !.end.rs = opened.got]
      [] OTHER -> [r EXCEPT !.end = MixKey(@, Secret(x, @, token))]

(* xx_message: the tokens of each message.                                   *)
Pattern(index) ==
    CASE index = 0 -> <<"e">>
      [] index = 1 -> <<"e", "ee", "s", "es">>
      [] index = 2 -> <<"s", "se">>

NextMessage(s) == [s EXCEPT !.index = @ + 1]

(* write_message: one token after the other, four at most, and an empty payload *)
(* at the end.                                                             *)
WriteMessage(x, s) ==
    LET tokens == Pattern(s.index)
        do(w, i) == IF i \in DOMAIN tokens THEN WriteToken(x, w, tokens[i]) ELSE w
        begun == [end |-> s, out |-> <<>>]
    IN  EncryptAndHash(do(do(do(do(begun, 1), 2), 3), 4), Payload)

(* read_message, of a message of the size it must have.                      *)
ReadMessage(x, s, message) ==
    LET tokens == Pattern(s.index)
        do(r, i) == IF i \in DOMAIN tokens THEN ReadToken(x, r, tokens[i]) ELSE r
        begun == [end |-> s, in |-> message, got |-> NoKey, ok |-> TRUE]
        read == do(do(do(do(begun, 1), 2), 3), 4)
    IN  IF read.ok THEN DecryptAndHash(read) ELSE read

(* Broken: both ends send under the first key of each pair.                    *)
SplitAlike(x, ck) ==
    [send |-> Key(ck, "stream", 1), recv |-> Key(ck, "stream", 2),
     udpSend |-> Key(ck, "datagram", 1), udpRecv |-> Key(ck, "datagram", 2)]

(* split: two keys for the stream and, under a label of its own, two for the   *)
(* datagrams.                                                              *)
Split(x, ck) ==
    LET out == IF x = Initiator THEN 1 ELSE 2
        in == 3 - out
    IN  [send |-> Key(ck, "stream", out), recv |-> Key(ck, "stream", in),
         udpSend |-> Key(ck, "datagram", out), udpRecv |-> Key(ck, "datagram", in)]

(* The end after the message with index 2.                                   *)
Established(x, s) ==
    IF s.index = 3 THEN [s EXCEPT !.status = "open", !.keys = <<Split(x, s.ck)>>] ELSE s

Closed(s) == [s EXCEPT !.status = "closed"]

(* The pieces of a message under a key.                                      *)
Sealed(message) == {piece \in Range(message) : ~IsClear(piece)}

-----------------------------------------------------------------------------
(* The steps of an end.                                                     *)

(* peer_channel::open, of the end that dialled.                              *)
OpenHandshake(x) ==
    LET written == WriteMessage(x, end[x])
    IN  /\ x = Initiator
        /\ end[x].status = "shaking" /\ end[x].index = 0
        /\ end' = [end EXCEPT ![x] = NextMessage(written.end)]
        /\ wire' = [wire EXCEPT ![x] = Append(@, written.out)]
        /\ UNCHANGED <<session, damage, sealed>>

(* read_handshake: the message is read, answered if the pattern goes on, and   *)
(* the channel is established after the last.                               *)
ReadHandshake(x) ==
    LET s == end[x]
        read == ReadMessage(x, s, Head(wire[Other(x)]))
        next == NextMessage(read.end)
        written == WriteMessage(x, next)
    IN  /\ s.status = "shaking"
        /\ ~WeWrite(x, s.index)
        /\ wire[Other(x)] # <<>>
        /\ IF ~read.ok
           THEN /\ end' = [end EXCEPT ![x] = Closed(@)]
                /\ wire' = [wire EXCEPT ![Other(x)] = Tail(@)]
                /\ UNCHANGED sealed
           ELSE IF next.index = 3
           THEN /\ end' = [end EXCEPT ![x] = Established(x, next)]
                /\ wire' = [wire EXCEPT ![Other(x)] = Tail(@)]
                /\ UNCHANGED sealed
           ELSE /\ end' = [end EXCEPT ![x] = Established(x, NextMessage(written.end))]
                /\ wire' = [wire EXCEPT ![Other(x)] = Tail(@), ![x] = Append(@, written.out)]
                /\ sealed' = sealed \cup Sealed(written.out)
        /\ UNCHANGED <<session, damage>>

(* A frame or a datagram.                                                    *)
Said(key, n, data) == Piece(key, n, <<>>, [kind |-> "data", of |-> data, session |-> 0])

(* seal, on the stream; the number is not in the frame, both ends count.      *)
SealFrame(x, data) ==
    LET s == end[x]
        frame == Said(s.keys[1].send, s.sent, data)
    IN  /\ s.status = "open" /\ s.sent < MaxFrames
        /\ end' = [end EXCEPT ![x].sent = @ + 1]
        /\ wire' = [wire EXCEPT ![x] = Append(@, <<frame>>)]
        /\ sealed' = sealed \cup {frame}
        /\ UNCHANGED <<session, damage>>

(* unseal: a frame that does not open ends the connection.                    *)
UnsealFrame(x) ==
    LET s == end[x]
        frame == Head(Head(wire[Other(x)]))
    IN  /\ s.status = "open" /\ wire[Other(x)] # <<>>
        /\ end' = [end EXCEPT ![x] = IF Opens(frame, s.keys[1].recv, s.received, <<>>)
                                     THEN [s EXCEPT !.received = @ + 1] ELSE Closed(s)]
        /\ wire' = [wire EXCEPT ![Other(x)] = Tail(@)]
        /\ UNCHANGED <<session, damage, sealed>>

(* seal_datagram: DatagramChannel says what becomes of it.                    *)
SealDatagram(x, data) ==
    LET s == end[x]
    IN  /\ s.status = "open" /\ s.datagrams < MaxFrames
        /\ end' = [end EXCEPT ![x].datagrams = @ + 1]
        /\ sealed' = sealed \cup {Said(s.keys[1].udpSend, s.datagrams, data)}
        /\ UNCHANGED <<wire, session, damage>>

(* The connection ends: without randomness, by a timeout, or because the other *)
(* end closed it.                                                          *)
Close(x) ==
    /\ end[x].status # "closed"
    /\ end' = [end EXCEPT ![x] = Closed(@)]
    /\ UNCHANGED <<wire, session, damage, sealed>>

(* A new connection with new channels.                                       *)
Reconnect ==
    /\ session < MaxSessions
    /\ \A x \in Roles : end[x].status = "closed"
    /\ session' = session + 1
    /\ end' = [x \in Roles |-> NewEnd(end[x].prologue)]
    /\ wire' = [x \in Roles |-> <<>>]
    /\ UNCHANGED <<damage, sealed>>

(* A piece of a message on its way is damaged: what is in the clear is         *)
(* something else, and what is sealed is not intact.  An empty payload in the *)
(* clear takes no bytes.                                                   *)
Damage(x) ==
    /\ damage < MaxDamage
    /\ \E i \in DOMAIN wire[x] : \E j \in DOMAIN wire[x][i] :
         /\ wire[x][i][j] # Clear(Payload)
         /\ wire' = [wire EXCEPT ![x][i][j] = IF IsClear(@) THEN Clear(Garbage)
                                           ELSE [@ EXCEPT !.intact = FALSE]]
    /\ damage' = damage + 1
    /\ UNCHANGED <<end, session, sealed>>

SecureNext ==
    \/ \E x \in Roles :
         \/ OpenHandshake(x) \/ ReadHandshake(x)
         \/ \E data \in Data : SealFrame(x, data) \/ SealDatagram(x, data)
         \/ UnsealFrame(x)
         \/ Close(x) \/ Damage(x)
    \/ Reconnect

SecureSpec == SecureInit /\ [][SecureNext]_secureVars

-----------------------------------------------------------------------------
(* Properties.                                                             *)

(* An end that is established knows the key of the other end and was           *)
(* configured alike; if the other end is established too, both have heard    *)
(* the same and each sends under the keys the other receives with, and no    *)
(* more is received than was sent (read_handshake, mesh_prologue, split).   *)
Authentic ==
    \A x \in Roles :
        LET s == end[x]
            o == end[Other(x)]
        IN  s.keys # <<>> =>
                /\ s.rs = Static(Other(x))
                /\ s.prologue = o.prologue
                /\ s.received <= o.sent
                /\ o.keys # <<>> =>
                     /\ s.h = o.h
                     /\ s.keys[1].send = o.keys[1].recv
                     /\ s.keys[1].udpSend = o.keys[1].udpRecv

(* No key is used twice with one number, by whichever end, in the handshake, on *)
(* the stream or for datagrams, however often the two connect (build_nonce,   *)
(* init_key, split).                                                       *)
NeverReused ==
    \A a, b \in sealed : a.key = b.key /\ a.n = b.n => a = b
=============================================================================
