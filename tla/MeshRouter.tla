----------------------------- MODULE MeshRouter -----------------------------
(***************************************************************************)
(* message_router (src/net/message_router.cpp) on every node of a LAN: how *)
(* peers hear of each other, dial, prove who they are, are adopted, and    *)
(* are dropped, and what the interfaces are told of it.                    *)
(*                                                                         *)
(* A step of cb_run_frame acts on what has arrived.  Datagrams and stream  *)
(* bytes arrive when the network pleases, so a frame may find work for one *)
(* step only, and every order of steps is an order of frames.              *)
(*                                                                         *)
(* A connection is a slot with two ends, i for the side that dialled and r *)
(* for the one that accepted.  The three handshake messages are the tokens *)
(* m1, m2 and m3, a sealed frame is a token too, and "eof" ends a stream.  *)
(* What the handshake proves about the other end is the id of its key.     *)
(***************************************************************************)
EXTENDS Naturals, Sequences, FiniteSets

CONSTANTS
    Nodes,          \* the places on the LAN where a router can run
    Ids,            \* product user ids, ordered as the code orders strings
    Listeners,      \* 1 .. n, the interfaces in the order they are registered
    Slots,          \* connections that can exist at a time
    None,           \* no slot, no node, no id
    MaxStream,      \* bound: sealed frames under way in one direction
    MaxFails,       \* bound: timeouts, lost connections and failed sends
    MaxRestarts     \* bound: routers stopped

ASSUME MeshAssumption ==
    /\ Ids \subseteq Nat
    /\ None \notin Slots \cup Nodes \cup Ids
    /\ Listeners = 1 .. Cardinality(Listeners)
    /\ MaxStream \in Nat /\ MaxFails \in Nat /\ MaxRestarts \in Nat

VARIABLES
    ident,          \* product_user_id_ of the profile each node runs
    running,        \* running_
    adverts,        \* announcements under way, true or stale by now
    conns,          \* conns[c]: the connection in slot c
    peers,          \* peers_: which slot carries the peer of each id
    view,           \* whom each interface believes to be in the mesh
    cut,            \* <<n, q>>: n's adoption of q was cut short by a send that failed
    fails, restarts \* what has been used of the bounds

vars == <<ident, running, adverts, conns, peers, view, cut, fails, restarts>>

-----------------------------------------------------------------------------
Roles == {"i", "r"}
Other(role) == IF role = "i" THEN "r" ELSE "i"

(* closed: no socket at this end; dialing: dialing_; backlog: not accepted;   *)
(* await1..3: handshaking_, waiting for that message; up: in peers_.         *)
EndStates == {"closed", "dialing", "backlog", "await1", "await2", "await3", "up"}
Shaking == {"await1", "await2", "await3"}
Frames == {"m1", "m2", "m3", "sealed", "eof"}

FreeConn ==
    [node |-> [role \in Roles |-> None], id |-> [role \in Roles |-> None],
     expected |-> None, st |-> [role \in Roles |-> "closed"],
     in |-> [role \in Roles |-> <<>>]]

Free(c) == conns[c] = FreeConn

(* Whether the end in this role is at node n.                                *)
At(n, c, role) == conns[c].node[role] = n /\ conns[c].st[role] # "closed"

RoleAt(n, c) == CHOOSE role \in Roles : conns[c].node[role] = n

Ended(c, role) == \E k \in DOMAIN conns[c].in[role] : conns[c].in[role][k] = "eof"

(* Broken: what is sent to an end without a socket is kept for it.            *)
PutBlindly(conn, role, frames) == [conn EXCEPT !.in[Other(role)] = @ \o frames]

(* What the end in this role sends; it is gone when no one will read it.      *)
Put(conn, role, frames) ==
    IF conn.st[Other(role)] = "closed" THEN conn
    ELSE [conn EXCEPT !.in[Other(role)] = @ \o frames]

Step(conn, role, state) ==
    [conn EXCEPT !.st[role] = state, !.in[role] = Tail(@)]

(* The socket of this end closes; `told` says whether the other end will read *)
(* an end of stream.  The slot is free once both ends are gone.             *)
Closed(conn, role, told) ==
    IF conn.st[Other(role)] = "closed" THEN FreeConn
    ELSE [conn EXCEPT !.st[role] = "closed", !.in[role] = <<>>,
                      !.in[Other(role)] = @ \o (IF told THEN <<"eof">> ELSE <<>>)]

Becomes(c, conn) == conns' = [conns EXCEPT ![c] = conn]

Fail == fails < MaxFails /\ fails' = fails + 1

Init ==
    /\ \E f \in [Nodes -> Ids] :
         /\ \A m, n \in Nodes : m # n => f[m] # f[n]
         /\ ident = f
    /\ running = [n \in Nodes |-> TRUE]
    /\ adverts = {}
    /\ conns = [c \in Slots |-> FreeConn]
    /\ peers = [n \in Nodes |-> [q \in Ids |-> None]]
    /\ view = [n \in Nodes |-> [l \in Listeners |-> {}]]
    /\ cut = {}
    /\ fails = 0
    /\ restarts = 0

-----------------------------------------------------------------------------
(* Discovery.                                                              *)

(* advertise, its broadcast half: in the clear, and believed about nothing.   *)
Advertise(n) ==
    /\ running[n]
    /\ adverts' = adverts \cup [to : Nodes \ {n}, node : {n}, id : {ident[n]}]
    /\ UNCHANGED <<ident, running, conns, peers, view, cut, fails, restarts>>

(* is_connecting_to                                                        *)
IsConnectingTo(n, q) ==
    \E c \in Slots : At(n, c, "i") /\ conns[c].expected = q /\ conns[c].st["i"] # "up"

(* Broken: both sides dial.                                                 *)
EitherIdDials(n, q) == TRUE

(* handle_advertise: the lower id dials and the higher id accepts.            *)
LowerIdDials(n, q) == ident[n] < q

(* handle_advertise: dial whoever lives at the address the hint came from.    *)
HandleAdvertise(n, advert, c) ==
    /\ running[n]
    /\ advert \in adverts /\ advert.to = n
    /\ advert.id # ident[n]
    /\ peers[n][advert.id] = None
    /\ LowerIdDials(n, advert.id)
    /\ ~IsConnectingTo(n, advert.id)
    /\ Free(c)
    /\ adverts' = adverts \ {advert}
    /\ Becomes(c, [FreeConn EXCEPT
                     !.node = [i |-> n, r |-> advert.node],
                     !.id = [i |-> ident[n], r |-> None],
                     !.expected = advert.id,
                     !.st["i"] = "dialing"])
    /\ UNCHANGED <<ident, running, peers, view, cut, fails, restarts>>

(* finish_dialing: whatever router listens there now takes the connection,    *)
(* and we speak first.                                                     *)
FinishDialing(n, c) ==
    /\ At(n, c, "i") /\ conns[c].st["i"] = "dialing"
    /\ LET there == conns[c].node["r"]
       IN  /\ running[there]
           /\ Becomes(c, [conns[c] EXCEPT !.id["r"] = ident[there],
                                          !.st = [i |-> "await2", r |-> "backlog"],
                                          !.in["r"] = <<"m1">>])
    /\ UNCHANGED <<ident, running, adverts, peers, view, cut, fails, restarts>>

NobodyListens(c) == conns[c].st["i"] = "dialing" /\ ~running[conns[c].node["r"]]

(* finish_dialing: nobody listens there, or the dial took too long; the next  *)
(* announcement starts a fresh attempt.                                    *)
DialFailed(n, c) ==
    /\ At(n, c, "i") /\ conns[c].st["i"] = "dialing"
    /\ IF NobodyListens(c) THEN UNCHANGED fails ELSE Fail
    /\ Becomes(c, FreeConn)
    /\ UNCHANGED <<ident, running, adverts, peers, view, cut, restarts>>

(* accept_peers: it is nobody yet.                                          *)
AcceptPeers(n, c) ==
    /\ At(n, c, "r") /\ conns[c].st["r"] = "backlog"
    /\ Becomes(c, [conns[c] EXCEPT !.st["r"] = "await1"])
    /\ UNCHANGED <<ident, running, adverts, peers, view, cut, fails, restarts>>

-----------------------------------------------------------------------------
(* The handshake.                                                          *)

NextFrame(c, role) == IF conns[c].in[role] = <<>> THEN "none" ELSE Head(conns[c].in[role])

(* drain_handshaking, the acceptor's first half: m1 is answered by m2.        *)
AnswerOpening(n, c) ==
    /\ At(n, c, "r") /\ conns[c].st["r"] = "await1"
    /\ NextFrame(c, "r") = "m1"
    /\ Becomes(c, Put(Step(conns[c], "r", "await3"), "r", <<"m2">>))
    /\ UNCHANGED <<ident, running, adverts, peers, view, cut, fails, restarts>>

(* drain_handshaking: the proof is in, the id is the one expected if any was, *)
(* and adopt_peer is called.                                               *)
Proved(n, c, role) ==
    /\ At(n, c, role)
    /\ \/ conns[c].st[role] = "await2" /\ NextFrame(c, role) = "m2"
       \/ conns[c].st[role] = "await3" /\ NextFrame(c, role) = "m3"

(* Broken: takes the advertisement's word for who is there.                   *)
AdvertisedId(c, role) ==
    IF role = "i" THEN conns[c].expected ELSE conns[c].id["i"]

(* The id of the key that the handshake authenticated.                       *)
ProvedId(c, role) == conns[c].id[Other(role)]

NotWhoWasAdvertised(c, role) ==
    role = "i" /\ conns[c].expected # ProvedId(c, role)

(* The connection once the last message we owe has been sent.                *)
Answered(c, role) ==
    LET read == Step(conns[c], role, "up")
    IN  IF role = "i" THEN Put(read, "i", <<"m3">>) ELSE read

(* adopt_peer refuses ourselves, and a second connection under one id.       *)
Refusable(n, q) == q = ident[n] \/ peers[n][q] # None

Refuse(n, c, role) ==
    /\ Proved(n, c, role)
    /\ NotWhoWasAdvertised(c, role) \/ Refusable(n, ProvedId(c, role))
    /\ Becomes(c, Closed(Answered(c, role), role, TRUE))
    /\ UNCHANGED <<ident, running, adverts, peers, view, cut, fails, restarts>>

Adoptable(n, c, role) ==
    /\ Proved(n, c, role)
    /\ ~NotWhoWasAdvertised(c, role)
    /\ ~Refusable(n, ProvedId(c, role))

(* adopt_peer: the peer is in the table, hears from us, and every interface   *)
(* is told.                                                                *)
AdoptPeer(n, c, role) ==
    LET q == ProvedId(c, role)
    IN  /\ Adoptable(n, c, role)
        /\ peers' = [peers EXCEPT ![n][q] = c]
        /\ Becomes(c, Put(Answered(c, role), role, <<"sealed">>))
        /\ view' = [view EXCEPT ![n] = [l \in Listeners |-> @[l] \cup {q}]]
        /\ UNCHANGED <<ident, running, adverts, cut, fails, restarts>>

(* adopt_peer when the other end is already gone and a send shows it: the     *)
(* announcement itself (k = 0), or what interface k sends when it is told of *)
(* the peer.  The send drops the peer and tells every interface so; then    *)
(* dispatch goes on telling the rest that the peer has connected.          *)
AdoptPeerSendFails(n, c, role, k) ==
    LET q == ProvedId(c, role)
    IN  /\ Adoptable(n, c, role)
        /\ conns[c].st[Other(role)] = "closed"
        /\ Becomes(c, Closed(Answered(c, role), role, TRUE))
        /\ view' = [view EXCEPT ![n] =
                      [l \in Listeners |-> IF l <= k THEN @[l] \ {q} ELSE @[l] \cup {q}]]
        /\ cut' = cut \cup {<<n, q>>}
        /\ UNCHANGED <<ident, running, adverts, peers, fails, restarts>>

(* drain_handshaking: the peer hung up.  The end of the stream decides even   *)
(* when a proof is read with it.                                           *)
HandshakeEnds(n, c, role) ==
    /\ At(n, c, role) /\ conns[c].st[role] \in Shaking
    /\ Ended(c, role)
    /\ Becomes(c, Closed(conns[c], role, TRUE))
    /\ UNCHANGED <<ident, running, adverts, peers, view, cut, fails, restarts>>

(* The other end is gone without a word, and all it sent has been read.      *)
Silent(c, role) == conns[c].st[Other(role)] = "closed" /\ conns[c].in[role] = <<>>

(* expire_handshaking, or a send or read that fails.  Silence is always       *)
(* noticed; with the other end alive it takes a failure.                    *)
ExpireHandshaking(n, c, role) ==
    /\ At(n, c, role) /\ conns[c].st[role] \in Shaking
    /\ IF Silent(c, role) THEN UNCHANGED fails ELSE Fail
    /\ Becomes(c, Closed(conns[c], role, TRUE))
    /\ UNCHANGED <<ident, running, adverts, peers, view, cut, restarts>>

-----------------------------------------------------------------------------
(* Established peers.                                                      *)

(* Broken: the interfaces are not told.                                     *)
DropPeerSilently(n, q) ==
    LET c == peers[n][q]
    IN  /\ c # None
        /\ peers' = [peers EXCEPT ![n][q] = None]
        /\ Becomes(c, Closed(conns[c], RoleAt(n, c), TRUE))
        /\ UNCHANGED <<ident, running, adverts, view, cut, restarts>>

(* Broken: the entry goes, its socket stays open.                            *)
DropPeerKeepsSocket(n, q) ==
    /\ peers[n][q] # None
    /\ peers' = [peers EXCEPT ![n][q] = None]
    /\ view' = [view EXCEPT ![n] = [l \in Listeners |-> @[l] \ {q}]]
    /\ cut' = cut \ {<<n, q>>}
    /\ UNCHANGED <<ident, running, adverts, conns, restarts>>

(* drop_peer with notification.                                            *)
DropPeer(n, q) ==
    LET c == peers[n][q]
        role == RoleAt(n, c)
    IN  /\ c # None
        /\ peers' = [peers EXCEPT ![n][q] = None]
        /\ Becomes(c, Closed(conns[c], role, TRUE))
        /\ view' = [view EXCEPT ![n] = [l \in Listeners |-> @[l] \ {q}]]
        /\ cut' = cut \ {<<n, q>>}
        /\ UNCHANGED <<ident, running, adverts, restarts>>

(* send to one peer, and the sealed half of advertise.                      *)
Send(n, q) ==
    LET c == peers[n][q]
        role == RoleAt(n, c)
    IN  /\ c # None
        /\ Len(conns[c].in[Other(role)]) < MaxStream
        /\ Becomes(c, Put(conns[c], role, <<"sealed">>))
        /\ UNCHANGED <<ident, running, adverts, peers, view, cut, fails, restarts>>

(* drain_peers: a frame opens and is dispatched or teaches us a port.         *)
DrainPeer(n, q) ==
    LET c == peers[n][q]
        role == RoleAt(n, c)
    IN  /\ c # None
        /\ NextFrame(c, role) = "sealed"
        /\ Becomes(c, Step(conns[c], role, "up"))
        /\ UNCHANGED <<ident, running, adverts, peers, view, cut, fails, restarts>>

(* drain_peers: the stream has ended.                                       *)
DrainEnds(n, q) ==
    LET c == peers[n][q]
    IN  /\ c # None
        /\ Ended(c, RoleAt(n, c))
        /\ DropPeer(n, q)
        /\ UNCHANGED fails

GoneSilent(n, q) ==
    peers[n][q] # None /\ Silent(peers[n][q], RoleAt(n, peers[n][q]))

(* expire_peers after ten silent seconds, or a send to the peer that fails,   *)
(* which it may do at any time: the peer is alive but reads too slowly, and  *)
(* its outbox is full (queue_and_flush).                                    *)
ExpirePeer(n, q) ==
    /\ DropPeer(n, q)
    /\ IF GoneSilent(n, q) THEN UNCHANGED fails ELSE Fail

-----------------------------------------------------------------------------
(* stop, or the end of the process: every socket goes, and the interfaces are *)
(* not told.  `told` is whether the other ends will read an end of stream;   *)
(* a machine that loses power says nothing.                                *)
Stop(n, told) ==
    /\ running[n]
    /\ restarts < MaxRestarts
    /\ restarts' = restarts + 1
    /\ running' = [running EXCEPT ![n] = FALSE]
    /\ conns' = [c \in Slots |->
                   CASE At(n, c, "i") -> Closed(conns[c], "i", told)
                     [] At(n, c, "r") -> Closed(conns[c], "r", told)
                     [] OTHER -> conns[c]]
    /\ peers' = [peers EXCEPT ![n] = [q \in Ids |-> None]]
    /\ cut' = {nq \in cut : nq[1] # n}
    /\ view' = [view EXCEPT ![n] = [l \in Listeners |-> {}]]
    /\ UNCHANGED <<ident, adverts, fails>>

(* start, under the profile the machine runs next.                          *)
Start(n, q) ==
    /\ ~running[n]
    /\ \A m \in Nodes \ {n} : ident[m] # q
    /\ running' = [running EXCEPT ![n] = TRUE]
    /\ ident' = [ident EXCEPT ![n] = q]
    /\ UNCHANGED <<adverts, conns, peers, view, cut, fails, restarts>>

-----------------------------------------------------------------------------
Shake(n, c) ==
    \/ FinishDialing(n, c)
    \/ AcceptPeers(n, c)
    \/ AnswerOpening(n, c)
    \/ \E role \in Roles : AdoptPeer(n, c, role)
    \/ \E role \in Roles : Refuse(n, c, role)
    \/ \E role \in Roles : HandshakeEnds(n, c, role)

Next ==
    \E n \in Nodes :
        \/ Advertise(n)
        \/ \E advert \in adverts, c \in Slots : HandleAdvertise(n, advert, c)
        \/ \E c \in Slots : Shake(n, c)
        \/ \E c \in Slots : DialFailed(n, c)
        \/ \E c \in Slots, role \in Roles : ExpireHandshaking(n, c, role)
        \/ \E c \in Slots, role \in Roles, k \in {0} \cup Listeners :
             AdoptPeerSendFails(n, c, role, k)
        \/ \E q \in Ids : Send(n, q)
        \/ \E q \in Ids : DrainPeer(n, q)
        \/ \E q \in Ids : DrainEnds(n, q)
        \/ \E q \in Ids : ExpirePeer(n, q)
        \/ \E told \in BOOLEAN : Stop(n, told)
        \/ \E q \in Ids : Start(n, q)

Spec == Init /\ [][Next]_vars

(* A running router ticks: it announces itself, dials whom it hears, carries  *)
(* its handshakes on, reads its streams and gives up on silence.  No failure *)
(* and no stop is ever due.                                                *)
Fairness ==
    \A n \in Nodes :
        /\ WF_vars(Advertise(n))
        /\ \A m \in Nodes, q \in Ids :
             WF_vars(\E c \in Slots : HandleAdvertise(n, [to |-> n, node |-> m, id |-> q], c))
        /\ \A c \in Slots :
             /\ WF_vars(Shake(n, c))
             /\ WF_vars(NobodyListens(c) /\ DialFailed(n, c))
             /\ \A role \in Roles : WF_vars(Silent(c, role) /\ ExpireHandshaking(n, c, role))
        /\ \A q \in Ids :
             /\ WF_vars(DrainPeer(n, q))
             /\ WF_vars(DrainEnds(n, q))
             /\ WF_vars(GoneSilent(n, q) /\ ExpirePeer(n, q))

FairSpec == Spec /\ Fairness

-----------------------------------------------------------------------------
(* Properties.                                                             *)

TypeOK ==
    /\ ident \in [Nodes -> Ids]
    /\ running \in [Nodes -> BOOLEAN]
    /\ adverts \subseteq [to : Nodes, node : Nodes, id : Ids]
    /\ conns \in [Slots ->
                    [node : [Roles -> Nodes \cup {None}], id : [Roles -> Ids \cup {None}],
                     expected : Ids \cup {None}, st : [Roles -> EndStates],
                     in : [Roles -> Seq(Frames)]]]
    /\ \A c \in Slots, role \in Roles :
         conns[c].st[role] = "closed" => conns[c].in[role] = <<>>
    /\ peers \in [Nodes -> [Ids -> Slots \cup {None}]]
    /\ view \in [Nodes -> [Listeners -> SUBSET Ids]]
    /\ cut \subseteq Nodes \X Ids

(* Whoever is in the table under an id is run by the holder of that id: its   *)
(* entry names a connection of this router whose other end proved the id    *)
(* (drain_handshaking, adopt_peer).  Every message dispatched from that     *)
(* connection is attributed to the id.                                     *)
PeersAuthentic ==
    \A n \in Nodes, q \in Ids : peers[n][q] # None =>
        \E role \in Roles :
            /\ At(n, peers[n][q], role)
            /\ conns[peers[n][q]].st[role] = "up"
            /\ conns[peers[n][q]].id[Other(role)] = q

(* No connection is forgotten: an end that was adopted is in the table of a   *)
(* running router, so that something reads it and something will close it    *)
(* (adopt_peer, drop_peer, stop).                                          *)
NoneForgotten ==
    \A c \in Slots, role \in Roles : conns[c].st[role] = "up" =>
        LET n == conns[c].node[role]
        IN  running[n] /\ peers[n][conns[c].id[Other(role)]] = c

(* A router has at most one connection it dialled under way or established    *)
(* with any one id (handle_advertise, is_connecting_to).                   *)
OneAttempt ==
    \A n \in Nodes, q \in Ids :
        \A c, d \in Slots :
            At(n, c, "i") /\ At(n, d, "i") /\ conns[c].expected = q /\ conns[d].expected = q
                => c = d

(* Every interface knows of every peer in the table: no drop overtakes an     *)
(* adoption on its way to the interfaces (adopt_peer, drop_peer, dispatch).  *)
NobodyMissed ==
    \A n \in Nodes, l \in Listeners :
        {q \in Ids : peers[n][q] # None} \subseteq view[n][l]

(* A peer is dropped "so the interfaces learn the peer left" (send), so        *)
(* whoever is not in the table is on no interface's roster.                 *)
InterfacesLearnPeerLeft ==
    \A n \in Nodes, l \in Listeners :
        view[n][l] \subseteq {q \in Ids : peers[n][q] # None}

(* The same but for the adoptions that a failed send has cut short: no other   *)
(* way of losing a peer leaves it on a roster (drop_peer, dispatch).         *)
RostersFollowTable ==
    \A n \in Nodes, l \in Listeners :
        view[n][l] \subseteq {q \in Ids : peers[n][q] # None \/ <<n, q>> \in cut}

(* A live connection is never displaced by another under the same id          *)
(* (adopt_peer).                                                           *)
NotDisplaced ==
    [][\A n \in Nodes, q \in Ids :
         peers[n][q] # None => peers'[n][q] \in {peers[n][q], None}]_vars

Agree(m, n) ==
    /\ peers[m][ident[n]] # None
    /\ peers[m][ident[n]] = peers[n][ident[m]]

(* Whatever broke, once nothing breaks any more any two running routers end   *)
(* up with each other in their tables, over one and the same connection      *)
(* (handle_advertise: the lower id dials and the higher id accepts).        *)
Converges ==
    \A m, n \in Nodes : m # n =>
        <>[](running[m] /\ running[n] => Agree(m, n))
=============================================================================
