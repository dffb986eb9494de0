-------------------------------- MODULE P2P --------------------------------
(***************************************************************************)
(* sdk_p2p (src/interfaces/p2p.cpp): connections named by a peer and a     *)
(* socket, which two games agree on by request and response over the mesh; *)
(* packets held until the other side agrees; the queue the game reads; and *)
(* the notifications the tick fires.  Every peer runs the same program and *)
(* talks to the others through MeshLink.                                   *)
(*                                                                         *)
(* A packet is its number: numbers are given in the order the games send,  *)
(* so they also say what was sent before what.  Every packet has size one, *)
(* and the queue limits count packets.  Channels are payload here.         *)
(***************************************************************************)
EXTENDS MeshLink, FiniteSets, SequencesExt

CONSTANTS
    Sockets,
    Limits,         \* the [in, out] queue limits a game may set, 0 for none
    MaxPackets,     \* bound: packets the games send altogether
    MaxCloses,      \* bound: close and clear calls of the games altogether
    MaxOffers,      \* bound: accept calls for a connection nobody asked for
    MaxDrops,       \* bound: connections that break of themselves
    MaxLimits,      \* bound: limits the games set altogether
    MaxTrouble,     \* bound: closes, offers, drops and limits taken together
    AskOffline,     \* whether a game may ask for a peer that is not in the mesh
    InitiallyMet    \* whether the peers have met when the games start

ASSUME PeersAssumption ==
    /\ IsFiniteSet(Peers) /\ IsFiniteSet(Sockets)
    /\ MaxPackets \in Nat

VARIABLES
    conn,           \* connections_[key].state, "none" where there is no entry
    delayed,        \* connections_[key].delayed
    received,       \* receive_queue_
    events,         \* pending_events_
    firing,         \* the events a tick has taken and has not fired yet
    ticking,        \* whether cb_run_frame is running
    overflows,      \* overflows_, as the limits that turned the packets away
    limits,         \* incoming_ and outgoing_queue_max_bytes_
    heard,          \* the last thing the game heard of a connection
    got,            \* the newest reliable packet the game has read from a connection
    spent           \* what has been used of the bounds

entries == <<conn, delayed>>
queues == <<received, overflows, limits, got>>
notices == <<events, firing, ticking, heard>>
vars == <<entries, queues, notices, spent, linkVars>>

Unlimited == 0
Keys == Peers \X Sockets        \* connection_key
States == {"none", "requested", "pending", "open"}
Kinds == {"request", "established", "interrupted", "closed"}
Nothing == [n |-> 0, rel |-> TRUE]      \* what a control message carries

Message(type, socket, packet) == [type |-> type, socket |-> socket, packet |-> packet]
Control(type, key) == <<Message(type, key[2], Nothing)>>

Init ==
    /\ IF InitiallyMet THEN LinkInitMet ELSE LinkInit
    /\ conn = [p \in Peers |-> [k \in Keys |-> "none"]]
    /\ delayed = [p \in Peers |-> [k \in Keys |-> <<>>]]
    /\ received = [p \in Peers |-> <<>>]
    /\ events = [p \in Peers |-> <<>>]
    /\ firing = [p \in Peers |-> <<>>]
    /\ ticking = [p \in Peers |-> FALSE]
    /\ overflows = [p \in Peers |-> <<>>]
    /\ limits = [p \in Peers |-> [in |-> Unlimited, out |-> Unlimited]]
    /\ heard = [p \in Peers |-> [k \in Keys |-> "nothing"]]
    /\ got = [p \in Peers |-> [k \in Keys |-> 0]]
    /\ spent = [packets |-> 0, closes |-> 0, offers |-> 0, drops |-> 0, limits |-> 0]

-----------------------------------------------------------------------------
(* What the operations share.                                              *)

Spend(what, max) ==
    /\ spent[what] < max
    /\ what # "packets" =>
         spent.closes + spent.offers + spent.drops + spent.limits < MaxTrouble
    /\ spent' = [spent EXCEPT ![what] = @ + 1]

(* The elements of s at the positions in S, in their order.                   *)
Nth(S, j) == CHOOSE i \in S : Cardinality({k \in S : k <= i}) = j
Keep(s, S) == [j \in 1 .. Cardinality(S) |-> s[Nth(S, j)]]

Entries(p, keys) == {k \in keys : conn[p][k] # "none"}
KeysOf(q) == {q} \X Sockets
Others(p) == Peers \ {p}

(* Broken: what was held for the connection stays behind.                     *)
EraseEntryOnly(p, keys) ==
    /\ conn' = [conn EXCEPT ![p] = [k \in Keys |-> IF k \in keys THEN "none" ELSE @[k]]]
    /\ UNCHANGED delayed

Erase(p, keys) ==
    /\ conn' = [conn EXCEPT ![p] = [k \in Keys |-> IF k \in keys THEN "none" ELSE @[k]]]
    /\ delayed' = [delayed EXCEPT ![p] = [k \in Keys |-> IF k \in keys THEN <<>> ELSE @[k]]]

(* queue_event, for each of the keys in turn.                               *)
QueueEvents(p, kind, keys) ==
    events' = [events EXCEPT ![p] =
        @ \o [i \in 1 .. Cardinality(keys) |-> [kind |-> kind, key |-> SetToSeq(keys)[i]]]]

FlushPackets(p, keys) ==
    received' = [received EXCEPT ![p] = Keep(@, {i \in DOMAIN @ : @[i].key \notin keys})]

OutgoingQueued(p) == MapThenSumSet(LAMBDA k : Len(delayed[p][k]), Keys)

(* Broken: one packet too many.                                            *)
FitsOneMore(held, limit) == limit = Unlimited \/ held <= limit

(* A packet of size one still fits; no limit is no limit.                     *)
Fits(held, limit) == limit = Unlimited \/ held + 1 <= limit

(* send_p2p for packets: a reliable one goes over the mesh, an unreliable one *)
(* as a datagram once the peer's datagram port is known, and over the mesh   *)
(* until then.  `first` is what the caller sends ahead of them; w and a are  *)
(* what the wire and the air hold before.  What network_.send answers is     *)
(* not looked at.                                                          *)
Transmit(p, key, first, packets, w, a) ==
    LET q == key[1]
        messages == [i \in DOMAIN packets |-> Message("data", key[2], packets[i])]
        flying == {i \in DOMAIN packets : ~packets[i].rel /\ {<<p, q>>, <<q, p>>} \subseteq up}
    IN  \E byAir \in SUBSET flying :
          /\ wire' = Posted(w, p, q, first \o Keep(messages, DOMAIN packets \ byAir))
          /\ air' = a \cup {[from |-> p, to |-> q, msg |-> messages[i]] : i \in byAir}

(* Broken: what was held is sent from the back.                               *)
EstablishReversed(p, key, first, w, a) ==
    /\ conn' = [conn EXCEPT ![p][key] = "open"]
    /\ QueueEvents(p, "established", {key})
    /\ Transmit(p, key, first, Reverse(delayed[p][key]), w, a)
    /\ delayed' = [delayed EXCEPT ![p][key] = <<>>]

(* A connection becomes open: the game will hear of it, and what was held    *)
(* goes out behind what the caller sends (flush_delayed).                  *)
Establish(p, key, first, w, a) ==
    /\ conn' = [conn EXCEPT ![p][key] = "open"]
    /\ QueueEvents(p, "established", {key})
    /\ Transmit(p, key, first, delayed[p][key], w, a)
    /\ delayed' = [delayed EXCEPT ![p][key] = <<>>]

-----------------------------------------------------------------------------
(* The calls of the game.  It calls between ticks and from the callbacks of   *)
(* one, never while the mesh is dispatching.                               *)

CanCall(p, q) == p # q /\ late[p] = <<>>

(* The packet is kept until the peer agrees, if the game allows it and the    *)
(* outgoing limit has room; otherwise it is dropped or refused.             *)
HoldBack(p, key, rel, hold) ==
    IF hold /\ Fits(OutgoingQueued(p), limits[p].out)
    THEN /\ Spend("packets", MaxPackets)
         /\ delayed' = [delayed EXCEPT ![p][key] =
                          Append(@, [n |-> spent.packets + 1, rel |-> rel])]
    ELSE UNCHANGED <<delayed, spent>>

Ask(p, key) ==
    /\ AskOffline \/ <<p, key[1]>> \in up
    /\ conn' = [conn EXCEPT ![p][key] = "pending"]
    /\ wire' = Posted(wire, p, key[1], Control("request", key))
    /\ UNCHANGED air

(* send_packet on a key with no entry, with auto-accept: ask the peer.       *)
(* Without auto-accept nothing happens.                                    *)
SendPacketNew(p, key, rel, hold) ==
    /\ CanCall(p, key[1])
    /\ conn[p][key] = "none"
    /\ Ask(p, key)
    /\ HoldBack(p, key, rel, hold)
    /\ UNCHANGED <<queues, notices, up, accepting, late>>

(* send_packet on an entry that is not open.                                *)
SendPacketEarly(p, key, rel, hold) ==
    /\ CanCall(p, key[1])
    /\ conn[p][key] \in {"requested", "pending"}
    /\ HoldBack(p, key, rel, hold)
    /\ UNCHANGED <<conn, queues, notices, linkVars>>

(* send_packet on an open connection.                                       *)
SendPacketOpen(p, key, rel) ==
    /\ CanCall(p, key[1])
    /\ conn[p][key] = "open"
    /\ Spend("packets", MaxPackets)
    /\ Transmit(p, key, <<>>, <<[n |-> spent.packets + 1, rel |-> rel]>>, wire, air)
    /\ UNCHANGED <<entries, queues, notices, up, accepting, late>>

SendPacket(p, key, rel, hold) ==
    \/ SendPacketNew(p, key, rel, hold)
    \/ SendPacketEarly(p, key, rel, hold)
    \/ SendPacketOpen(p, key, rel)

(* Broken: the peer is not told.                                           *)
AcceptQuietly(p, key) ==
    /\ CanCall(p, key[1])
    /\ conn[p][key] = "requested"
    /\ Establish(p, key, <<>>, wire, air)
    /\ UNCHANGED <<queues, firing, ticking, heard, spent, up, accepting, late>>

(* accept_connection on a connection the peer asked for: both have agreed.   *)
AcceptRequested(p, key) ==
    /\ CanCall(p, key[1])
    /\ conn[p][key] = "requested"
    /\ Establish(p, key, Control("response", key), wire, air)
    /\ UNCHANGED <<queues, firing, ticking, heard, spent, up, accepting, late>>

(* accept_connection where nobody asked us, or while we wait: ask (again).   *)
AcceptOffer(p, key) ==
    /\ CanCall(p, key[1])
    /\ conn[p][key] \in {"none", "pending"}
    /\ Spend("offers", MaxOffers)
    /\ Ask(p, key)
    /\ UNCHANGED <<delayed, queues, notices, up, accepting, late>>

(* close_connection on one socket of a peer, or on all of them.              *)
CloseConnection(p, q, sockets) ==
    LET named == {q} \X sockets
        closed == Entries(p, named)
    IN  /\ CanCall(p, q)
        /\ Spend("closes", MaxCloses)
        /\ wire' = Posted(wire, p, q, [i \in 1 .. Cardinality(closed) |->
                            Message("close", SetToSeq(closed)[i][2], Nothing)])
        /\ QueueEvents(p, "closed", closed)
        /\ Erase(p, closed)
        /\ FlushPackets(p, named)
        /\ UNCHANGED <<overflows, limits, got, firing, ticking, heard>>
        /\ UNCHANGED <<up, accepting, air, late>>

(* close_connections on one socket, whoever is at the other end.             *)
CloseConnections(p, socket) ==
    LET closed == Entries(p, Peers \X {socket})
    IN  /\ late[p] = <<>>
        /\ Spend("closes", MaxCloses)
        /\ wire' = [pq \in Pairs |->
                      IF pq[1] = p /\ <<pq[2], socket>> \in closed
                      THEN Posted(wire, p, pq[2], Control("close", <<pq[2], socket>>))[pq]
                      ELSE wire[pq]]
        /\ QueueEvents(p, "closed", closed)
        /\ Erase(p, closed)
        /\ FlushPackets(p, closed)
        /\ UNCHANGED <<overflows, limits, got, firing, ticking, heard>>
        /\ UNCHANGED <<up, accepting, air, late>>

(* receive_packet with no channel asked for: the oldest.                    *)
ReceivePacket(p) ==
    /\ late[p] = <<>>
    /\ received[p] # <<>>
    /\ received' = [received EXCEPT ![p] = Tail(@)]
    /\ LET r == Head(received[p])
       IN  got' = [got EXCEPT ![p][r.key] = IF r.packet.rel THEN r.packet.n ELSE @]
    /\ UNCHANGED <<entries, overflows, limits, notices, spent, linkVars>>

(* clear_packet_queue for one key, one peer, one socket or everything: what   *)
(* is waiting to be read and what is held to be sent both go.               *)
ClearPacketQueue(p, keys) ==
    /\ late[p] = <<>>
    /\ Spend("closes", MaxCloses)
    /\ FlushPackets(p, keys)
    /\ delayed' = [delayed EXCEPT ![p] =
                     [k \in Keys |-> IF k \in keys THEN <<>> ELSE @[k]]]
    /\ UNCHANGED <<conn, overflows, limits, got, notices, linkVars>>

SetPacketQueueSize(p, limit) ==
    /\ late[p] = <<>>
    /\ Spend("limits", MaxLimits)
    /\ limits' = [limits EXCEPT ![p] = limit]
    /\ UNCHANGED <<entries, received, overflows, got, notices, linkVars>>

-----------------------------------------------------------------------------
(* The tick.  cb_run_frame takes the events queued so far and fires them one  *)
(* by one; what the callbacks queue waits for the next frame.               *)

StartFrame(p) ==
    /\ ~ticking[p] /\ late[p] = <<>>
    /\ events[p] # <<>> \/ overflows[p] # <<>>
    /\ ticking' = [ticking EXCEPT ![p] = TRUE]
    /\ firing' = [firing EXCEPT ![p] = events[p]]
    /\ events' = [events EXCEPT ![p] = <<>>]
    /\ UNCHANGED <<entries, queues, heard, spent, linkVars>>

FireEvent(p) ==
    /\ firing[p] # <<>>
    /\ heard' = [heard EXCEPT ![p][Head(firing[p]).key] = Head(firing[p]).kind]
    /\ firing' = [firing EXCEPT ![p] = Tail(@)]
    /\ UNCHANGED <<entries, queues, events, ticking, spent, linkVars>>

(* The packets the queue had no room for are reported last.                  *)
EndFrame(p) ==
    /\ ticking[p] /\ firing[p] = <<>>
    /\ ticking' = [ticking EXCEPT ![p] = FALSE]
    /\ overflows' = [overflows EXCEPT ![p] = <<>>]
    /\ UNCHANGED <<entries, received, limits, got, events, firing, heard, spent, linkVars>>

-----------------------------------------------------------------------------
(* on_network_message.  w and a are the wire and the air the message was      *)
(* taken from.                                                             *)

Unmoved(w, a) == wire' = w /\ air' = a

(* A peer that has no connection with us and sends is asking for one.         *)
OnUnknown(p, key, w, a) ==
    /\ conn[p][key] = "none"
    /\ conn' = [conn EXCEPT ![p][key] = "requested"]
    /\ QueueEvents(p, "request", {key})
    /\ Unmoved(w, a)
    /\ UNCHANGED <<delayed, received, overflows>>

OnData(p, key, packet, w, a) ==
    \/ OnUnknown(p, key, w, a)
    \/ /\ conn[p][key] \in {"requested", "pending"}
       /\ Unmoved(w, a)
       /\ UNCHANGED <<entries, events, received, overflows>>
    \/ /\ conn[p][key] = "open"
       /\ IF Fits(Len(received[p]), limits[p].in)
          THEN /\ received' = [received EXCEPT ![p] =
                                 Append(@, [key |-> key, packet |-> packet])]
               /\ UNCHANGED overflows
          ELSE /\ overflows' = [overflows EXCEPT ![p] = Append(@, limits[p].in)]
               /\ UNCHANGED received
       /\ Unmoved(w, a)
       /\ UNCHANGED <<entries, events>>

OnRequest(p, key, w, a) ==
    \/ OnUnknown(p, key, w, a)
    \/ /\ conn[p][key] = "pending"      \* both reached for it at once
       /\ Establish(p, key, Control("response", key), w, a)
       /\ UNCHANGED <<received, overflows>>
    \/ /\ conn[p][key] = "open"         \* confirm, so that the other side settles
       /\ wire' = Posted(w, p, key[1], Control("response", key))
       /\ air' = a
       /\ UNCHANGED <<entries, events, received, overflows>>
    \/ /\ conn[p][key] = "requested"
       /\ Unmoved(w, a)
       /\ UNCHANGED <<entries, events, received, overflows>>

(* Only a connection we asked for can be established by a response.          *)
OnResponse(p, key, w, a) ==
    /\ IF conn[p][key] = "pending"
       THEN Establish(p, key, <<>>, w, a)
       ELSE Unmoved(w, a) /\ UNCHANGED <<entries, events>>
    /\ UNCHANGED <<received, overflows>>

(* Broken: what the game has not read yet stays in the queue.                 *)
OnCloseKeepsPackets(p, key, w, a) ==
    /\ IF conn[p][key] # "none"
       THEN Erase(p, {key}) /\ QueueEvents(p, "closed", {key}) /\ UNCHANGED received
       ELSE UNCHANGED <<entries, events, received>>
    /\ Unmoved(w, a)
    /\ UNCHANGED overflows

OnClose(p, key, w, a) ==
    /\ IF conn[p][key] # "none"
       THEN /\ Erase(p, {key})
            /\ FlushPackets(p, {key})
            /\ QueueEvents(p, "closed", {key})
       ELSE UNCHANGED <<entries, events, received>>
    /\ Unmoved(w, a)
    /\ UNCHANGED overflows

OnNetworkMessage(p, q, m, w, a) ==
    LET key == <<q, m.socket>>
    IN  /\ \/ m.type = "data" /\ OnData(p, key, m.packet, w, a)
           \/ m.type = "request" /\ OnRequest(p, key, w, a)
           \/ m.type = "response" /\ OnResponse(p, key, w, a)
           \/ m.type = "close" /\ OnClose(p, key, w, a)
        /\ UNCHANGED <<limits, got, firing, ticking, heard, spent>>

(* Broken: only the connections that are open go.                             *)
OnPeerDisconnectedOpenOnly(p, q) ==
    LET gone == {k \in Entries(p, KeysOf(q)) : conn[p][k] = "open"}
    IN  /\ QueueEvents(p, "interrupted", gone)
        /\ Erase(p, gone)
        /\ FlushPackets(p, KeysOf(q))
        /\ UNCHANGED <<overflows, limits, got, firing, ticking, heard>>

(* Broken: the game is not told.                                            *)
OnPeerDisconnectedQuietly(p, q) ==
    /\ Erase(p, Entries(p, KeysOf(q)))
    /\ FlushPackets(p, KeysOf(q))
    /\ UNCHANGED <<events, overflows, limits, got, firing, ticking, heard>>

(* peer_disconnected: the peer takes its connections with it.                *)
OnPeerDisconnected(p, q) ==
    LET gone == Entries(p, KeysOf(q))
    IN  /\ QueueEvents(p, "interrupted", gone)
        /\ Erase(p, gone)
        /\ FlushPackets(p, KeysOf(q))
        /\ UNCHANGED <<overflows, limits, got, firing, ticking, heard>>

-----------------------------------------------------------------------------
(* The mesh, dispatching to the interface between its ticks.                 *)

(* The next envelope of a peer in the mesh (message_router::drain_peers).    *)
Deliver(p, q) ==
    /\ ~ticking[p] /\ late[p] = <<>>
    /\ <<p, q>> \in up
    /\ wire[<<q, p>>] # <<>> /\ Head(wire[<<q, p>>]) # Eof
    /\ OnNetworkMessage(p, q, Head(wire[<<q, p>>]), [wire EXCEPT ![<<q, p>>] = Tail(@)], air)
    /\ UNCHANGED <<up, accepting, late>>

(* An envelope read before its sender was dropped and dispatched after.      *)
DeliverLate(p) ==
    /\ late[p] # <<>>
    /\ OnNetworkMessage(p, Head(late[p]).from, Head(late[p]).msg, wire, air)
    /\ late' = [late EXCEPT ![p] = Tail(@)]
    /\ UNCHANGED <<up, accepting>>

(* A datagram (message_router::drain_datagrams); it opens once, and only     *)
(* while its sender is in the mesh.                                        *)
DeliverDatagram(p) ==
    /\ ~ticking[p] /\ late[p] = <<>>
    /\ \E d \in air :
         /\ d.to = p /\ <<p, d.from>> \in up
         /\ OnNetworkMessage(p, d.from, d.msg, wire, air \ {d})
    /\ UNCHANGED <<up, accepting, late>>

(* The stream of q has ended, or, a failure counted by its bound, p has some  *)
(* other reason to drop it.                                                *)
Lose(p, q, n) ==
    /\ ~ticking[p] /\ late[p] = <<>>
    /\ DropPeer(p, q, n, wire)
    /\ OnPeerDisconnected(p, q)
    /\ IF Eof \in Range(wire[<<q, p>>]) THEN UNCHANGED spent ELSE Spend("drops", MaxDrops)

Meet(p, q) ==
    /\ ~ticking[p] /\ late[p] = <<>>
    /\ MeetAsDialler(p, q, <<>>) \/ MeetAsAcceptor(p, q, <<>>)
    /\ UNCHANGED <<entries, queues, notices, spent>>

GiveUp(p, q) ==
    /\ TurnAway(p, q)
    /\ Spend("drops", MaxDrops)
    /\ UNCHANGED <<entries, queues, notices>>

-----------------------------------------------------------------------------
Calls(p) ==
    \/ \E key \in Keys, rel, hold \in BOOLEAN : SendPacket(p, key, rel, hold)
    \/ \E key \in Keys : AcceptRequested(p, key)
    \/ \E key \in Keys : AcceptOffer(p, key)
    \/ \E q \in Others(p), sockets \in {{s} : s \in Sockets} \cup {Sockets} :
         CloseConnection(p, q, sockets)
    \/ \E socket \in Sockets : CloseConnections(p, socket)
    \/ ReceivePacket(p)
    \/ \E peers \in {{q} : q \in Peers} \cup {Peers},
          sockets \in {{s} : s \in Sockets} \cup {Sockets} :
         ClearPacketQueue(p, peers \X sockets)
    \/ \E limit \in Limits : SetPacketQueueSize(p, limit)

Tick(p) == StartFrame(p) \/ FireEvent(p) \/ EndFrame(p)

Mesh(p) ==
    \/ \E q \in Others(p) : Deliver(p, q)
    \/ DeliverLate(p)
    \/ DeliverDatagram(p)
    \/ \E q \in Others(p) : \E n \in 0 .. Len(wire[<<q, p>>]) : Lose(p, q, n)
    \/ \E q \in Others(p) : Meet(p, q)
    \/ \E q \in Others(p) : GiveUp(p, q)

Next == \E p \in Peers : Calls(p) \/ Tick(p) \/ Mesh(p)

(* The tick runs while the game runs: it reads what arrived, ends what ended, *)
(* finishes handshakes and fires what is queued (platform::tick).  Of the    *)
(* game it is assumed that it answers a connection request it was told of,   *)
(* as the request notification asks it to.                                 *)
Fairness ==
    \A p \in Peers :
        /\ WF_vars(Tick(p))
        /\ WF_vars(DeliverLate(p))
        /\ \A key \in Keys : WF_vars(heard[p][key] = "request" /\ AcceptRequested(p, key))
        /\ \A q \in Others(p) :
             /\ WF_vars(Deliver(p, q))
             /\ WF_vars(Meet(p, q))
             /\ WF_vars(Eof \in Range(wire[<<q, p>>]) /\ \E n \in 0 .. Len(wire[<<q, p>>]) : Lose(p, q, n))

Spec == Init /\ [][Next]_vars

FairSpec == Spec /\ Fairness

-----------------------------------------------------------------------------
(* Properties.                                                             *)

TypeOK ==
    /\ up \cup accepting \subseteq Pairs /\ up \cap accepting = {}
    /\ conn \in [Peers -> [Keys -> States]]
    /\ \A p \in Peers, k \in Keys : conn[p][k] = "none" => delayed[p][k] = <<>>
    /\ \A p \in Peers : firing[p] # <<>> => ticking[p]
    /\ heard \in [Peers -> [Keys -> Kinds \cup {"nothing"}]]
    /\ got \in [Peers -> [Keys -> 0 .. MaxPackets]]

(* The last the game has heard of a connection, or will hear of those to come. *)
Hears(p, key, kind) ==
    LET coming == firing[p] \o events[p]
    IN  \/ \E i \in DOMAIN coming :
             /\ coming[i] = [kind |-> kind, key |-> key]
             /\ \A j \in DOMAIN coming : j > i => coming[j].key # key
        \/ /\ heard[p][key] = kind
           /\ \A i \in DOMAIN coming : coming[i].key # key

(* Once the notifications under way have fired, the game knows of every open  *)
(* connection and of every request, and of nothing that is no longer so     *)
(* (queue_event in each handler, fire_connection_notifications).           *)
GameInformed ==
    \A p \in Peers, key \in Keys :
        /\ conn[p][key] = "open" <=> Hears(p, key, "established")
        /\ conn[p][key] = "requested" <=> Hears(p, key, "request")

(* The game can read a packet only on a connection that is open: no way of    *)
(* losing one leaves its packets in the queue (flush_packets).             *)
QueueOnlyOpen ==
    \A p \in Peers : \A r \in Range(received[p]) : conn[p][r.key] = "open"

(* Reliable packets of a connection are read in the order they were sent and  *)
(* each at most once, those that waited for the peer among them             *)
(* (send_packet, flush_delayed, receive_packet).                           *)
InOrder ==
    \A p \in Peers, key \in Keys :
        LET reliable(i) == received[p][i].key = key /\ received[p][i].packet.rel
            number(i) == received[p][i].packet.n
        IN  \A i \in DOMAIN received[p] : reliable(i) =>
              /\ number(i) > got[p][key]
              /\ \A j \in DOMAIN received[p] : reliable(j) /\ j > i => number(j) > number(i)

(* A packet never makes the incoming queue longer than the limit of the       *)
(* moment (on_network_message, set_packet_queue_size).                     *)
LimitRespected ==
    [][\A p \in Peers :
         Len(received'[p]) > Len(received[p]) =>
             limits[p].in = Unlimited \/ Len(received'[p]) <= limits[p].in]_vars

Linked(p, q) ==
    /\ {<<p, q>>, <<q, p>>} \subseteq up
    /\ wire[<<p, q>>] = <<>> /\ wire[<<q, p>>] = <<>>
    /\ late[p] = <<>> /\ late[q] = <<>>

(* A connection is only open once both sides have agreed: with nothing under  *)
(* way between two peers, either both hold a connection open or neither.    *)
OpenIsMutual ==
    \A pq \in Pairs, s \in Sockets :
        Linked(pq[1], pq[2]) /\ conn[pq[1]][<<pq[2], s>>] = "open"
            => conn[pq[2]][<<pq[1], s>>] = "open"

(* As long as no game has closed a connection and the mesh has not broken,    *)
(* one that is open at one end is open at the other, however the two came to *)
(* ask (accept_connection, on_network_message).                            *)
MutualUndisturbed == spent.closes = 0 /\ spent.drops = 0 => OpenIsMutual

(* A peer that left takes its connections with it: a request waits for the    *)
(* game only while the peer that made it is in the mesh.                    *)
RequesterPresent ==
    \A p \in Peers, key \in Keys :
        late[p] = <<>> /\ conn[p][key] = "requested" => <<p, key[1]>> \in up

(* A request is never lost: a connection we ask for opens or ends, once the   *)
(* mesh has stopped breaking and if the other game answers.                 *)
RequestSettles ==
    \A p \in Peers, key \in Keys : conn[p][key] = "pending" ~> conn[p][key] # "pending"
=============================================================================
