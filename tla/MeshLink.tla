------------------------------ MODULE MeshLink ------------------------------
(***************************************************************************)
(* The mesh as the interfaces above message_router see it: one reliable    *)
(* ordered stream per direction between two peers that have met, and        *)
(* datagrams beside it.  The two ends learn of a connection, and of its     *)
(* loss, at different times: the side that dialled adopts the peer first,   *)
(* and each end drops the other on its own evidence (an end of stream, a    *)
(* failed send, ten seconds of silence).  src/net/message_router.cpp.       *)
(*                                                                         *)
(* The module has state and the changes a connection can go through; the   *)
(* interface composed with it says when, and what it does about them.      *)
(***************************************************************************)
EXTENDS Naturals, Sequences

CONSTANT Peers

VARIABLES
    up,         \* <<p, q>>: q is in p's peers_
    accepting,  \* <<p, q>>: q adopted p over a handshake p has yet to finish
    wire,       \* wire[<<p, q>>]: what p wrote to q and q has not read
    air,        \* datagrams under way
    late        \* late[p]: envelopes p read in the pass in which it dropped their
                \* sender, to be dispatched after the peer_disconnected event

linkVars == <<up, accepting, wire, air, late>>

Pairs == {pq \in Peers \X Peers : pq[1] # pq[2]}

Eof == [type |-> "eof"]

LinkInit ==
    /\ up = {}
    /\ accepting = {}
    /\ wire = [pq \in Pairs |-> <<>>]
    /\ air = {}
    /\ late = [p \in Peers |-> <<>>]

(* All peers have already met each other.                                   *)
LinkInitMet ==
    /\ up = Pairs
    /\ accepting = {}
    /\ wire = [pq \in Pairs |-> <<>>]
    /\ air = {}
    /\ late = [p \in Peers |-> <<>>]

-----------------------------------------------------------------------------
(* Whether q has, or will have, somewhere to read what p writes.            *)
Reads(q, p) == <<q, p>> \in up \cup accepting

(* message_router::send to one peer: nothing is kept for a peer we have not *)
(* met, and what the other end will never read is gone.                    *)
Posted(w, p, q, msgs) ==
    IF <<p, q>> \in up /\ Reads(q, p) THEN [w EXCEPT ![<<p, q>>] = @ \o msgs] ELSE w

(* Datagrams between the two ends are sealed under the keys of one           *)
(* connection and open under no other.                                     *)
AirBetween(p, q) == {d \in air : {d.from, d.to} = {p, q}}

(* The side that dialled finishes the handshake and adopts the peer.  Only   *)
(* the end of everything that came before is followed by a new connection.   *)
(* hello is what the interfaces send when they are told of the peer.         *)
MeetAsDialler(p, q, hello) ==
    /\ {<<p, q>>, <<q, p>>} \cap (up \cup accepting) = {}
    /\ up' = up \cup {<<p, q>>}
    /\ accepting' = accepting \cup {<<q, p>>}
    /\ wire' = [wire EXCEPT ![<<p, q>>] = hello, ![<<q, p>>] = <<>>]
    /\ air' = air \ AirBetween(p, q)
    /\ UNCHANGED late

(* The side that accepted reads the last handshake message, and from then on *)
(* everything behind it.                                                   *)
MeetAsAcceptor(p, q, hello) ==
    /\ <<p, q>> \in accepting
    /\ up' = up \cup {<<p, q>>}
    /\ accepting' = accepting \ {<<p, q>>}
    /\ wire' = IF Reads(q, p) THEN [wire EXCEPT ![<<p, q>>] = @ \o hello] ELSE wire
    /\ UNCHANGED <<air, late>>

(* It gives the handshake up instead: too slow, or not to be adopted.        *)
TurnAway(p, q) ==
    /\ <<p, q>> \in accepting
    /\ accepting' = accepting \ {<<p, q>>}
    /\ wire' = [wire EXCEPT ![<<q, p>>] = <<>>,
                            ![<<p, q>>] = IF <<q, p>> \in up THEN <<Eof>> ELSE <<>>]
    /\ UNCHANGED <<up, air, late>>

(* p drops q.  q reads some of what p had sent and then the end of the       *)
(* stream; p dispatches what it had read in the same pass, the first n      *)
(* envelopes, only after it has told the interfaces that q is gone          *)
(* (drain_peers), and never sees the rest.  w is the wire with what the     *)
(* interfaces send to other peers when they are told.                      *)
DropPeer(p, q, n, w) ==
    /\ <<p, q>> \in up
    /\ n <= Len(wire[<<q, p>>])
    /\ \A i \in 1 .. n : wire[<<q, p>>][i] # Eof
    /\ up' = up \ {<<p, q>>}
    /\ UNCHANGED accepting
    /\ air' = {d \in air : d.to = p => d.from # q}
    /\ late' = [late EXCEPT ![p] =
                  [i \in 1 .. n |-> [from |-> q, msg |-> wire[<<q, p>>][i]]]]
    /\ \E kept \in 0 .. Len(wire[<<p, q>>]) :
         wire' = [w EXCEPT ![<<q, p>>] = <<>>,
                           ![<<p, q>>] = IF Reads(q, p)
                                         THEN SubSeq(wire[<<p, q>>], 1, kept) \o <<Eof>>
                                         ELSE <<>>]

(* The machine of p goes away, and with it what it had not sent and not read. *)
(* Whoever had adopted it comes to the end of the stream sooner or later.    *)
Vanish(p) ==
    LET ended == {pq \in up \cup accepting : pq[1] = p /\ Reads(pq[2], p)}
    IN  /\ up' = {pq \in up : pq[1] # p}
        /\ accepting' = {pq \in accepting : pq[1] # p}
        /\ air' = {d \in air : d.to # p}
        /\ late' = [late EXCEPT ![p] = <<>>]
        /\ \E kept \in [ended -> UNION {0 .. Len(wire[pq]) : pq \in ended}] :
             /\ \A pq \in ended : kept[pq] <= Len(wire[pq])
             /\ wire' = [pq \in Pairs |->
                           IF pq[2] = p THEN <<>>
                           ELSE IF pq \in ended THEN SubSeq(wire[pq], 1, kept[pq]) \o <<Eof>>
                           ELSE wire[pq]]
=============================================================================
