-------------------------- MODULE DatagramChannel --------------------------
(***************************************************************************)
(* One direction of the datagram path between two authenticated peers:     *)
(* peer_channel::seal_datagram at the sender, an unreliable network, and   *)
(* peer_channel::open_datagram with its replay_window at the receiver      *)
(* (src/net/peer_channel.cpp).  The network may lose, repeat, delay and    *)
(* damage datagrams; a damaged one carries any sequence and no valid tag.  *)
(***************************************************************************)
EXTENDS Naturals

CONSTANTS Width,    \* replay_width: how many recent sequences are remembered
          Top       \* ~u64(0): the sequence the sender refuses to seal

ASSUME ChannelAssumption == Width \in Nat \ {0} /\ Top \in Nat

Seqs == 0 .. Top
Ages == 0 .. (Width - 1)

VARIABLES
    udp_seq,        \* the sender's next sequence
    network,        \* every datagram sealed so far; it may arrive 0, 1, 2.. times
    highest,        \* replay_window::highest_
    seen,           \* replay_window::seen_, as the set of ages whose bit is set
    handed          \* how often each sequence was handed to the game

vars == <<udp_seq, network, highest, seen, handed>>

-----------------------------------------------------------------------------
(* replay_window::accept.  Bit number a of seen_ stands for the sequence    *)
(* highest_ - a; a left shift ages every bit and lets the oldest fall off. *)

(* Broken: reaches one sequence beyond the bitmap.                          *)
AcceptsOneMore(seq) ==
    \/ seq > highest
    \/ seq <= highest /\ highest - seq \in (0 .. Width) \ seen

Accepts(seq) ==
    \/ seq > highest
    \/ seq <= highest /\ highest - seq \in Ages \ seen

Aged(shift) ==
    IF shift >= Width THEN {} ELSE {a \in Ages : \E b \in seen : a = b + shift}

Remember(seq) ==
    IF seq > highest
    THEN /\ highest' = seq
         /\ seen' = Aged(seq - highest) \cup {0}
    ELSE /\ seen' = seen \cup {highest - seq}
         /\ UNCHANGED highest

-----------------------------------------------------------------------------
Init ==
    /\ udp_seq = 0
    /\ network = {}
    /\ highest = 0
    /\ seen = {}
    /\ handed = [s \in Seqs |-> 0]

(* The sequence is the nonce: it is used and moved on, and the last one of  *)
(* the space is never used.                                                *)
NextSeq(seq) == seq + 1

(* Broken: the counter wraps at the end of its range.                       *)
SealWrapping ==
    /\ network' = network \cup {udp_seq}
    /\ udp_seq' = NextSeq(udp_seq) % (Top + 1)
    /\ UNCHANGED <<highest, seen, handed>>

Seal ==
    /\ udp_seq # Top
    /\ network' = network \cup {udp_seq}
    /\ udp_seq' = NextSeq(udp_seq)
    /\ UNCHANGED <<highest, seen, handed>>

(* A genuine datagram arrives: it authenticates, then the window decides.   *)
Open(seq) ==
    /\ seq \in network
    /\ Accepts(seq)
    /\ Remember(seq)
    /\ handed' = [handed EXCEPT ![seq] = @ + 1]
    /\ UNCHANGED <<udp_seq, network>>

(* One the window refuses, or one that does not authenticate, leaves no     *)
(* trace: the window is spent only after the tag has been checked.         *)
Refuse(seq) ==
    /\ seq \in network
    /\ ~Accepts(seq)
    /\ UNCHANGED vars

(* Broken: the window is spent before the tag has been checked.              *)
OpenDamagedSpends(seq) ==
    /\ Accepts(seq)
    /\ Remember(seq)
    /\ UNCHANGED <<udp_seq, network, handed>>

OpenDamaged(seq) == UNCHANGED vars

Next ==
    \/ Seal
    \/ \E seq \in Seqs : Open(seq)
    \/ \E seq \in Seqs : Refuse(seq)
    \/ \E seq \in Seqs : OpenDamaged(seq)

Spec == Init /\ [][Next]_vars

-----------------------------------------------------------------------------
(* Properties.                                                             *)

(* The state keeps its shape: sequences fit the counter, bits the bitmap.   *)
TypeOK ==
    /\ udp_seq \in Seqs
    /\ network \subseteq Seqs
    /\ highest \in Seqs
    /\ seen \subseteq Ages
    /\ handed \in [Seqs -> Nat]

Reached == {s \in Seqs : handed[s] > 0}

(* The bitmap is exactly the recent past: a bit is set if and only if the   *)
(* sequence it stands for was handed over (replay_window::accept).         *)
WindowExact ==
    /\ \A s \in Reached : s <= highest
    /\ \A a \in Ages : a \in seen <=> a <= highest /\ handed[highest - a] > 0

(* However the network repeats and reorders, the game never sees the same   *)
(* datagram twice (peer_channel::open_datagram).                           *)
AtMostOnce == \A s \in Seqs : handed[s] <= 1

(* A datagram overtaken by fewer than Width others is late, not a replay:   *)
(* whatever else arrived before it, damaged datagrams included, it still    *)
(* opens (the window is only spent on a datagram that authenticated).      *)
ReorderTolerated ==
    \A s \in network \ Reached : s + Width >= udp_seq => Accepts(s)

(* No two datagrams are sealed under one nonce, up to and including the end *)
(* of the counter's range (peer_channel::seal_datagram).                   *)
NonceFresh == [][udp_seq' # udp_seq => udp_seq \notin network]_vars

Service == INSTANCE DatagramService WITH sealed <- network, reached <- handed

(* The channel implements the service: every step sends one new datagram,   *)
(* hands over one that was never handed over, or changes nothing the game   *)
(* can see (peer_channel's two datagram operations taken together).        *)
ImplementsService == Service!Spec
=============================================================================
