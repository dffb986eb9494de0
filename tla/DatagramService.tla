-------------------------- MODULE DatagramService --------------------------
(***************************************************************************)
(* What the unreliable P2P path promises the game, with no window and no   *)
(* bitmap in sight: a datagram that was sealed may reach the game, in any  *)
(* order, never twice, and nothing reaches it that was not sealed.  The    *)
(* sender names every datagram with a number of its own.                   *)
(* DatagramChannel implements this.                                        *)
(***************************************************************************)
EXTENDS Naturals

CONSTANT Seqs       \* the numbers a datagram can carry

VARIABLES sealed,   \* the datagrams sealed so far
          reached   \* how often each datagram reached the game

vars == <<sealed, reached>>

Init == sealed = {} /\ reached = [s \in Seqs |-> 0]

Send(s) ==
    /\ s \notin sealed
    /\ sealed' = sealed \cup {s}
    /\ UNCHANGED reached

Reach(s) ==
    /\ s \in sealed
    /\ reached[s] = 0
    /\ reached' = [reached EXCEPT ![s] = 1]
    /\ UNCHANGED sealed

Next == \E s \in Seqs : Send(s) \/ Reach(s)

Spec == Init /\ [][Next]_vars
=============================================================================
