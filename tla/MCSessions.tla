----------------------------- MODULE MCSessions -----------------------------
(* Small instances of Sessions for TLC.                                     *)
EXTENDS Sessions

Open == [room |-> 3, late |-> TRUE, public |-> TRUE]
Closed == [room |-> 2, late |-> FALSE, public |-> TRUE]

AnySettings == {Open, Closed}

(* Peer 1 hosts, peer 2 has joined, peer 3 has not.  Under the later of two    *)
(* names, so that the earlier may come before it.                          *)
TwoOfThree ==
    {<<2, [owner |-> 1, roster |-> {1, 2}, settings |-> Open, phase |-> "pending"]>>}

AnyThree ==
    [creates |-> 1, searches |-> 1, finds |-> 1, joins |-> 2, leaves |-> 2, writes |-> 2,
     seats |-> 2, timeouts |-> 1, crashes |-> 1, breaks |-> 1, all |-> 3]
=============================================================================
