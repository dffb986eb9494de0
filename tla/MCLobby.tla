------------------------------ MODULE MCLobby ------------------------------
(* Small instances of Lobby for TLC.                                        *)
EXTENDS Lobby

Together(members, owner) ==
    [owner |-> owner, roster |-> [m \in members |-> {}], room |-> 3, migrate |-> TRUE]

(* Everybody is in the lobby of peer 3; the heir's id is lower.              *)
AllTogether == {Together(Peers, 3)}

(* Peer 2 is not in the lobby yet.                                          *)
TwoTogether == {Together({3, 4}, 4)}

AllOrTwo == AllTogether \cup TwoTogether

AnyThree ==
    [creates |-> 1, finds |-> 1, joins |-> 2, leaves |-> 2, kicks |-> 1, handovers |-> 2,
     updates |-> 2, timeouts |-> 1, crashes |-> 1, breaks |-> 1, all |-> 3]

(* Somebody joins, and a machine goes away.                                 *)
JoinAndCrash ==
    [kind \in Kinds |-> IF kind \in {"finds", "joins", "crashes"} THEN 1
                        ELSE IF kind = "all" THEN 2 ELSE 0]
=============================================================================
