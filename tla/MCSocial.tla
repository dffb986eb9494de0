------------------------------ MODULE MCSocial ------------------------------
(* Small instances of Social for TLC.                                       *)
EXTENDS Social

Few == [logins |-> 2, drafts |-> 3, sets |-> 1, queries |-> 1, timeouts |-> 1, meets |-> 2,
        breaks |-> 1, crashes |-> 1, all |-> 6]

(* Neither the peers nor the keys have an order.                             *)
Alike == Permutations(Peers) \cup Permutations(Keys)
=============================================================================
