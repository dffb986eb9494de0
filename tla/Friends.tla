------------------------------ MODULE Friends ------------------------------
(***************************************************************************)
(* sdk_friends and sdk_userinfo (src/interfaces/friends.cpp, userinfo.cpp): *)
(* both derived from the events of the mesh.  Every peer is a friend while *)
(* it is there, under the account its key derives, and a record of a user  *)
(* is the name connect has for the peer behind the account.  A key derives *)
(* one account and one product user id, so a peer stands for both.         *)
(***************************************************************************)
EXTENDS Connect

VARIABLES
    friends,        \* friends_ and friend_by_peer_
    updates,        \* pending_updates_
    shown,          \* history: the friends the game of p has been notified of
    users           \* epic_to_peer_ of user info

friendsVars == <<friends, updates, shown, users>>

FriendsInit ==
    /\ friends = [p \in Peers |-> {}]
    /\ updates = [p \in Peers |-> <<>>]
    /\ shown = [p \in Peers |-> {}]
    /\ users = [p \in Peers |-> {}]

(* A peer becomes a friend once.                                             *)
FriendsOnMet(p, q) ==
    /\ friends' = [friends EXCEPT ![p] = @ \cup {q}]
    /\ updates' = [updates EXCEPT ![p] = IF q \in friends[p] THEN @
                                         ELSE Append(@, [who |-> q, friend |-> TRUE])]
    /\ users' = [users EXCEPT ![p] = @ \cup {q}]
    /\ UNCHANGED shown

FriendsOnLeft(p, q) ==
    /\ friends' = [friends EXCEPT ![p] = @ \ {q}]
    /\ updates' = [updates EXCEPT ![p] = IF q \in friends[p]
                                         THEN Append(@, [who |-> q, friend |-> FALSE]) ELSE @]
    /\ users' = [users EXCEPT ![p] = @ \ {q}]
    /\ UNCHANGED shown

(* Whom a game that knows of the friends s knows of once it has been told of   *)
(* the updates us: the last word about each counts.                         *)
ToldAll(s, us) ==
    {q \in Peers :
       \/ q \in s /\ \A i \in DOMAIN us : us[i].who # q
       \/ \E i \in DOMAIN us :
            /\ us[i] = [who |-> q, friend |-> TRUE]
            /\ \A j \in DOMAIN us : j > i => us[j].who # q}

(* cb_run_frame: every update goes to the game, in order.                     *)
ReportFriends(p) ==
    /\ updates[p] # <<>>
    /\ shown' = [shown EXCEPT ![p] = ToldAll(@, updates[p])]
    /\ updates' = [updates EXCEPT ![p] = <<>>]
    /\ UNCHANGED <<friends, users>>

FriendsRestart(p) ==
    /\ friends' = [friends EXCEPT ![p] = {}]
    /\ updates' = [updates EXCEPT ![p] = <<>>]
    /\ shown' = [shown EXCEPT ![p] = {}]
    /\ users' = [users EXCEPT ![p] = {}]

-----------------------------------------------------------------------------
(* What the game reads.  get_status; the results of an invite sent, accepted  *)
(* or rejected; whether a record of a user is there; and who has a name, by  *)
(* which a user is found and shown: one without is as good as none.         *)
IsFriend(p, t) == t \in friends[p]

InviteResult(p, t) == IF IsFriend(p, t) THEN "Success" ELSE "NotFound"

Resolved(p, t) == t = p \/ t \in users[p]

Named(p, t) == t = p \/ (t \in users[p] /\ IsKnownPeer(p, t))

QueryUserInfo(p, t) == IF Resolved(p, t) THEN "Success" ELSE "NotFound"

QueryUserInfoByDisplayName(p, t) == IF Named(p, t) THEN "Success" ELSE "NotFound"

CopyBestDisplayName(p, t) ==
    IF Resolved(p, t) /\ Named(p, t) THEN "Success" ELSE "NotFound"
=============================================================================
