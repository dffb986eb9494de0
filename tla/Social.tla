------------------------------- MODULE Social -------------------------------
(***************************************************************************)
(* Who is there, as the game of each peer sees it: the connect, friends,   *)
(* user info and presence interfaces of a platform over one mesh.  The     *)
(* mesh dispatches every event to all of them before the next.             *)
(***************************************************************************)
EXTENDS Friends, Presence

CONSTANT Bounds     \* how often each kind of thing may happen, and all of them

VARIABLE spent      \* what has been used of the bounds

vars == <<connectVars, friendsVars, presenceVars, linkVars, spent>>

Kinds == {"logins", "drafts", "sets", "queries", "timeouts", "meets", "breaks", "crashes", "all"}

ASSUME BoundsAssumption == Bounds \in [Kinds -> Nat]

Spend(kind) ==
    /\ spent[kind] < Bounds[kind] /\ spent.all < Bounds.all
    /\ spent' = [spent EXCEPT ![kind] = @ + 1, !.all = @ + 1]

Init ==
    /\ LinkInit
    /\ ConnectInit
    /\ FriendsInit
    /\ PresenceInit
    /\ spent = [kind \in Kinds |-> 0]

-----------------------------------------------------------------------------
(* The calls of the game, between ticks or from a callback.                  *)

Calls(p) == late[p] = <<>>

ConnectCall(p) ==
    /\ Calls(p)
    /\ Spend("logins")
    /\ LogIn(p) \/ LogOut(p)
    /\ UNCHANGED <<friendsVars, presenceVars, linkVars>>

(* Whatever is done to a draft, and releasing it.                             *)
DraftCall(p) ==
    /\ Calls(p)
    /\ Spend("drafts")
    /\ \/ CreatePresenceModification(p)
       \/ \E status \in Statuses : ModificationSetStatus(p, status)
       \/ \E batch \in Batches : ModificationSetData(p, batch)
       \/ \E batch \in Batches : ModificationDeleteData(p, batch)
       \/ ModificationRelease(p)
    /\ UNCHANGED <<connectVars, friendsVars, linkVars>>

PresenceCall(p) ==
    /\ Calls(p)
    /\ \/ Spend("sets") /\ SetPresence(p)
       \/ Spend("queries") /\ \E t \in Peers : QueryPresence(p, t)
    /\ UNCHANGED <<connectVars, friendsVars, up, accepting, air, late>>

-----------------------------------------------------------------------------
(* The tick: the frames of the interfaces, then the results.                 *)

Tick(p) ==
    \/ /\ ReportStatus(p)
       /\ UNCHANGED <<friendsVars, presenceVars, linkVars, spent>>
    \/ /\ ReportFriends(p)
       /\ UNCHANGED <<connectVars, presenceVars, linkVars, spent>>
    \/ /\ \E t \in Peers : QueryAnswered(p, t)
       /\ UNCHANGED <<connectVars, friendsVars, linkVars, spent>>
    \/ /\ \E t \in Peers : QueryTimedOut(p, t)
       /\ Spend("timeouts")
       /\ UNCHANGED <<connectVars, friendsVars, linkVars>>

-----------------------------------------------------------------------------
(* The mesh, dispatching to the interfaces.                                  *)

(* peer_connected.                                                          *)
Meet(p, q) ==
    LET hello == Introduction(p) \o <<Telling(mine[p])>>
    IN  /\ late[p] = <<>>
        /\ \/ Spend("meets") /\ MeetAsDialler(p, q, hello)
           \/ MeetAsAcceptor(p, q, hello) /\ UNCHANGED spent
        /\ ConnectOnMet(p, q)
        /\ FriendsOnMet(p, q)
        /\ PresenceOnMet(p, q)

(* peer_disconnected.                                                       *)
Left(p, q, n) ==
    /\ DropPeer(p, q, n, wire)
    /\ ConnectOnLeft(p, q)
    /\ FriendsOnLeft(p, q)
    /\ PresenceOnLeft(p, q)

(* The stream of q has ended.                                               *)
Lose(p, q, n) ==
    /\ late[p] = <<>>
    /\ Eof \in Range(wire[<<q, p>>])
    /\ Left(p, q, n)
    /\ UNCHANGED spent

(* The connection of two live peers breaks; p is the first to know.           *)
Break(p, q, n) ==
    /\ late[p] = <<>>
    /\ Eof \notin Range(wire[<<q, p>>])
    /\ Spend("breaks")
    /\ Left(p, q, n)

GiveUp(p, q) ==
    /\ TurnAway(p, q)
    /\ Spend("breaks")
    /\ UNCHANGED <<connectVars, friendsVars, presenceVars>>

(* A message; w is the wire without it.                                      *)
OnNetworkMessage(p, q, m, w) ==
    /\ ConnectOnMessage(p, q, m)
    /\ PresenceOnMessage(p, q, m)
    /\ wire' = Posted(w, p, q, AnswerTo(p, m))
    /\ UNCHANGED <<friendsVars, up, accepting, air, spent>>

Deliver(p, q) ==
    /\ late[p] = <<>>
    /\ <<p, q>> \in up
    /\ wire[<<q, p>>] # <<>> /\ Head(wire[<<q, p>>]) # Eof
    /\ OnNetworkMessage(p, q, Head(wire[<<q, p>>]), [wire EXCEPT ![<<q, p>>] = Tail(@)])
    /\ UNCHANGED late

(* An envelope read before its sender was dropped and dispatched after.      *)
DeliverLate(p) ==
    /\ late[p] # <<>>
    /\ OnNetworkMessage(p, Head(late[p]).from, Head(late[p]).msg, wire)
    /\ late' = [late EXCEPT ![p] = Tail(@)]

(* A machine goes away, and comes back with nothing but its identity.         *)
Crash(p) ==
    /\ Spend("crashes")
    /\ Vanish(p)
    /\ ConnectRestart(p)
    /\ FriendsRestart(p)
    /\ PresenceRestart(p)

-----------------------------------------------------------------------------
Game(p) == ConnectCall(p) \/ DraftCall(p) \/ PresenceCall(p)

Mesh(p) ==
    \/ \E q \in Peers \ {p} : Meet(p, q) \/ GiveUp(p, q)
    \/ \E q \in Peers \ {p} : \E n \in 0 .. Len(wire[<<q, p>>]) : Lose(p, q, n)
    \/ \E q \in Peers \ {p} : \E n \in 0 .. Len(wire[<<q, p>>]) : Break(p, q, n)
    \/ \E q \in Peers \ {p} : Deliver(p, q)
    \/ DeliverLate(p)
    \/ Crash(p)

Next == \E p \in Peers : Game(p) \/ Tick(p) \/ Mesh(p)

Spec == Init /\ [][Next]_vars

-----------------------------------------------------------------------------
(* Properties.                                                             *)

TypeOK ==
    /\ up \cup accepting \subseteq Pairs
    /\ loggedIn \in [Peers -> BOOLEAN] /\ toldStatus \in [Peers -> BOOLEAN]
    /\ roster \in [Peers -> SUBSET Peers]
    /\ friends \in [Peers -> SUBSET Peers] /\ shown \in [Peers -> SUBSET Peers]
    /\ users \in [Peers -> SUBSET Peers] /\ proved \in [Peers -> SUBSET Peers]
    /\ mine \in [Peers -> Presences]
    /\ held \in [Peers -> [Peers -> Presences \cup {NoPresence}]]
    /\ seen \in [Peers -> [Peers -> Presences \cup {NoPresence}]]
    /\ queries \in [Peers -> [Peers -> {"none", "asked", "found"}]]
    /\ \A p \in Peers :
         /\ transitions[p] \in Seq(BOOLEAN)
         /\ updates[p] \in Seq([who : Peers, friend : BOOLEAN])
         /\ draft[p].status \in Statuses \cup {None}
         /\ draft[p].deleted \cup draft[p].set \subseteq Keys

Met(p) == {q \in Peers : <<p, q>> \in up}
Connected(p, q) == {<<p, q>>, <<q, p>>} \subseteq up

(* Nothing is under way between p and q.                                     *)
Quiet(p, q) == Connected(p, q) /\ wire[<<p, q>>] = <<>> /\ wire[<<q, p>>] = <<>>

(* As long as two peers are connected, each has the presence of the other as   *)
(* it is now, or has it before it as the last word of the other.  So a change *)
(* is never missed, a peer that comes late included (set_presence,           *)
(* broadcast_my_presence, on_network_message).                              *)
PresenceCurrent ==
    \A p, q \in Peers : Connected(p, q) =>
        LET tells(i) == wire[<<q, p>>][i].type = "presence"
        IN  \/ /\ held[p][q] = mine[q]
               /\ \A i \in DOMAIN wire[<<q, p>>] : ~tells(i)
            \/ \E i \in DOMAIN wire[<<q, p>>] :
                 /\ wire[<<q, p>>][i] = Telling(mine[q])
                 /\ \A j \in DOMAIN wire[<<q, p>>] : j > i => ~tells(j)

(* Whoever is gone is gone from everything the game asks but connect: no       *)
(* presence is left of it, it is no friend, no invite to it succeeds and no   *)
(* record of it is found; and everyone who is there is in all of them, but    *)
(* for a presence that has not come yet.                                    *)
ReadersAgree ==
    \A p, t \in Peers : p # t =>
        /\ IsFriend(p, t) <=> t \in Met(p)
        /\ QueryUserInfo(p, t) = InviteResult(p, t)
        /\ HasPresence(p, t) => IsFriend(p, t)
        /\ "Success" \in {QueryUserInfoByDisplayName(p, t), CopyBestDisplayName(p, t)}
              => IsFriend(p, t)

(* Once the game has been told of what is still to be told, it knows who is    *)
(* its friend, whether it is logged in, and the presence of everyone of whom *)
(* one is held (cb_run_frame of connect and of friends,                     *)
(* fire_presence_changed).                                                 *)
GameCatchesUp ==
    \A p \in Peers :
        /\ ToldAll(shown[p], updates[p]) = friends[p]
        /\ loggedIn[p] = IF transitions[p] = <<>> THEN toldStatus[p] ELSE Last(transitions[p])
        /\ \A q \in Peers : held[p][q] # NoPresence => seen[p][q] = held[p][q]

(* Two peers that are connected, of which one was logged in when it met the    *)
(* other, are known by name to it, or the name is under way (on_network_message *)
(* of connect, announce_to).                                              *)
IntroducedIsKnown ==
    \A p, q \in Peers : Connected(p, q) /\ <<q, p>> \in introduced =>
        IsKnownPeer(p, q) \/ Announcement(q) \in Range(wire[<<q, p>>])

-----------------------------------------------------------------------------
(* What the program says of itself.                                         *)

(* is_known_peer: "whether this player is one we have actually met on the     *)
(* mesh" (connect.h).                                                      *)
MetIsKnown ==
    \A p, q \in Peers : Quiet(p, q) /\ loggedIn[p] /\ loggedIn[q] => IsKnownPeer(p, q)
=============================================================================
