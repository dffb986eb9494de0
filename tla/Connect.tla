------------------------------ MODULE Connect ------------------------------
(***************************************************************************)
(* sdk_connect (src/interfaces/connect.cpp): whether the one local user is *)
(* logged in, and the roster of the peers who have said who they are.  A   *)
(* peer that has met another introduces itself if it is logged in then;    *)
(* nothing else makes it.  The name of a user is configured and stays, so  *)
(* a roster is the set of the peers it has a name for.                     *)
(*                                                                         *)
(* The module has the state and what a call, a frame or an event does to   *)
(* it; Social puts them together with the mesh.                            *)
(***************************************************************************)
EXTENDS MeshLink, SequencesExt

VARIABLES
    loggedIn,       \* whether local_users_ has the local user
    roster,         \* peers_
    transitions,    \* pending_status_changes_: logged in or out
    toldStatus,     \* history: the status the game of p was last notified of
    introduced      \* history: <<q, p>>: q was logged in when it met p

connectVars == <<loggedIn, roster, transitions, toldStatus, introduced>>

ConnectInit ==
    /\ loggedIn = [p \in Peers |-> FALSE]
    /\ roster = [p \in Peers |-> {}]
    /\ transitions = [p \in Peers |-> <<>>]
    /\ toldStatus = [p \in Peers |-> FALSE]
    /\ introduced = {}

(* login with well-formed options.  It succeeds again when it has already     *)
(* succeeded, but nothing changes then.                                    *)
LogIn(p) ==
    /\ loggedIn' = [loggedIn EXCEPT ![p] = TRUE]
    /\ transitions' = [transitions EXCEPT ![p] = IF loggedIn[p] THEN @ ELSE Append(@, TRUE)]
    /\ UNCHANGED <<roster, toldStatus, introduced>>

(* logout of the local user; of anybody else it is InvalidUser.               *)
LogOut(p) ==
    /\ loggedIn[p]
    /\ loggedIn' = [loggedIn EXCEPT ![p] = FALSE]
    /\ transitions' = [transitions EXCEPT ![p] = Append(@, FALSE)]
    /\ UNCHANGED <<roster, toldStatus, introduced>>

(* cb_run_frame: every change goes to the game, in order.                     *)
ReportStatus(p) ==
    /\ transitions[p] # <<>>
    /\ toldStatus' = [toldStatus EXCEPT ![p] = Last(transitions[p])]
    /\ transitions' = [transitions EXCEPT ![p] = <<>>]
    /\ UNCHANGED <<loggedIn, roster, introduced>>

(* announce_to: what tells a peer who p is.                                   *)
Announcement(p) == [type |-> "name", body |-> p]

(* Broken: only once the game has been notified of the login.                 *)
IntroductionOnceTold(p) == IF toldStatus[p] THEN <<Announcement(p)>> ELSE <<>>

(* What connect sends to a peer it has been told of.                          *)
Introduction(p) == IF loggedIn[p] THEN <<Announcement(p)>> ELSE <<>>

ConnectOnMet(p, q) ==
    /\ introduced' = IF loggedIn[p] THEN introduced \cup {<<p, q>>} ELSE introduced \ {<<p, q>>}
    /\ UNCHANGED <<loggedIn, roster, transitions, toldStatus>>

ConnectOnLeft(p, q) ==
    /\ roster' = [roster EXCEPT ![p] = @ \ {q}]
    /\ UNCHANGED <<loggedIn, transitions, toldStatus, introduced>>

(* A message of q, who is whoever the connection proved: it goes on the        *)
(* roster whether or not q is still there.                                 *)
ConnectOnMessage(p, q, m) ==
    /\ roster' = IF m.type = "name" /\ m.body = q THEN [roster EXCEPT ![p] = @ \cup {q}]
                 ELSE roster
    /\ UNCHANGED <<loggedIn, transitions, toldStatus, introduced>>

(* emu_deinit, and emu_init of the next process.                              *)
ConnectRestart(p) ==
    /\ loggedIn' = [loggedIn EXCEPT ![p] = FALSE]
    /\ roster' = [roster EXCEPT ![p] = {}]
    /\ transitions' = [transitions EXCEPT ![p] = <<>>]
    /\ toldStatus' = [toldStatus EXCEPT ![p] = FALSE]
    /\ UNCHANGED introduced

-----------------------------------------------------------------------------
(* What other interfaces and the game read.                                  *)
IsKnownPeer(p, q) == q \in roster[p]
=============================================================================
