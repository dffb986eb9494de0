------------------------------- MODULE Lobby -------------------------------
(***************************************************************************)
(* sdk_lobby (src/interfaces/lobby.cpp): one lobby and what every peer of  *)
(* the mesh holds of it.  The host owns the roster, admits, removes and    *)
(* broadcasts; the members copy what it says; ownership passes on when the *)
(* host leaves, promotes a member, or is lost.  Lobbies share nothing but  *)
(* the streams, so one stands for all.                                     *)
(*                                                                         *)
(* The attributes of a member are the set of the updates its game made     *)
(* that are still in them.                                                 *)
(***************************************************************************)
EXTENDS MeshLink, FiniteSetsExt, SequencesExt, Functions

CONSTANTS
    None,           \* no owner
    Formed,         \* lobbies that may exist at the start, everyone in agreement
    Rooms,          \* the values of max_members a game may set
    Migrations,     \* whether a lobby may be made with or without host migration
    AllowJoinById,  \* allow_join_by_id of the lobby
    Bounds          \* bounds: how often each kind of thing may happen, and all of them

VARIABLES
    entry,          \* lobbies_: what p holds of the lobby
    details,        \* the copy of the lobby that p's game may join with
    pending,        \* pending_joins_, in the order in which they are looked through
    newest,         \* history: the last update p's game made since it joined, or 0
    astray,         \* history: a word about the lobby was lost on whom it concerned
    spent           \* what has been used of the bounds

vars == <<entry, details, pending, newest, astray, spent, linkVars>>

Kinds == {"creates", "finds", "joins", "leaves", "kicks", "handovers", "updates",
          "timeouts", "crashes", "breaks", "all"}

States == {"none", "joining", "joined", "hosting"}

(* lobby_infos; the roster gives each member its attributes.                  *)
NoInfos == [owner |-> None, roster |-> [m \in {} |-> {}], room |-> 0, migrate |-> FALSE]
Absent == [state |-> "none", infos |-> NoInfos]

Members(infos) == DOMAIN infos.roster

IsInfos(infos) ==
    /\ infos \in [owner : Peers \cup {None}, roster : {infos.roster}, room : Nat,
                  migrate : BOOLEAN]
    /\ infos.roster \in [Members(infos) -> SUBSET Nat] /\ Members(infos) \subseteq Peers

ASSUME LobbyAssumption ==
    /\ Peers \subseteq Nat /\ None \notin Peers
    /\ \A infos \in Formed : IsInfos(infos) /\ infos.owner \in Members(infos)
    /\ Rooms \subseteq Nat \ {0} /\ Migrations \subseteq BOOLEAN
    /\ Bounds \in [Kinds -> Nat]
    /\ Bounds.creates <= 1      \* create_lobby gives each lobby an id of its own

State(p) == entry[p].state
Infos(p) == entry[p].infos
InLobby(p) == State(p) \in {"joined", "hosting"}

Seat(infos, m, attributes) ==
    [infos EXCEPT !.roster = [x \in Members(infos) \cup {m} |->
                                IF x = m THEN attributes ELSE infos.roster[x]]]
Unseat(infos, m) == [infos EXCEPT !.roster = Restrict(@, Members(infos) \ {m})]

Init ==
    /\ LinkInitMet
    /\ \E infos \in Formed \cup {NoInfos} :
         /\ entry = [p \in Peers |->
                       IF p \notin Members(infos) THEN Absent
                       ELSE [state |-> IF p = infos.owner THEN "hosting" ELSE "joined",
                             infos |-> infos]]
         /\ spent = [kind \in Kinds |-> IF kind = "creates" /\ infos # NoInfos THEN 1 ELSE 0]
    /\ details = [p \in Peers |-> NoInfos]
    /\ pending = [p \in Peers |-> <<>>]
    /\ newest = [p \in Peers |-> 0]
    /\ astray = FALSE

-----------------------------------------------------------------------------
(* What the operations share.                                              *)

(* Everything but finding is also counted together.                          *)
Spend(kind) ==
    LET used == IF kind = "finds" THEN {kind} ELSE {kind, "all"}
    IN  /\ \A k \in used : spent[k] < Bounds[k]
        /\ spent' = [k \in Kinds |-> IF k \in used THEN spent[k] + 1 ELSE spent[k]]

Becomes(p, state, infos) == entry' = [entry EXCEPT ![p] = [state |-> state, infos |-> infos]]
Erase(p) == entry' = [entry EXCEPT ![p] = Absent]

(* send_to, to each of some peers; w is the wire before.                      *)
SendTo(w, p, to, type, body) ==
    [pq \in Pairs |->
       IF pq[1] = p /\ pq[2] \in to
       THEN Posted(w, p, pq[2], <<[type |-> type, body |-> body]>>)[pq]
       ELSE w[pq]]

(* broadcast_lobby: the whole of it to everyone else on the roster.           *)
BroadcastLobby(w, p, infos) == SendTo(w, p, Members(infos) \ {p}, "infos", infos)

(* elect_owner, where the lobby migrates: the smallest id of those who stay.  *)
ElectOwner(infos, leaving) ==
    LET staying == Members(infos) \ {leaving}
    IN  IF infos.migrate /\ staying # {} THEN Min(staying) ELSE None

(* A word goes astray when nobody listens at the other end, when whom it       *)
(* concerns does not heed it, or when it was meant for an earlier stay.      *)
GoesAstray(when) == astray' = (astray \/ when)

(* Whom p's word for the owner goes to: a message to nobody in particular, as  *)
(* when p has joined by id and has no answer yet, goes to everybody.         *)
TheOwner(p) ==
    IF Infos(p).owner = None THEN {q \in Peers : <<p, q>> \in up} ELSE {Infos(p).owner}

(* Whether what p tells the owner q now is lost.  What is told to everybody    *)
(* counts: whoever is to become the owner will not have heeded it.           *)
Unheard(p, q) == q = None \/ <<p, q>> \notin up \/ ~Reads(q, p)

(* Something is under way to p or from it.                                    *)
UnderWay(p) == \E pq \in Pairs : p \in {pq[1], pq[2]} /\ wire[pq] # <<>>

(* A member's word to the owner is under way.                                *)
WordsForOwner == \E pq \in Pairs : \E m \in Range(wire[pq]) : m.type \in {"leave", "update"}

(* Nothing about the lobby is under way anywhere.                            *)
Settled ==
    /\ \A p, q \in Peers : <<p, q>> \in up => <<q, p>> \in up
    /\ \A pq \in Pairs : wire[pq] = <<>>
    /\ \A p \in Peers : late[p] = <<>> /\ State(p) # "joining"

-----------------------------------------------------------------------------
(* The calls of the game, between ticks or from a callback.                  *)

Calls(p) == late[p] = <<>>

CreateLobby(p, room, migrate) ==
    /\ Calls(p) /\ State(p) = "none"
    /\ Spend("creates")
    /\ Becomes(p, "hosting",
               [owner |-> p, roster |-> [m \in {p} |-> {}], room |-> room, migrate |-> migrate])
    /\ UNCHANGED <<details, pending, newest, astray, linkVars>>

(* search_find and copy_lobby_details_handle: the game gets a copy of what a  *)
(* host answers, or of what it holds itself.  The search is the moment the   *)
(* host answers it; the copy ages from then on.                            *)
FindLobby(p, h) ==
    /\ Calls(p)
    /\ \/ p = h /\ State(p) # "none"
       \/ p # h /\ <<p, h>> \in up /\ <<h, p>> \in up /\ State(h) = "hosting"
    /\ details[p] # Infos(h)
    /\ Spend("finds")
    /\ details' = [details EXCEPT ![p] = Infos(h)]
    /\ UNCHANGED <<entry, pending, newest, astray, linkVars>>

(* A join asked for while another is unanswered may be answered by its answer. *)
AwaitJoin(p) ==
    /\ \E i \in 0 .. Len(pending[p]) :
         pending' = [pending EXCEPT ![p] = InsertAt(@, i + 1, "waiting")]
    /\ newest' = [newest EXCEPT ![p] = 0]
    /\ GoesAstray(pending[p] # <<>> \/ UnderWay(p))

(* join_lobby, with a host we have met.                                      *)
JoinLobby(p) ==
    LET owner == details[p].owner
    IN  /\ Calls(p) /\ State(p) = "none"
        /\ owner # None /\ <<p, owner>> \in up
        /\ Spend("joins")
        /\ Becomes(p, "joining", details[p])
        /\ AwaitJoin(p)
        /\ wire' = SendTo(wire, p, {owner}, "request", FALSE)
        /\ UNCHANGED <<details, up, accepting, air, late>>

(* join_lobby_by_id: we do not know who hosts it, so we ask them all.         *)
JoinLobbyById(p) ==
    /\ Calls(p) /\ State(p) = "none"
    /\ Spend("joins")
    /\ Becomes(p, "joining", NoInfos)
    /\ AwaitJoin(p)
    /\ wire' = SendTo(wire, p, {q \in Peers : <<p, q>> \in up}, "request", TRUE)
    /\ UNCHANGED <<details, up, accepting, air, late>>

(* close_hosted_lobby: to the heir, or closed for everyone.                   *)
CloseHostedLobby(p) ==
    LET heir == ElectOwner(Infos(p), p)
    IN  wire' = IF heir = None
                THEN SendTo(wire, p, Members(Infos(p)) \ {p}, "destroy", None)
                ELSE BroadcastLobby(wire, p, [Unseat(Infos(p), p) EXCEPT !.owner = heir])

(* leave_lobby and destroy_lobby, which do the same.                         *)
LeaveLobby(p) ==
    /\ Calls(p) /\ State(p) # "none"
    /\ Spend(IF State(p) = "hosting" THEN "handovers" ELSE "leaves")
    /\ IF State(p) = "hosting"
       THEN CloseHostedLobby(p)
       ELSE wire' = SendTo(wire, p, TheOwner(p), "leave", None)
    /\ Erase(p)
    /\ GoesAstray(IF State(p) = "hosting" THEN WordsForOwner ELSE Unheard(p, Infos(p).owner))
    /\ UNCHANGED <<details, pending, newest, up, accepting, air, late>>

(* update_lobby, while p is on its roster, adds to its own attributes.        *)
Updated(p) ==
    IF p \in Members(Infos(p))
    THEN Seat(Infos(p), p, Infos(p).roster[p] \cup {spent.updates + 1})
    ELSE Infos(p)

RecordUpdate(p) ==
    newest' = [newest EXCEPT ![p] = IF p \in Members(Infos(p)) THEN spent.updates + 1 ELSE @]

OwnAttributes(infos, p) == IF p \in Members(infos) THEN infos.roster[p] ELSE {}

(* update_lobby by the owner: the settings, its own attributes, and everyone   *)
(* is told.                                                                *)
UpdateLobby(p, room) ==
    LET infos == [Updated(p) EXCEPT !.room = room]
    IN  /\ Calls(p) /\ State(p) # "none" /\ Infos(p).owner = p
        /\ Spend("updates")
        /\ Becomes(p, State(p), infos)
        /\ wire' = BroadcastLobby(wire, p, infos)
        /\ RecordUpdate(p)
        /\ UNCHANGED <<details, pending, astray, up, accepting, air, late>>

(* Broken: what is sent is from before the update.                            *)
UpdateMemberSendsOld(p) ==
    /\ Calls(p) /\ State(p) # "none" /\ Infos(p).owner # p
    /\ Spend("updates")
    /\ Becomes(p, State(p), Updated(p))
    /\ wire' = SendTo(wire, p, TheOwner(p), "update", OwnAttributes(Infos(p), p))
    /\ RecordUpdate(p)
    /\ GoesAstray(Unheard(p, Infos(p).owner))
    /\ UNCHANGED <<details, pending, up, accepting, air, late>>

(* update_lobby by anyone else: its own attributes, at once on its own copy,   *)
(* and all of them to the owner.                                            *)
UpdateMember(p) ==
    /\ Calls(p) /\ State(p) # "none" /\ Infos(p).owner # p
    /\ Spend("updates")
    /\ Becomes(p, State(p), Updated(p))
    /\ wire' = SendTo(wire, p, TheOwner(p), "update", OwnAttributes(Updated(p), p))
    /\ RecordUpdate(p)
    /\ GoesAstray(Unheard(p, Infos(p).owner))
    /\ UNCHANGED <<details, pending, up, accepting, air, late>>

(* Broken: the former host tells everyone, and keeps its own copy as it was.   *)
PromoteMemberElsewhere(p, m) ==
    LET infos == [Infos(p) EXCEPT !.owner = m]
    IN  /\ Calls(p) /\ State(p) = "hosting"
        /\ m \in Members(infos)
        /\ Spend("handovers")
        /\ wire' = BroadcastLobby(wire, p, infos)
        /\ UNCHANGED <<entry, details, pending, newest, astray, up, accepting, air, late>>

(* promote_member: the former host stays a member.                          *)
PromoteMember(p, m) ==
    LET infos == [Infos(p) EXCEPT !.owner = m]
    IN  /\ Calls(p) /\ State(p) = "hosting"
        /\ m \in Members(infos)
        /\ Spend("handovers")
        /\ Becomes(p, "joined", infos)
        /\ wire' = BroadcastLobby(wire, p, infos)
        /\ GoesAstray(m = p \/ WordsForOwner)
        /\ UNCHANGED <<details, pending, newest, up, accepting, air, late>>

(* Broken: the owner may kick itself.                                       *)
KickAnyMember(p, m) ==
    LET infos == Unseat(Infos(p), m)
    IN  /\ Calls(p) /\ State(p) = "hosting"
        /\ m \in Members(Infos(p))
        /\ Spend("kicks")
        /\ Becomes(p, "hosting", infos)
        /\ wire' = BroadcastLobby(SendTo(wire, p, {m} \ {p}, "destroy", None), p, infos)
        /\ UNCHANGED <<details, pending, newest, astray, up, accepting, air, late>>

(* kick_member: it is told that it is out, then the rest are.                 *)
KickMember(p, m) ==
    LET infos == Unseat(Infos(p), m)
    IN  /\ Calls(p) /\ State(p) = "hosting"
        /\ m \in Members(Infos(p)) /\ m # Infos(p).owner
        /\ Spend("kicks")
        /\ Becomes(p, "hosting", infos)
        /\ wire' = BroadcastLobby(SendTo(wire, p, {m}, "destroy", None), p, infos)
        /\ UNCHANGED <<details, pending, newest, astray, up, accepting, air, late>>

-----------------------------------------------------------------------------
(* The tick collects the joins that are answered or late (run_callbacks).    *)

JoinAnswered(p, i) ==
    /\ Calls(p)
    /\ i \in DOMAIN pending[p] /\ pending[p][i] = "answered"
    /\ pending' = [pending EXCEPT ![p] = RemoveAt(@, i)]
    /\ UNCHANGED <<entry, details, newest, astray, spent, linkVars>>

(* Broken: the join is over, its entry stays.                                *)
JoinTimedOutKeepsEntry(p, i) ==
    /\ Calls(p)
    /\ i \in DOMAIN pending[p] /\ pending[p][i] = "waiting"
    /\ Spend("timeouts")
    /\ pending' = [pending EXCEPT ![p] = RemoveAt(@, i)]
    /\ UNCHANGED <<entry, details, newest, astray, linkVars>>

(* The host is not told that nobody waits for its answer any more.            *)
JoinTimedOut(p, i) ==
    /\ Calls(p)
    /\ i \in DOMAIN pending[p] /\ pending[p][i] = "waiting"
    /\ Spend("timeouts")
    /\ pending' = [pending EXCEPT ![p] = RemoveAt(@, i)]
    /\ IF State(p) = "joining" THEN Erase(p) ELSE UNCHANGED entry
    /\ GoesAstray(UnderWay(p))
    /\ UNCHANGED <<details, newest, linkVars>>

-----------------------------------------------------------------------------
(* on_network_message; w is the wire the message was taken from.              *)

(* Only the host admits, and it answers whoever is already in.               *)
OnRequest(p, q, byId, w) ==
    LET known == <<p, q>> \in up
        allowed == byId => AllowJoinById
        seated == q \in Members(Infos(p))
        free == Cardinality(Members(Infos(p))) < Infos(p).room
        infos == IF seated THEN Infos(p) ELSE Seat(Infos(p), q, {})
    IN  /\ IF State(p) # "hosting"
           THEN wire' = w /\ UNCHANGED entry
           ELSE IF known /\ allowed /\ (seated \/ free)
           THEN /\ Becomes(p, "hosting", infos)
                /\ wire' = BroadcastLobby(SendTo(w, p, {q}, "response", TRUE), p, infos)
           ELSE wire' = SendTo(w, p, {q}, "response", FALSE) /\ UNCHANGED entry
        /\ UNCHANGED <<pending, astray>>

(* Broken: who answered a join by id is not recorded.                         *)
OnResponseForgetsOwner(p, q, success, w) ==
    LET heeded == /\ State(p) # "none"
                  /\ Infos(p).owner \in {None, q}
                  /\ pending[p] # <<>>
    IN  /\ wire' = w
        /\ IF heeded
           THEN /\ pending' = [pending EXCEPT ![p][1] = "answered"]
                /\ IF success THEN Becomes(p, "joined", Infos(p)) ELSE UNCHANGED entry
           ELSE UNCHANGED <<pending, entry>>
        /\ UNCHANGED astray

(* The owner we know, or whoever answers first where we know none, pronounces *)
(* on the first join that we are waiting for.                              *)
OnResponse(p, q, success, w) ==
    LET heeded == /\ State(p) # "none"
                  /\ Infos(p).owner \in {None, q}
                  /\ pending[p] # <<>>
    IN  /\ wire' = w
        /\ IF heeded
           THEN /\ pending' = [pending EXCEPT ![p][1] = "answered"]
                /\ IF success
                   THEN Becomes(p, "joined", [Infos(p) EXCEPT !.owner = q])
                   ELSE IF State(p) = "joining" THEN Erase(p) ELSE UNCHANGED entry
           ELSE UNCHANGED <<pending, entry>>
        /\ GoesAstray(IF success THEN State(p) # "joining"
                      ELSE State(p) = "joining" /\ Infos(p).owner = None)

(* The owner we know speaks for the lobby, and may name its successor: us.    *)
OnInfos(p, q, infos, w) ==
    LET heeded == State(p) \notin {"none", "hosting"} /\ Infos(p).owner = q
    IN  /\ wire' = w
        /\ IF heeded
           THEN Becomes(p, IF infos.owner = p THEN "hosting" ELSE "joined", infos)
           ELSE UNCHANGED entry
        /\ GoesAstray(IF heeded THEN State(p) = "joining"
                      ELSE State(p) # "none" \/ infos.owner = p)
        /\ UNCHANGED pending

(* Broken: the others are not told.                                         *)
OnLeaveQuietly(p, q, w) ==
    LET infos == Unseat(Infos(p), q)
    IN  /\ IF State(p) = "hosting" /\ q \in Members(Infos(p))
           THEN Becomes(p, "hosting", infos) ELSE UNCHANGED entry
        /\ wire' = w
        /\ UNCHANGED <<pending, astray>>

(* A member takes itself out, and nobody else.                              *)
OnLeave(p, q, w) ==
    LET infos == Unseat(Infos(p), q)
        heeded == State(p) = "hosting" /\ q \in Members(Infos(p))
    IN  /\ IF heeded
           THEN Becomes(p, "hosting", infos) /\ wire' = BroadcastLobby(w, p, infos)
           ELSE wire' = w /\ UNCHANGED entry
        /\ GoesAstray(State(p) # "hosting")
        /\ UNCHANGED pending

(* A member's attributes are what it says they are.                          *)
OnUpdate(p, q, attributes, w) ==
    LET infos == Seat(Infos(p), q, attributes)
        heeded == State(p) = "hosting" /\ q \in Members(Infos(p))
    IN  /\ IF heeded
           THEN Becomes(p, "hosting", infos) /\ wire' = BroadcastLobby(w, p, infos)
           ELSE wire' = w /\ UNCHANGED entry
        /\ GoesAstray(State(p) # "hosting")
        /\ UNCHANGED pending

(* The owner closes the lobby, or us out of it.                              *)
OnDestroy(p, q, w) ==
    LET heeded == State(p) \notin {"none", "hosting"} /\ Infos(p).owner = q
    IN  /\ wire' = w
        /\ IF heeded THEN Erase(p) ELSE UNCHANGED entry
        /\ GoesAstray(IF heeded THEN State(p) = "joining" ELSE State(p) # "none")
        /\ UNCHANGED pending

OnNetworkMessage(p, q, m, w) ==
    /\ \/ m.type = "request" /\ OnRequest(p, q, m.body, w)
       \/ m.type = "response" /\ OnResponse(p, q, m.body, w)
       \/ m.type = "infos" /\ OnInfos(p, q, m.body, w)
       \/ m.type = "leave" /\ OnLeave(p, q, w)
       \/ m.type = "update" /\ OnUpdate(p, q, m.body, w)
       \/ m.type = "destroy" /\ OnDestroy(p, q, w)
    /\ UNCHANGED <<details, newest, spent>>

(* peer_disconnected: what is sent to the others when q is gone.             *)
OnOwnerGone(p, q, n) ==
    LET infos == Unseat(Infos(p), q)
        heir == ElectOwner(infos, q)
        passed == [infos EXCEPT !.owner = heir]
    IN  /\ State(p) \notin {"none", "hosting"} /\ Infos(p).owner = q
        /\ GoesAstray(State(p) = "joining" /\ heir # None)
        /\ \/ heir = None /\ Erase(p) /\ DropPeer(p, q, n, wire)
           \/ /\ heir = p
              /\ Becomes(p, "hosting", passed)
              /\ DropPeer(p, q, n, BroadcastLobby(wire, p, passed))
           \/ /\ heir \notin {None, p}
              /\ Becomes(p, "joined", passed)
              /\ DropPeer(p, q, n, wire)

OnMemberGone(p, q, n) ==
    LET infos == Unseat(Infos(p), q)
    IN  /\ State(p) = "hosting" /\ q \in Members(Infos(p))
        /\ Becomes(p, "hosting", infos)
        /\ DropPeer(p, q, n, BroadcastLobby(wire, p, infos))
        /\ UNCHANGED astray

OnPeerDisconnected(p, q, n) ==
    \/ OnOwnerGone(p, q, n)
    \/ OnMemberGone(p, q, n)
    \/ /\ State(p) # "hosting" => (State(p) = "none" \/ Infos(p).owner # q)
       /\ State(p) = "hosting" => q \notin Members(Infos(p))
       /\ DropPeer(p, q, n, wire)
       /\ UNCHANGED <<entry, astray>>

-----------------------------------------------------------------------------
(* The mesh, dispatching to the interface between its ticks.                 *)

Deliver(p, q) ==
    /\ late[p] = <<>>
    /\ <<p, q>> \in up
    /\ wire[<<q, p>>] # <<>> /\ Head(wire[<<q, p>>]) # Eof
    /\ OnNetworkMessage(p, q, Head(wire[<<q, p>>]), [wire EXCEPT ![<<q, p>>] = Tail(@)])
    /\ UNCHANGED <<up, accepting, air, late>>

(* An envelope read before its sender was dropped and dispatched after.      *)
DeliverLate(p) ==
    /\ late[p] # <<>>
    /\ OnNetworkMessage(p, Head(late[p]).from, Head(late[p]).msg, wire)
    /\ late' = [late EXCEPT ![p] = Tail(@)]
    /\ UNCHANGED <<up, accepting, air>>

(* The stream of q has ended.                                               *)
Lose(p, q, n) ==
    /\ late[p] = <<>>
    /\ Eof \in Range(wire[<<q, p>>])
    /\ OnPeerDisconnected(p, q, n)
    /\ UNCHANGED <<details, pending, newest, spent>>

(* The connection of two live peers breaks; p is the first to know.           *)
Break(p, q, n) ==
    /\ late[p] = <<>>
    /\ Eof \notin Range(wire[<<q, p>>])
    /\ Spend("breaks")
    /\ OnPeerDisconnected(p, q, n)
    /\ UNCHANGED <<details, pending, newest>>

(* A machine goes away, with what it has not sent yet.                       *)
Crash(p) ==
    /\ Spend("crashes")
    /\ \E q \in Peers : <<p, q>> \in up
    /\ Vanish(p)
    /\ Erase(p)
    /\ details' = [details EXCEPT ![p] = NoInfos]
    /\ pending' = [pending EXCEPT ![p] = <<>>]
    /\ newest' = [newest EXCEPT ![p] = 0]
    /\ GoesAstray(~Settled)

-----------------------------------------------------------------------------
Game(p) ==
    \/ \E room \in Rooms, migrate \in Migrations : CreateLobby(p, room, migrate)
    \/ \E h \in Peers : FindLobby(p, h)
    \/ JoinLobby(p)
    \/ JoinLobbyById(p)
    \/ LeaveLobby(p)
    \/ \E room \in Rooms : UpdateLobby(p, room)
    \/ UpdateMember(p)
    \/ \E m \in Peers : PromoteMember(p, m)
    \/ \E m \in Peers : KickMember(p, m)

Tick(p) == \E i \in DOMAIN pending[p] : JoinAnswered(p, i) \/ JoinTimedOut(p, i)

Mesh(p) ==
    \/ \E q \in Peers \ {p} : Deliver(p, q)
    \/ DeliverLate(p)
    \/ \E q \in Peers \ {p} : \E n \in 0 .. Len(wire[<<q, p>>]) : Lose(p, q, n)
    \/ \E q \in Peers \ {p} : \E n \in 0 .. Len(wire[<<q, p>>]) : Break(p, q, n)
    \/ Crash(p)

Next == \E p \in Peers : Game(p) \/ Tick(p) \/ Mesh(p)

Spec == Init /\ [][Next]_vars

-----------------------------------------------------------------------------
(* Properties.                                                             *)

TypeOK ==
    /\ up \cup accepting \subseteq Pairs
    /\ \A p \in Peers :
         /\ State(p) \in States
         /\ IsInfos(Infos(p))
         /\ State(p) = "none" => Infos(p) = NoInfos
         /\ InLobby(p) => Infos(p).owner # None
         /\ pending[p] \in Seq({"waiting", "answered"})
         /\ newest[p] \in 0 .. spent.updates

Hosts == {p \in Peers : State(p) = "hosting"}

(* The code asks in one place whether it hosts and in another whether it is    *)
(* the owner: a host is the owner, and has a seat, however it came to host   *)
(* (create_lobby, lobby_infos, peer_disconnected, kick_member).            *)
HostOwns ==
    \A p \in Hosts : Infos(p).owner = p /\ p \in Members(Infos(p))

(* A join that is under way is waited for, so that it ends: no answer, leave,  *)
(* second join or deadline leaves a lobby that can neither be joined nor     *)
(* left alone (join_lobby, lobby_join_response, run_callbacks).            *)
JoiningIsPending ==
    \A p \in Peers : State(p) = "joining" => "waiting" \in Range(pending[p])

(* Nothing went astray, no connection broke while both its ends lived, and the *)
(* owner did not give the lobby up while a machine was going away.          *)
Undisturbed ==
    /\ ~astray
    /\ spent.breaks = 0
    /\ spent.crashes = 0 \/ spent.handovers = 0

(* A lobby has one host at a time, through promotions, departures and the loss *)
(* of the host, unless disturbed (promote_member, close_hosted_lobby,        *)
(* lobby_infos, peer_disconnected).                                        *)
OneHost == Undisturbed => Cardinality(Hosts) <= 1

(* Once nothing is under way, everyone in the lobby holds what its host holds, *)
(* and the roster names exactly those who are in it (broadcast_lobby and     *)
(* every handler that changes the roster).                                 *)
Agreement ==
    Settled /\ Undisturbed =>
        \A p \in Peers : InLobby(p) =>
            \E h \in Hosts :
                /\ Infos(p) = Infos(h)
                /\ Members(Infos(h)) = {m \in Peers : InLobby(m)}

(* The last update of a member's own attributes reaches the host and is not    *)
(* undone by the broadcasts that cross it, though an earlier one may be      *)
(* (update_lobby, lobby_member_update, lobby_infos).                       *)
LatestUpdateKept ==
    Settled /\ Undisturbed =>
        \A p \in Peers, h \in Hosts :
            InLobby(p) /\ newest[p] # 0 => newest[p] \in Infos(h).roster[p]

(* "Every member elects the same heir from the same roster, so they converge   *)
(* without a round trip" (peer_disconnected): those who are left agree on    *)
(* the owner.                                                              *)
SameHeir ==
    Settled =>
        \A p, q \in Peers : InLobby(p) /\ InLobby(q) => Infos(p).owner = Infos(q).owner
=============================================================================
