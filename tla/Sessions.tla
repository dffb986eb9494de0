------------------------------ MODULE Sessions ------------------------------
(***************************************************************************)
(* sdk_sessions (src/interfaces/sessions.cpp): one session and what every  *)
(* peer of the mesh holds of it.  The host seats and unseats players,      *)
(* starts and ends the match and tells those on its roster; a member keeps *)
(* a copy, which its game may write to as well; there is no heir.  Any     *)
(* peer may ask all the others what they host.  Sessions share nothing but *)
(* the streams and the searches, so one stands for all.                    *)
(*                                                                         *)
(* The wire names a session by its id, a game by a name of its own, and    *)
(* nothing keeps a game from using two names for one session.              *)
(***************************************************************************)
EXTENDS MeshLink, FiniteSetsExt, SequencesExt, Functions

CONSTANTS
    None,       \* no owner, and nobody in particular to search for
    Names,      \* the names games use, numbered in their order
    Settings,   \* what a game may set: room, late (join in progress), public
    Formed,     \* sessions that may exist at the start, by name, everyone in agreement
    Bounds      \* bounds: how often each kind of thing may happen, and all of them

VARIABLES
    entry,      \* sessions_: what p holds under the name n
    found,      \* the details p's game copied out of a search, if any
    search,     \* the search of p's game
    pending,    \* pending_joins_, in the order in which they are looked through
    byHand,     \* history: players the host's game seated or unseated, or who unseated themselves
    wrote,      \* history: copies written to by a member since the host's last word
    twice,      \* history: peers that held the session under two names
    astray,     \* history: a seat was given or given up without the other side knowing
    spent       \* what has been used of the bounds

history == <<byHand, wrote, twice, astray>>
vars == <<entry, found, search, pending, history, spent, linkVars>>

Kinds == {"creates", "searches", "finds", "joins", "leaves", "writes", "seats",
          "timeouts", "crashes", "breaks", "all"}

States == {"none", "joining", "joined", "hosting"}
Phases == {"pending", "in_progress", "ended"}

NoInfos == [owner |-> None, roster |-> {}, settings |-> None, phase |-> "pending"]
Absent == [state |-> "none", infos |-> NoInfos]
NoSearch == [id |-> 0, target |-> None, searching |-> FALSE, awaiting |-> {}, results |-> {}]

(* session_infos of the session, and of none.                                 *)
Infos == [owner : Peers, roster : SUBSET Peers, settings : Settings, phase : Phases]
AnyInfos == Infos \cup {NoInfos}

ASSUME SessionsAssumption ==
    /\ Peers \subseteq Nat /\ None \notin Peers /\ None \notin Settings
    /\ Names \subseteq Nat /\ Names # {}
    /\ \A s \in Settings : s \in [room : Nat \ {0}, late : BOOLEAN, public : BOOLEAN]
    /\ Formed \subseteq Names \X {infos \in Infos : infos.owner \in infos.roster}
    /\ Bounds \in [Kinds -> Nat] /\ Bounds.creates <= 1

State(p, n) == entry[p][n].state
InfosAt(p, n) == entry[p][n].infos
Held(p) == {n \in Names : State(p, n) # "none"}
ById(p) == Min(Held(p))

Init ==
    /\ LinkInitMet
    /\ \E formed \in Formed \cup {<<Min(Names), NoInfos>>} :
         LET infos == formed[2]
         IN  /\ entry = [p \in Peers |-> [n \in Names |->
                          IF n # formed[1] \/ p \notin infos.roster THEN Absent
                          ELSE [state |-> IF p = infos.owner THEN "hosting" ELSE "joined",
                                infos |-> infos]]]
             /\ found = [p \in Peers |-> infos]
             /\ spent = [kind \in Kinds |-> IF kind = "creates" /\ infos # NoInfos THEN 1 ELSE 0]
    /\ search = [p \in Peers |-> NoSearch]
    /\ pending = [p \in Peers |-> <<>>]
    /\ byHand = {} /\ wrote = {} /\ twice = {} /\ astray = FALSE

-----------------------------------------------------------------------------
(* What the operations share.                                              *)

(* Everything but reading a search is also counted together.                 *)
Spend(kind) ==
    LET used == IF kind = "finds" THEN {kind} ELSE {kind, "all"}
    IN  /\ \A k \in used : spent[k] < Bounds[k]
        /\ spent' = [k \in Kinds |-> IF k \in used THEN spent[k] + 1 ELSE spent[k]]

Becomes(p, n, state, infos) ==
    entry' = [entry EXCEPT ![p][n] = [state |-> state, infos |-> infos]]
Erase(p, n) == entry' = [entry EXCEPT ![p][n] = Absent]

Seat(infos, m) == [infos EXCEPT !.roster = @ \cup {m}]
Unseat(infos, m) == [infos EXCEPT !.roster = @ \ {m}]

(* send_to, to each of some peers; w is the wire before.                      *)
SendTo(w, p, to, type, body) ==
    [pq \in Pairs |->
       IF pq[1] = p /\ pq[2] \in to
       THEN Posted(w, p, pq[2], <<[type |-> type, body |-> body]>>)[pq]
       ELSE w[pq]]

(* send_to_members, and broadcast_session: the whole of it.                   *)
SendToMembers(w, p, infos, type, body) == SendTo(w, p, infos.roster \ {p}, type, body)
BroadcastSession(w, p, infos) == SendToMembers(w, p, infos, "infos", infos)

GoesAstray(when) == astray' = (astray \/ when)

(* session_matches: may it be found, and does it answer the question?         *)
Matches(infos, target) ==
    /\ infos.settings.public
    /\ infos.phase = "in_progress" => infos.settings.late
    /\ target # None => target \in infos.roster

(* The sessions p hosts that answer the question.                            *)
Hosted(p, target) ==
    {InfosAt(p, n) : n \in {x \in Names : State(p, x) = "hosting" /\ Matches(InfosAt(p, x), target)}}

(* Nothing about the session is under way anywhere.                          *)
Settled ==
    /\ \A p, q \in Peers : <<p, q>> \in up => <<q, p>> \in up
    /\ \A pq \in Pairs : wire[pq] = <<>>
    /\ \A p \in Peers : late[p] = <<>> /\ \A n \in Names : State(p, n) # "joining"

-----------------------------------------------------------------------------
(* The calls of the game, between ticks or from a callback.                  *)

Calls(p) == late[p] = <<>>

(* create_session_modification and update_session: the host is seated.        *)
CreateSession(p, n, settings) ==
    /\ Calls(p) /\ State(p, n) = "none"
    /\ Spend("creates")
    /\ Becomes(p, n, "hosting",
               [owner |-> p, roster |-> {p}, settings |-> settings, phase |-> "pending"])
    /\ UNCHANGED <<found, search, pending, history, linkVars>>

(* What every write does: any entry, whoever hosts it, and the whole of it to  *)
(* the roster.                                                             *)
Write(p, n, infos) ==
    /\ Calls(p) /\ State(p, n) # "none"
    /\ Spend("writes")
    /\ Becomes(p, n, State(p, n), infos)
    /\ wire' = BroadcastSession(wire, p, infos)
    /\ wrote' = IF State(p, n) = "hosting" THEN wrote ELSE wrote \cup {<<p, n>>}
    /\ UNCHANGED <<found, search, pending, byHand, twice, astray, up, accepting, air, late>>

(* update_session keeps the id, the phase, the owner and the roster.          *)
UpdateSession(p, n, settings) == Write(p, n, [InfosAt(p, n) EXCEPT !.settings = settings])

StartSession(p, n) ==
    /\ InfosAt(p, n).phase \in {"pending", "ended"}
    /\ Write(p, n, [InfosAt(p, n) EXCEPT !.phase = "in_progress"])

(* Broken: only the host learns that the match has ended.                     *)
EndSessionQuietly(p, n) ==
    /\ Calls(p) /\ State(p, n) # "none" /\ InfosAt(p, n).phase = "in_progress"
    /\ Spend("writes")
    /\ Becomes(p, n, State(p, n), [InfosAt(p, n) EXCEPT !.phase = "ended"])
    /\ UNCHANGED <<found, search, pending, history, linkVars>>

EndSession(p, n) ==
    /\ InfosAt(p, n).phase = "in_progress"
    /\ Write(p, n, [InfosAt(p, n) EXCEPT !.phase = "ended"])

(* Registering and unregistering, by whoever is on its own copy of the roster; *)
(* whoever is unseated is not told.                                        *)
ChangeSeats(p, n, m, infos, type) ==
    /\ Calls(p) /\ State(p, n) # "none"
    /\ p \in InfosAt(p, n).roster
    /\ infos # InfosAt(p, n)
    /\ Spend("seats")
    /\ Becomes(p, n, State(p, n), infos)
    /\ wire' = SendToMembers(wire, p, infos, type, m)
    /\ byHand' = IF State(p, n) = "hosting" \/ m = p THEN byHand \cup {m} ELSE byHand
    /\ UNCHANGED <<found, search, pending, wrote, twice, astray, up, accepting, air, late>>

RegisterPlayers(p, n, m) == ChangeSeats(p, n, m, Seat(InfosAt(p, n), m), "register")
UnregisterPlayers(p, n, m) == ChangeSeats(p, n, m, Unseat(InfosAt(p, n), m), "unregister")

(* join_session: the details may be of any age, and of our own session.       *)
JoinSession(p, n) ==
    LET infos == found[p]
    IN  /\ Calls(p) /\ State(p, n) = "none"
        /\ infos # NoInfos
        /\ \/ infos.phase = "pending"
           \/ infos.phase = "in_progress" /\ infos.settings.late
        /\ Spend("joins")
        /\ Becomes(p, n, "joining", infos)
        /\ wire' = SendTo(wire, p, {infos.owner}, "request", None)
        /\ \E i \in 0 .. Len(pending[p]) :
             pending' = [pending EXCEPT ![p] = InsertAt(@, i + 1, "waiting")]
        /\ GoesAstray(pending[p] # <<>>)
        /\ twice' = IF Held(p) = {} THEN twice ELSE twice \cup {p}
        /\ UNCHANGED <<found, search, byHand, wrote, up, accepting, air, late>>

(* Broken: a member that leaves keeps its seat.                               *)
DestroySessionKeepsSeat(p, n) ==
    LET infos == InfosAt(p, n)
        hosting == State(p, n) = "hosting"
    IN  /\ Calls(p) /\ State(p, n) # "none"
        /\ Spend("leaves")
        /\ wire' = IF hosting THEN SendToMembers(wire, p, infos, "destroy", None) ELSE wire
        /\ Erase(p, n)
        /\ GoesAstray(~hosting /\ infos.owner \notin infos.roster)
        /\ wrote' = wrote \ {<<p, n>>}
        /\ UNCHANGED <<found, search, pending, byHand, twice, up, accepting, air, late>>

(* destroy_session: the host ends it for everyone, a member gives its seat     *)
(* back.                                                                   *)
DestroySession(p, n) ==
    LET infos == InfosAt(p, n)
        hosting == State(p, n) = "hosting"
    IN  /\ Calls(p) /\ State(p, n) # "none"
        /\ Spend("leaves")
        /\ wire' = IF hosting
                   THEN SendToMembers(wire, p, infos, "destroy", None)
                   ELSE SendToMembers(wire, p, infos, "unregister", p)
        /\ Erase(p, n)
        /\ GoesAstray(~hosting /\ infos.owner \notin infos.roster)
        /\ wrote' = wrote \ {<<p, n>>}
        /\ UNCHANGED <<found, search, pending, byHand, twice, up, accepting, air, late>>

(* Broken: it waits for its own answer too.                                  *)
SearchFindAsksItself(p, target) ==
    LET asked == {q \in Peers : (p = q \/ <<p, q>> \in up) /\ target \in {None, q}}
        id == spent.searches + 1
    IN  /\ Calls(p) /\ ~search[p].searching
        /\ Spend("searches")
        /\ search' = [search EXCEPT ![p] =
                        [id |-> id, target |-> target, searching |-> TRUE,
                         awaiting |-> asked, results |-> Hosted(p, target)]]
        /\ wire' = SendTo(wire, p, asked \ {p}, "search", [id |-> id, target |-> target])
        /\ UNCHANGED <<entry, found, pending, history, up, accepting, air, late>>

(* search_find: what we host ourselves, and a question to the peer searched    *)
(* for or to everybody.                                                    *)
SearchFind(p, target) ==
    LET asked == {q \in Peers : <<p, q>> \in up /\ target \in {None, q}}
        id == spent.searches + 1
    IN  /\ Calls(p) /\ ~search[p].searching
        /\ Spend("searches")
        /\ search' = [search EXCEPT ![p] =
                        [id |-> id, target |-> target, searching |-> TRUE,
                         awaiting |-> asked, results |-> Hosted(p, target)]]
        /\ wire' = SendTo(wire, p, asked, "search", [id |-> id, target |-> target])
        /\ UNCHANGED <<entry, found, pending, history, up, accepting, air, late>>

(* search_copy_result, of a search that is over.                             *)
SearchCopyResult(p) ==
    /\ Calls(p) /\ ~search[p].searching
    /\ Spend("finds")
    /\ \E infos \in search[p].results \ {found[p]} : found' = [found EXCEPT ![p] = infos]
    /\ UNCHANGED <<entry, search, pending, history, linkVars>>

(* search_release, also of a search that is not over.                        *)
SearchRelease(p) ==
    /\ Calls(p) /\ search[p] # NoSearch
    /\ search' = [search EXCEPT ![p] = NoSearch]
    /\ UNCHANGED <<entry, found, pending, history, spent, linkVars>>

-----------------------------------------------------------------------------
(* The tick collects what is answered or late (run_callbacks).               *)

(* Everyone asked has answered, or the deadline has passed.                   *)
SearchOver(p) ==
    /\ Calls(p) /\ search[p].searching
    /\ IF search[p].awaiting = {} THEN UNCHANGED spent ELSE Spend("timeouts")
    /\ search' = [search EXCEPT ![p].searching = FALSE]
    /\ UNCHANGED <<entry, found, pending, history, linkVars>>

JoinAnswered(p, i) ==
    /\ Calls(p)
    /\ i \in DOMAIN pending[p] /\ pending[p][i] = "answered"
    /\ pending' = [pending EXCEPT ![p] = RemoveAt(@, i)]
    /\ UNCHANGED <<entry, found, search, history, spent, linkVars>>

(* The entry that is dropped is the first under the session's id; the host is  *)
(* not told that nobody waits for its answer any more.                      *)
JoinTimedOut(p, i) ==
    /\ Calls(p)
    /\ i \in DOMAIN pending[p] /\ pending[p][i] = "waiting"
    /\ Spend("timeouts")
    /\ pending' = [pending EXCEPT ![p] = RemoveAt(@, i)]
    /\ IF Held(p) # {} /\ State(p, ById(p)) = "joining"
       THEN Erase(p, ById(p)) /\ wrote' = wrote \ {<<p, ById(p)>>}
       ELSE UNCHANGED <<entry, wrote>>
    /\ GoesAstray(\E pq \in Pairs : p \in {pq[1], pq[2]} /\ wire[pq] # <<>>)
    /\ UNCHANGED <<found, search, byHand, twice, linkVars>>

-----------------------------------------------------------------------------
(* on_network_message; w is the wire the message was taken from.              *)

(* Broken: who hosts nothing that matches keeps silent.                       *)
OnSearchIfAny(p, q, query, w) ==
    /\ wire' = IF Hosted(p, query.target) = {} THEN w
               ELSE SendTo(w, p, {q}, "found", [id |-> query.id, sessions |-> Hosted(p, query.target)])
    /\ UNCHANGED <<entry, search, pending, wrote>>

(* Whoever is asked answers, even with nothing.                              *)
OnSearch(p, q, query, w) ==
    /\ wire' = SendTo(w, p, {q}, "found", [id |-> query.id, sessions |-> Hosted(p, query.target)])
    /\ UNCHANGED <<entry, search, pending, wrote>>

(* Only to the search it answers, once from each peer asked, and looked over.  *)
OnFound(p, q, answer, w) ==
    LET s == search[p]
    IN  /\ wire' = w
        /\ IF s.searching /\ s.id = answer.id /\ q \in s.awaiting
           THEN search' = [search EXCEPT
                  ![p].awaiting = @ \ {q},
                  ![p].results = @ \cup {infos \in answer.sessions : Matches(infos, s.target)}]
           ELSE UNCHANGED search
        /\ UNCHANGED <<entry, pending, wrote>>

(* Only the host admits, and it answers whoever is already in; everyone in the *)
(* session hears the verdict.                                              *)
OnRequest(p, q, w) ==
    LET n == ById(p)
        infos == InfosAt(p, n)
        seated == Seat(infos, q)
        admits == /\ Held(p) # {} /\ State(p, n) = "hosting"
                  /\ <<p, q>> \in up
                  /\ q \in infos.roster \/ Cardinality(infos.roster) < infos.settings.room
        verdict == [player |-> q, ok |-> admits]
        told == SendTo(w, p, {q}, "response", verdict)
    IN  /\ IF admits
           THEN /\ Becomes(p, n, "hosting", seated)
                /\ wire' = BroadcastSession(
                             SendTo(told, p, infos.roster \ {p, q}, "response", verdict), p, seated)
           ELSE wire' = told /\ UNCHANGED entry
        /\ UNCHANGED <<search, pending, wrote>>

(* Broken: a refusal leaves the session we recorded when we asked.             *)
OnVerdictKeepsRefused(p, n, ok) ==
    /\ pending' = [pending EXCEPT ![p][1] = "answered"]
    /\ IF ok THEN Becomes(p, n, "joined", Seat(InfosAt(p, n), p)) ELSE UNCHANGED entry
    /\ UNCHANGED wrote

(* The verdict on the first join that we are waiting for.                     *)
OnVerdict(p, n, ok) ==
    /\ pending' = [pending EXCEPT ![p][1] = "answered"]
    /\ IF ok
       THEN Becomes(p, n, "joined", Seat(InfosAt(p, n), p)) /\ UNCHANGED wrote
       ELSE IF State(p, n) = "joining"
       THEN Erase(p, n) /\ wrote' = wrote \ {<<p, n>>}
       ELSE UNCHANGED <<entry, wrote>>

OnResponse(p, q, verdict, w) ==
    LET n == ById(p)
        heeded == Held(p) # {} /\ InfosAt(p, n).owner = q
        ours == verdict.player = p
    IN  /\ wire' = w
        /\ \/ heeded /\ ours /\ pending[p] # <<>> /\ OnVerdict(p, n, verdict.ok)
           \/ /\ heeded /\ ~ours /\ verdict.ok
              /\ Becomes(p, n, State(p, n), Seat(InfosAt(p, n), verdict.player))
              /\ UNCHANGED <<pending, wrote>>
           \/ /\ ~heeded \/ (IF ours THEN pending[p] = <<>> ELSE ~verdict.ok)
              /\ UNCHANGED <<entry, pending, wrote>>
        /\ UNCHANGED search

(* The host speaks for the session.                                         *)
OnInfos(p, q, infos, w) ==
    LET n == ById(p)
        heeded == Held(p) # {} /\ State(p, n) # "hosting" /\ InfosAt(p, n).owner = q
    IN  /\ wire' = w
        /\ IF heeded
           THEN Becomes(p, n, State(p, n), infos) /\ wrote' = wrote \ {<<p, n>>}
           ELSE UNCHANGED <<entry, wrote>>
        /\ UNCHANGED <<search, pending>>

(* The host ends it: the first of our entries that is its.                    *)
OnDestroy(p, q, w) ==
    LET its == {n \in Held(p) : State(p, n) # "hosting" /\ InfosAt(p, n).owner = q}
    IN  /\ wire' = w
        /\ IF its # {}
           THEN Erase(p, Min(its)) /\ wrote' = wrote \ {<<p, Min(its)>>}
           ELSE UNCHANGED <<entry, wrote>>
        /\ UNCHANGED <<search, pending>>

(* Only the host seats, while there is room.                                 *)
OnRegister(p, q, m, w) ==
    LET n == ById(p)
        infos == InfosAt(p, n)
        heeded == /\ Held(p) # {} /\ infos.owner = q
                  /\ Cardinality(infos.roster) < infos.settings.room
    IN  /\ wire' = w
        /\ IF heeded THEN Becomes(p, n, State(p, n), Seat(infos, m)) ELSE UNCHANGED entry
        /\ UNCHANGED <<search, pending, wrote>>

(* The host unseats anyone, anyone else itself; the host keeps its own seat.    *)
OnUnregister(p, q, m, w) ==
    LET n == ById(p)
        infos == InfosAt(p, n)
        heeded == Held(p) # {} /\ q \in {infos.owner, m} /\ m # infos.owner
    IN  /\ wire' = w
        /\ IF heeded THEN Becomes(p, n, State(p, n), Unseat(infos, m)) ELSE UNCHANGED entry
        /\ UNCHANGED <<search, pending, wrote>>

OnNetworkMessage(p, q, m, w) ==
    /\ \/ m.type = "search" /\ OnSearch(p, q, m.body, w)
       \/ m.type = "found" /\ OnFound(p, q, m.body, w)
       \/ m.type = "request" /\ OnRequest(p, q, w)
       \/ m.type = "response" /\ OnResponse(p, q, m.body, w)
       \/ m.type = "infos" /\ OnInfos(p, q, m.body, w)
       \/ m.type = "destroy" /\ OnDestroy(p, q, w)
       \/ m.type = "register" /\ OnRegister(p, q, m.body, w)
       \/ m.type = "unregister" /\ OnUnregister(p, q, m.body, w)
    /\ UNCHANGED <<found, byHand, twice, astray, spent>>

(* peer_disconnected: q's seat is gone from all we hold, and nobody is told.   *)
OnPeerDisconnected(p, q, n) ==
    /\ entry' = [entry EXCEPT ![p] = [x \in Names |->
                   [state |-> State(p, x), infos |-> Unseat(InfosAt(p, x), q)]]]
    /\ DropPeer(p, q, n, wire)
    /\ UNCHANGED <<found, search, pending, history>>

-----------------------------------------------------------------------------
(* The mesh, dispatching to the interface between its ticks.                 *)

Deliver(p, q) ==
    /\ late[p] = <<>>
    /\ <<p, q>> \in up
    /\ wire[<<q, p>>] # <<>> /\ Head(wire[<<q, p>>]) # Eof
    /\ OnNetworkMessage(p, q, Head(wire[<<q, p>>]), [wire EXCEPT ![<<q, p>>] = Tail(@)])
    /\ UNCHANGED <<up, accepting, air, late>>

(* An envelope read before its sender was dropped and dispatched after.      *)
DeliverLate(p) ==
    /\ late[p] # <<>>
    /\ OnNetworkMessage(p, Head(late[p]).from, Head(late[p]).msg, wire)
    /\ late' = [late EXCEPT ![p] = Tail(@)]
    /\ UNCHANGED <<up, accepting, air>>

(* The stream of q has ended.                                               *)
Lose(p, q, n) ==
    /\ late[p] = <<>>
    /\ Eof \in Range(wire[<<q, p>>])
    /\ OnPeerDisconnected(p, q, n)
    /\ UNCHANGED spent

(* The connection of two live peers breaks; p is the first to know.           *)
Break(p, q, n) ==
    /\ late[p] = <<>>
    /\ Eof \notin Range(wire[<<q, p>>])
    /\ Spend("breaks")
    /\ OnPeerDisconnected(p, q, n)

(* A machine goes away, with what it has not sent yet.                       *)
Crash(p) ==
    /\ Spend("crashes")
    /\ \E q \in Peers : <<p, q>> \in up
    /\ Vanish(p)
    /\ entry' = [entry EXCEPT ![p] = [n \in Names |-> Absent]]
    /\ found' = [found EXCEPT ![p] = NoInfos]
    /\ search' = [search EXCEPT ![p] = NoSearch]
    /\ pending' = [pending EXCEPT ![p] = <<>>]
    /\ wrote' = wrote \ ({p} \X Names)
    /\ UNCHANGED <<byHand, twice, astray>>

-----------------------------------------------------------------------------
Game(p) ==
    \/ \E n \in Names, settings \in Settings : CreateSession(p, n, settings)
    \/ \E n \in Names, settings \in Settings : UpdateSession(p, n, settings)
    \/ \E n \in Names : StartSession(p, n)
    \/ \E n \in Names : EndSession(p, n)
    \/ \E n \in Names, m \in Peers : RegisterPlayers(p, n, m)
    \/ \E n \in Names, m \in Peers : UnregisterPlayers(p, n, m)
    \/ \E n \in Names : JoinSession(p, n)
    \/ \E n \in Names : DestroySession(p, n)
    \/ \E target \in Peers \cup {None} : SearchFind(p, target)
    \/ SearchCopyResult(p)
    \/ SearchRelease(p)

Tick(p) ==
    \/ SearchOver(p)
    \/ \E i \in DOMAIN pending[p] : JoinAnswered(p, i) \/ JoinTimedOut(p, i)

Mesh(p) ==
    \/ \E q \in Peers \ {p} : Deliver(p, q)
    \/ DeliverLate(p)
    \/ \E q \in Peers \ {p} : \E n \in 0 .. Len(wire[<<q, p>>]) : Lose(p, q, n)
    \/ \E q \in Peers \ {p} : \E n \in 0 .. Len(wire[<<q, p>>]) : Break(p, q, n)
    \/ Crash(p)

Next == \E p \in Peers : Game(p) \/ Tick(p) \/ Mesh(p)

Spec == Init /\ [][Next]_vars

-----------------------------------------------------------------------------
(* Properties.                                                             *)

Connected(p, q) == {<<p, q>>, <<q, p>>} \subseteq up
Hosts == {p \in Peers : \E n \in Names : State(p, n) = "hosting"}

(* The host's copy.                                                        *)
HostInfos(h) == InfosAt(h, CHOOSE n \in Names : State(h, n) = "hosting")

(* What is held is a session with an owner: a host's its own, a member's      *)
(* somebody else's; the search's answers are of peers that were asked.       *)
TypeOK ==
    /\ up \cup accepting \subseteq Pairs
    /\ \A p \in Peers :
         /\ \A n \in Names :
              /\ State(p, n) \in States
              /\ InfosAt(p, n) \in IF State(p, n) = "none" THEN {NoInfos} ELSE Infos
              /\ State(p, n) = "hosting" => InfosAt(p, n).owner = p
              /\ State(p, n) = "joined" => InfosAt(p, n).owner # p
         /\ found[p] \in AnyInfos
         /\ search[p].awaiting \subseteq Peers \ {p} /\ search[p].results \subseteq Infos
         /\ pending[p] \in Seq({"waiting", "answered"})

(* A join that is under way is waited for, so that it ends, unless the game    *)
(* has held the session under two names (join_session, session_join_response, *)
(* run_callbacks).                                                         *)
JoiningIsPending ==
    \A p \in Peers \ twice, n \in Names :
        State(p, n) = "joining" => "waiting" \in Range(pending[p])

(* Everyone a search still waits for, and who is still there, has the question *)
(* or the answer before it: "every peer answers, even with nothing", so that  *)
(* it need not wait out its deadline (session_search, search_find).          *)
AskedWillAnswer ==
    \A p \in Peers : search[p].searching =>
        \A q \in search[p].awaiting : Connected(p, q) =>
            \/ \E m \in Range(wire[<<p, q>>]) : m.type = "search" /\ m.body.id = search[p].id
            \/ \E m \in Range(wire[<<q, p>>]) : m.type = "found" /\ m.body.id = search[p].id

(* Once nothing is under way, a member whom the host has on its roster has     *)
(* the settings and the phase of the match as the host has them, unless its   *)
(* own game wrote over them or a game seated it by hand (broadcast_session   *)
(* and everything that calls it).                                          *)
HostsWord ==
    Settled =>
        \A h \in Hosts \ twice, p \in Peers \ twice, n \in Names :
            /\ State(p, n) = "joined" /\ Connected(p, h)
            /\ p \in HostInfos(h).roster \ byHand /\ <<p, n>> \notin wrote
            => [InfosAt(p, n) EXCEPT !.roster = {}] = [HostInfos(h) EXCEPT !.roster = {}]

(* Once nothing is under way, the host's roster names exactly those who are in *)
(* the session, and nobody the host still knows is in one that it ended, but  *)
(* for whom a game seated or unseated by hand.                              *)
SeatsAgree ==
    Settled /\ ~astray /\ twice = {} =>
        \A p \in Peers \ byHand, h \in Peers : p # h /\ Connected(p, h) =>
            /\ \A n \in Names : State(p, n) = "joined" /\ InfosAt(p, n).owner = h
                 => h \in Hosts /\ p \in HostInfos(h).roster
            /\ h \in Hosts /\ p \in HostInfos(h).roster
                 => \E n \in Names : State(p, n) = "joined"
=============================================================================
