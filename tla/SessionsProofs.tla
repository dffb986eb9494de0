--------------------------- MODULE SessionsProofs ---------------------------
(***************************************************************************)
(* What Sessions promises whatever is lost or crossed, for any set of peers *)
(* and names and any bounds: the types, that all copies of the session name *)
(* one owner, that a join under way is waited for, that whoever a search    *)
(* still waits for has the question or the answer before it, and, once      *)
(* nothing is under way, that members have the settings of the host and that *)
(* its roster names who is in the session.                                   *)
(***************************************************************************)
EXTENDS Sessions, MeshLinkProofs

-----------------------------------------------------------------------------
(* The inductive invariant.  O holds the owner of the session, if it has been *)
(* created: everything anyone holds or sends of it names that owner.         *)

OwnInfos(O) == {infos \in Infos : infos.owner \in O}

Words(O) ==
    [type : {"search"}, body : [id : Nat, target : Peers \cup {None}]]
        \cup [type : {"found"}, body : [id : Nat, sessions : SUBSET OwnInfos(O)]]
        \cup [type : {"response"}, body : [player : Peers, ok : BOOLEAN]]
        \cup [type : {"infos"}, body : OwnInfos(O)]
        \cup [type : {"register", "unregister"}, body : Peers]
        \cup [type : {"request", "destroy"}, body : {None}]

(* A host's session is its own, a member's is not.                            *)
EntryOK(O, p, e) ==
    /\ e \in [state : States, infos : OwnInfos(O) \cup {NoInfos}]
    /\ e.state = "none" <=> e.infos = NoInfos
    /\ e.state = "hosting" => e.infos.owner = p
    /\ e.state = "joined" => e.infos.owner # p

EntriesOK(O) ==
    /\ DOMAIN entry = Peers
    /\ \A p \in Peers : /\ DOMAIN entry[p] = Names
                        /\ \A n \in Names : EntryOK(O, p, entry[p][n])

Searches(O) == [id : Nat, target : Peers \cup {None}, searching : BOOLEAN,
                awaiting : SUBSET Peers, results : SUBSET OwnInfos(O)]

SearchesOK(O) ==
    /\ search \in [Peers -> Searches(O)]
    /\ \A p \in Peers : p \notin search[p].awaiting

FoundOK(O) == found \in [Peers -> OwnInfos(O) \cup {NoInfos}]

SpentOK == spent \in [Kinds -> Nat]

(* There is one session at most, and none before it is created.               *)
OneSession(O) ==
    /\ \A o1, o2 \in O : o1 = o2
    /\ spent["creates"] = 0 => O = {}

Typed(O) ==
    /\ LinkTyped(Words(O))
    /\ EntriesOK(O) /\ SearchesOK(O) /\ FoundOK(O)
    /\ SpentOK /\ OneSession(O)

(* Who has kept to one name holds the session under one at most.               *)
JoinsOK ==
    /\ pending \in [Peers -> Seq({"waiting", "answered"})]
    /\ \A p \in Peers \ twice : \A n, m \in Held(p) : n = m
    /\ JoiningIsPending

IInv ==
    /\ \E O \in SUBSET Peers : Typed(O)
    /\ JoinsOK
    /\ AskedWillAnswer

-----------------------------------------------------------------------------
(* What is held.                                                           *)

LEMMA NoInfosIsNone == NoInfos \notin Infos /\ NoInfos.roster = {}
    BY SessionsAssumption DEF NoInfos, Infos

LEMMA OwnInfosParts ==
    ASSUME NEW O \in SUBSET Peers, NEW infos \in OwnInfos(O)
    PROVE  /\ infos \in Infos /\ infos # NoInfos
           /\ infos.owner \in O /\ infos.owner \in Peers /\ infos.roster \in SUBSET Peers
           /\ infos.settings \in Settings /\ infos.phase \in Phases
    BY NoInfosIsNone DEF OwnInfos, Infos

LEMMA RosterOK ==
    ASSUME NEW O \in SUBSET Peers, NEW infos \in OwnInfos(O), NEW m \in Peers
    PROVE  /\ Seat(infos, m) \in OwnInfos(O) /\ Seat(infos, m).owner = infos.owner
           /\ Unseat(infos, m) \in OwnInfos(O) /\ Unseat(infos, m).owner = infos.owner
    BY DEF OwnInfos, Infos, Seat, Unseat

LEMMA WrittenOK ==
    ASSUME NEW O \in SUBSET Peers, NEW infos \in OwnInfos(O),
           NEW settings \in Settings, NEW phase \in Phases
    PROVE  /\ [infos EXCEPT !.settings = settings] \in OwnInfos(O)
           /\ [infos EXCEPT !.settings = settings].owner = infos.owner
           /\ [infos EXCEPT !.phase = phase] \in OwnInfos(O)
           /\ [infos EXCEPT !.phase = phase].owner = infos.owner
    BY DEF OwnInfos, Infos

LEMMA EntryParts ==
    ASSUME NEW O \in SUBSET Peers, EntriesOK(O), NEW p \in Peers, NEW n \in Names
    PROVE  /\ State(p, n) \in States
           /\ State(p, n) # "none" => InfosAt(p, n) \in OwnInfos(O)
           /\ State(p, n) = "none" => InfosAt(p, n) = NoInfos
           /\ State(p, n) = "hosting" => InfosAt(p, n).owner = p
           /\ State(p, n) = "joined" => InfosAt(p, n).owner # p
    BY DEF EntriesOK, EntryOK, State, InfosAt

LEMMA EntryOf ==
    ASSUME NEW O \in SUBSET Peers, NEW p \in Peers, NEW state \in States \ {"none"},
           NEW infos \in OwnInfos(O),
           state = "hosting" => infos.owner = p, state = "joined" => infos.owner # p
    PROVE  EntryOK(O, p, [state |-> state, infos |-> infos])
    BY OwnInfosParts DEF EntryOK

LEMMA AbsentOK ==
    ASSUME NEW O, NEW p
    PROVE  EntryOK(O, p, Absent) /\ Absent.state = "none" /\ Absent.infos = NoInfos
    BY DEF EntryOK, Absent, States

LEMMA Becoming ==
    ASSUME NEW O \in SUBSET Peers, EntriesOK(O), NEW p \in Peers, NEW n \in Names,
           NEW state, NEW infos, EntryOK(O, p, [state |-> state, infos |-> infos]),
           Becomes(p, n, state, infos)
    PROVE  /\ EntriesOK(O)'
           /\ State(p, n)' = state
           /\ \A r \in Peers, m \in Names : <<r, m>> # <<p, n>> => State(r, m)' = State(r, m)
    BY DEF EntriesOK, Becomes, State

LEMMA Erasing ==
    ASSUME NEW O \in SUBSET Peers, EntriesOK(O), NEW p \in Peers, NEW n \in Names, Erase(p, n)
    PROVE  /\ EntriesOK(O)'
           /\ State(p, n)' = "none"
           /\ \A r \in Peers, m \in Names : <<r, m>> # <<p, n>> => State(r, m)' = State(r, m)
    BY AbsentOK DEF EntriesOK, Erase, State

(* find_by_id finds an entry if there is one.                                 *)
LEMMA ByIdHeld ==
    ASSUME NEW p, Held(p) # {}
    PROVE  ById(p) \in Names /\ State(p, ById(p)) # "none"
<1>1. Held(p) \in SUBSET Nat
    BY SessionsAssumption DEF Held
<1>2. ById(p) \in Held(p)
    BY <1>1, MinOf DEF ById
<1> QED
    BY <1>2 DEF Held

LEMMA SearchParts ==
    ASSUME NEW O \in SUBSET Peers, SearchesOK(O), NEW p \in Peers
    PROVE  /\ search[p].id \in Nat /\ search[p].target \in Peers \cup {None}
           /\ search[p].searching \in BOOLEAN
           /\ search[p].awaiting \in SUBSET Peers /\ p \notin search[p].awaiting
           /\ search[p].results \in SUBSET OwnInfos(O)
           /\ search[p] = [id |-> search[p].id, target |-> search[p].target,
                           searching |-> search[p].searching,
                           awaiting |-> search[p].awaiting, results |-> search[p].results]
<1>1. search[p] \in Searches(O) /\ p \notin search[p].awaiting
    BY DEF SearchesOK
<1> QED
    BY <1>1 DEF Searches

LEMMA HostedOK ==
    ASSUME NEW O \in SUBSET Peers, EntriesOK(O), NEW p \in Peers, NEW target
    PROVE  Hosted(p, target) \in SUBSET OwnInfos(O)
    BY EntryParts DEF Hosted

LEMMA SpendOK ==
    ASSUME SpentOK, NEW kind \in Kinds, Spend(kind)
    PROVE  /\ SpentOK'
           /\ kind # "creates" => spent'["creates"] = spent["creates"]
           /\ kind = "creates" => spent["creates"] = 0 /\ spent'["creates"] = 1
<1>1. "creates" \in Kinds /\ "all" \in Kinds
    BY DEF Kinds
<1>2. Bounds["creates"] \in Nat /\ Bounds["creates"] <= 1
    BY <1>1, SessionsAssumption
<1>3. SpentOK'
    BY DEF SpentOK, Spend
<1>4. kind # "creates" => spent'["creates"] = spent["creates"]
    BY <1>1 DEF SpentOK, Spend
<1>5. ASSUME kind = "creates"
      PROVE  spent["creates"] = 0 /\ spent'["creates"] = 1
    <2>1. spent["creates"] < Bounds["creates"] /\ spent'["creates"] = spent["creates"] + 1
        BY <1>1, <1>5 DEF Spend
    <2>2. spent["creates"] \in Nat
        BY <1>1 DEF SpentOK
    <2> QED
        BY <1>2, <2>1, <2>2
<1> QED
    BY <1>3, <1>4, <1>5

-----------------------------------------------------------------------------
(* The streams.                                                            *)

LEMMA WordsOf ==
    ASSUME NEW O \in SUBSET Peers
    PROVE  /\ \A b \in [id : Nat, target : Peers \cup {None}] :
                [type |-> "search", body |-> b] \in Words(O)
           /\ \A b \in [id : Nat, sessions : SUBSET OwnInfos(O)] :
                [type |-> "found", body |-> b] \in Words(O)
           /\ \A b \in [player : Peers, ok : BOOLEAN] :
                [type |-> "response", body |-> b] \in Words(O)
           /\ \A b \in OwnInfos(O) : [type |-> "infos", body |-> b] \in Words(O)
           /\ \A b \in Peers : /\ [type |-> "register", body |-> b] \in Words(O)
                               /\ [type |-> "unregister", body |-> b] \in Words(O)
           /\ [type |-> "request", body |-> None] \in Words(O)
           /\ [type |-> "destroy", body |-> None] \in Words(O)
    BY DEF Words

(* Each stream of w is the beginning of that of x, as far as words go.         *)
Grows(w, x) == \A pq \in Pairs : Range(w[pq]) \subseteq Range(x[pq])

LEMMA GrowsOn ==
    ASSUME NEW w, NEW x, NEW y, Grows(w, x), Grows(x, y)
    PROVE  Grows(w, y)
    BY DEF Grows

LEMMA SendToOK ==
    ASSUME NEW M, NEW w, Streams(w, M), NEW p, NEW to, NEW type, NEW body,
           [type |-> type, body |-> body] \in M
    PROVE  /\ Streams(SendTo(w, p, to, type, body), M)
           /\ Grows(w, SendTo(w, p, to, type, body))
           /\ \A q \in to : <<p, q>> \in Pairs /\ <<p, q>> \in up /\ Reads(q, p)
                => [type |-> type, body |-> body] \in Range(SendTo(w, p, to, type, body)[<<p, q>>])
<1> DEFINE m == [type |-> type, body |-> body]
           x == SendTo(w, p, to, type, body)
           W == M \cup {Eof}
<1>1. x = [pq \in Pairs |-> x[pq]]
    BY DEF SendTo
<1>2. ASSUME NEW pq \in Pairs
      PROVE  IF pq[1] = p /\ pq[2] \in to
             THEN pq = <<p, pq[2]>> /\ x[pq] = Posted(w, p, pq[2], <<m>>)[pq]
             ELSE x[pq] = w[pq]
    BY DEF SendTo, Pairs
<1>3. ASSUME NEW q
      PROVE  /\ Posted(w, p, q, <<m>>) \in [Pairs -> Seq(W)]
             /\ \A pq \in Pairs : Range(w[pq]) \subseteq Range(Posted(w, p, q, <<m>>)[pq])
             /\ <<p, q>> \in Pairs /\ <<p, q>> \in up /\ Reads(q, p)
                  => m \in Range(Posted(w, p, q, <<m>>)[<<p, q>>])
    BY PostedOK DEF Streams
<1>4. w \in [Pairs -> Seq(W)]
    BY DEF Streams
<1> HIDE DEF m, x, W
<1>5. \A pq \in Pairs : x[pq] \in Seq(W) /\ Range(w[pq]) \subseteq Range(x[pq])
    BY <1>2, <1>3, <1>4
<1>6. ASSUME NEW q \in to, <<p, q>> \in Pairs, <<p, q>> \in up, Reads(q, p)
      PROVE  m \in Range(x[<<p, q>>])
    <2>1. x[<<p, q>>] = Posted(w, p, q, <<m>>)[<<p, q>>]
        BY <1>2, <1>6
    <2> QED
        BY <1>3, <1>6, <2>1
<1>7. x \in [Pairs -> Seq(W)]
    BY <1>1, <1>5
<1> QED
    BY <1>5, <1>6, <1>7 DEF Streams, Grows, m, x, W

LEMMA ToMembersOK ==
    ASSUME NEW M, NEW w, Streams(w, M), NEW p, NEW infos, NEW type, NEW body,
           [type |-> type, body |-> body] \in M
    PROVE  /\ Streams(SendToMembers(w, p, infos, type, body), M)
           /\ Grows(w, SendToMembers(w, p, infos, type, body))
    BY SendToOK DEF SendToMembers

LEMMA BroadcastOK ==
    ASSUME NEW O \in SUBSET Peers, NEW w, Streams(w, Words(O)), NEW p, NEW infos \in OwnInfos(O)
    PROVE  /\ Streams(BroadcastSession(w, p, infos), Words(O))
           /\ Grows(w, BroadcastSession(w, p, infos))
    BY ToMembersOK, WordsOf DEF BroadcastSession

-----------------------------------------------------------------------------
(* What a step leaves as it was.                                            *)

(* Nothing new is held and nothing new is joined.                            *)
LEMMA JoinsKept ==
    ASSUME JoinsOK, UNCHANGED pending, twice \subseteq twice',
           \A r \in Peers, m \in Names : State(r, m)' \in {"none", State(r, m)}
    PROVE  JoinsOK'
<1>1. ASSUME NEW r \in Peers
      PROVE  Held(r)' \subseteq Held(r)
    BY DEF Held
<1>2. ASSUME NEW r \in Peers \ twice', NEW m \in Names, State(r, m)' = "joining"
      PROVE  "waiting" \in Range(pending'[r])
    <2>1. State(r, m) = "joining" /\ r \in Peers \ twice
        BY <1>2 DEF State
    <2> QED
        BY <2>1 DEF JoinsOK, JoiningIsPending
<1>3. ASSUME NEW r \in Peers \ twice', NEW n \in Held(r)', NEW m \in Held(r)'
      PROVE  n = m
    BY <1>1 DEF JoinsOK
<1> QED
    BY <1>2, <1>3 DEF JoinsOK, JoiningIsPending

LEMMA JoinsKeptBy ==
    ASSUME JoinsOK, UNCHANGED pending, twice \subseteq twice',
           NEW p \in Peers, NEW n \in Names,
           State(p, n)' \in {"none", State(p, n)},
           \A r \in Peers, m \in Names : <<r, m>> # <<p, n>> => State(r, m)' = State(r, m)
    PROVE  JoinsOK'
<1>1. ASSUME NEW r \in Peers, NEW m \in Names
      PROVE  State(r, m)' \in {"none", State(r, m)}
    <2>1. CASE <<r, m>> = <<p, n>>
        BY <2>1
    <2>2. CASE <<r, m>> # <<p, n>>
        BY <2>2
    <2> QED
        BY <2>1, <2>2
<1> QED
    BY <1>1, JoinsKept

LEMMA JoinsSame ==
    ASSUME JoinsOK, UNCHANGED <<entry, pending, twice>>
    PROVE  JoinsOK'
    BY JoinsKept DEF State

(* Searches go on as they were, or end, and the streams between those who are  *)
(* still connected only grow.                                              *)
LEMMA AskedKept ==
    ASSUME AskedWillAnswer, NEW O \in SUBSET Peers, SearchesOK(O),
           \A p \in Peers : search'[p].searching =>
               /\ search[p].searching /\ search'[p].id = search[p].id
               /\ search'[p].awaiting \subseteq search[p].awaiting,
           up' \subseteq up,
           \A p, q \in Peers : p # q /\ {<<p, q>>, <<q, p>>} \subseteq up'
               => Range(wire[<<p, q>>]) \subseteq Range(wire'[<<p, q>>])
    PROVE  AskedWillAnswer'
<1> SUFFICES ASSUME NEW p \in Peers, search'[p].searching,
                    NEW q \in search'[p].awaiting, Connected(p, q)'
             PROVE  \/ \E m \in Range(wire'[<<p, q>>]) : m.type = "search" /\ m.body.id = search'[p].id
                    \/ \E m \in Range(wire'[<<q, p>>]) : m.type = "found" /\ m.body.id = search'[p].id
    BY DEF AskedWillAnswer
<1>1. q \in search[p].awaiting /\ q \in Peers /\ p # q
    BY SearchParts
<1>2. Connected(p, q)
    BY DEF Connected
<1>3. \/ \E m \in Range(wire[<<p, q>>]) : m.type = "search" /\ m.body.id = search[p].id
      \/ \E m \in Range(wire[<<q, p>>]) : m.type = "found" /\ m.body.id = search[p].id
    BY <1>1, <1>2 DEF AskedWillAnswer
<1>4. /\ Range(wire[<<p, q>>]) \subseteq Range(wire'[<<p, q>>])
      /\ Range(wire[<<q, p>>]) \subseteq Range(wire'[<<q, p>>])
    BY <1>1 DEF Connected
<1> QED
    BY <1>1, <1>3, <1>4

LEMMA AskedGrows ==
    ASSUME AskedWillAnswer, NEW O \in SUBSET Peers, SearchesOK(O), Grows(wire, wire'),
           UNCHANGED <<search, up>>
    PROVE  AskedWillAnswer'
<1>1. \A p, q \in Peers : p # q => Range(wire[<<p, q>>]) \subseteq Range(wire'[<<p, q>>])
    BY DEF Grows, Pairs
<1> QED
    BY <1>1, AskedKept

LEMMA AskedSame ==
    ASSUME AskedWillAnswer, UNCHANGED <<search, up, wire>>
    PROVE  AskedWillAnswer'
    BY DEF AskedWillAnswer, Connected

LEMMA OneSessionKept ==
    ASSUME NEW O, OneSession(O), spent'["creates"] = spent["creates"]
    PROVE  OneSession(O)'
    BY DEF OneSession

(* A step that changes entries and sends, and no search.                      *)
LEMMA TypedSent ==
    ASSUME NEW O \in SUBSET Peers, Typed(O), EntriesOK(O)', Streams(wire', Words(O)),
           SpentOK', spent'["creates"] = spent["creates"],
           UNCHANGED <<search, found, up, accepting, late>>
    PROVE  Typed(O)'
<1>1. LinkTyped(Words(O))'
    BY LinkSent DEF Typed
<1> QED
    BY <1>1, OneSessionKept DEF Typed, SearchesOK, FoundOK

-----------------------------------------------------------------------------
(* The calls of the game.                                                  *)

LEMMA CreateSessionOK ==
    ASSUME NEW O \in SUBSET Peers, Typed(O), JoinsOK, AskedWillAnswer, NEW p \in Peers,
           NEW n \in Names, NEW settings \in Settings, CreateSession(p, n, settings)
    PROVE  Typed({p})' /\ JoinsOK' /\ AskedWillAnswer'
<1> DEFINE infos == [owner |-> p, roster |-> {p}, settings |-> settings, phase |-> "pending"]
<1>1. SpentOK' /\ spent["creates"] = 0 /\ spent'["creates"] = 1
    BY SpendOK DEF Typed, CreateSession, Kinds
<1>2. O = {}
    BY <1>1 DEF Typed, OneSession
<1>3. OwnInfos(O) = {} /\ OwnInfos(O) \subseteq OwnInfos({p})
    BY <1>2 DEF OwnInfos
<1>4. \A r \in Peers, m \in Names : State(r, m) = "none"
    BY <1>3, EntryParts DEF Typed
<1>5. EntriesOK({p})
    BY <1>3 DEF Typed, EntriesOK, EntryOK
<1>6. infos \in OwnInfos({p}) /\ infos.owner = p
    BY DEF OwnInfos, Infos, Phases
<1>7. EntryOK({p}, p, [state |-> "hosting", infos |-> infos])
    BY <1>6, EntryOf DEF States
<1>8. Becomes(p, n, "hosting", infos)
    BY DEF CreateSession
<1> HIDE DEF infos
<1>9. /\ EntriesOK({p})' /\ State(p, n)' = "hosting"
      /\ \A r \in Peers, m \in Names : <<r, m>> # <<p, n>> => State(r, m)' = State(r, m)
    BY <1>5, <1>7, <1>8, Becoming
<1>10. LinkTyped(Words({p}))'
    <2>1. Words(O) \subseteq Words({p})
        BY <1>3 DEF Words
    <2>2. LinkTyped(Words({p}))
        BY <2>1, LinkWider DEF Typed
    <2> QED
        BY <2>2, LinkSame DEF CreateSession
<1>11. SearchesOK({p})' /\ FoundOK({p})'
    <2>1. Searches(O) \subseteq Searches({p})
        BY <1>3 DEF Searches
    <2> QED
        BY <1>3, <2>1 DEF Typed, SearchesOK, FoundOK, CreateSession
<1>12. OneSession({p})'
    BY <1>1 DEF OneSession
<1>13. JoinsOK'
    BY <1>4, <1>9 DEF JoinsOK, JoiningIsPending, Held, CreateSession, history
<1>14. AskedWillAnswer'
    BY AskedSame DEF CreateSession, linkVars
<1> QED
    BY <1>1, <1>9, <1>10, <1>11, <1>12, <1>13, <1>14 DEF Typed

LEMMA WriteOK ==
    ASSUME NEW O \in SUBSET Peers, Typed(O), JoinsOK, AskedWillAnswer, NEW p \in Peers,
           NEW n \in Names, NEW infos, Write(p, n, infos),
           infos \in OwnInfos(O), infos.owner = InfosAt(p, n).owner
    PROVE  Typed(O)' /\ JoinsOK' /\ AskedWillAnswer'
<1>1. EntryOK(O, p, [state |-> State(p, n), infos |-> infos])
    BY EntryParts, EntryOf DEF Typed, Write
<1>2. /\ EntriesOK(O)' /\ State(p, n)' = State(p, n)
      /\ \A r \in Peers, m \in Names : <<r, m>> # <<p, n>> => State(r, m)' = State(r, m)
    BY <1>1, Becoming DEF Typed, Write
<1>3. Streams(wire', Words(O)) /\ Grows(wire, wire')
    BY BroadcastOK DEF Typed, LinkTyped, Write
<1>4. Typed(O)'
    BY <1>2, <1>3, TypedSent, SpendOK DEF Typed, Write, Kinds
<1>5. JoinsOK'
    BY <1>2, JoinsKeptBy DEF Write
<1>6. AskedWillAnswer'
    BY <1>3, AskedGrows DEF Typed, Write
<1> QED
    BY <1>4, <1>5, <1>6

LEMMA WritesOK ==
    ASSUME NEW O \in SUBSET Peers, Typed(O), JoinsOK, AskedWillAnswer, NEW p \in Peers,
           NEW n \in Names, \/ \E settings \in Settings : UpdateSession(p, n, settings)
                            \/ StartSession(p, n)
                            \/ EndSession(p, n)
    PROVE  Typed(O)' /\ JoinsOK' /\ AskedWillAnswer'
<1>1. State(p, n) # "none"
    BY DEF UpdateSession, StartSession, EndSession, Write
<1>2. InfosAt(p, n) \in OwnInfos(O)
    BY <1>1, EntryParts DEF Typed
<1>3. CASE \E settings \in Settings : UpdateSession(p, n, settings)
    <2>1. PICK settings \in Settings : UpdateSession(p, n, settings)
        BY <1>3
    <2> DEFINE infos == [InfosAt(p, n) EXCEPT !.settings = settings]
    <2>2. infos \in OwnInfos(O) /\ infos.owner = InfosAt(p, n).owner
        BY <1>2, WrittenOK, OwnInfosParts
    <2>3. Write(p, n, infos)
        BY <2>1 DEF UpdateSession
    <2> HIDE DEF infos
    <2> QED
        BY <2>2, <2>3, WriteOK
<1>4. CASE StartSession(p, n) \/ EndSession(p, n)
    <2>1. PICK phase \in Phases : Write(p, n, [InfosAt(p, n) EXCEPT !.phase = phase])
        BY <1>4 DEF StartSession, EndSession, Phases
    <2> DEFINE infos == [InfosAt(p, n) EXCEPT !.phase = phase]
    <2>2. infos \in OwnInfos(O) /\ infos.owner = InfosAt(p, n).owner
        BY <1>2, WrittenOK, OwnInfosParts
    <2> HIDE DEF infos
    <2> QED
        BY <2>1, <2>2, WriteOK DEF infos
<1> QED
    BY <1>3, <1>4

LEMMA ChangeSeatsOK ==
    ASSUME NEW O \in SUBSET Peers, Typed(O), JoinsOK, AskedWillAnswer, NEW p \in Peers,
           NEW n \in Names, NEW m \in Peers, RegisterPlayers(p, n, m) \/ UnregisterPlayers(p, n, m)
    PROVE  Typed(O)' /\ JoinsOK' /\ AskedWillAnswer'
<1>1. State(p, n) # "none"
    BY DEF RegisterPlayers, UnregisterPlayers, ChangeSeats
<1>2. InfosAt(p, n) \in OwnInfos(O)
    BY <1>1, EntryParts DEF Typed
<1>3. PICK infos \in OwnInfos(O), type \in {"register", "unregister"} :
        infos.owner = InfosAt(p, n).owner /\ ChangeSeats(p, n, m, infos, type)
    BY <1>2, RosterOK DEF RegisterPlayers, UnregisterPlayers
<1>4. EntryOK(O, p, [state |-> State(p, n), infos |-> infos])
    BY <1>1, <1>3, EntryParts, EntryOf DEF Typed
<1>5. /\ EntriesOK(O)' /\ State(p, n)' = State(p, n)
      /\ \A r \in Peers, x \in Names : <<r, x>> # <<p, n>> => State(r, x)' = State(r, x)
    BY <1>3, <1>4, Becoming DEF Typed, ChangeSeats
<1>6. [type |-> type, body |-> m] \in Words(O)
    BY <1>3, WordsOf
<1>7. Streams(wire', Words(O)) /\ Grows(wire, wire')
    BY <1>3, <1>6, ToMembersOK DEF Typed, LinkTyped, ChangeSeats
<1>8. Typed(O)'
    BY <1>3, <1>5, <1>7, TypedSent, SpendOK DEF Typed, ChangeSeats, Kinds
<1>9. JoinsOK'
    BY <1>3, <1>5, JoinsKeptBy DEF ChangeSeats
<1>10. AskedWillAnswer'
    BY <1>3, <1>7, AskedGrows DEF Typed, ChangeSeats
<1> QED
    BY <1>8, <1>9, <1>10

LEMMA JoinSessionOK ==
    ASSUME NEW O \in SUBSET Peers, Typed(O), JoinsOK, AskedWillAnswer, NEW p \in Peers,
           NEW n \in Names, JoinSession(p, n)
    PROVE  Typed(O)' /\ JoinsOK' /\ AskedWillAnswer'
<1>1. State(p, n) = "none" /\ found[p] \in OwnInfos(O)
    BY DEF Typed, FoundOK, JoinSession
<1>2. EntryOK(O, p, [state |-> "joining", infos |-> found[p]])
    BY <1>1, EntryOf DEF States
<1>3. /\ EntriesOK(O)' /\ State(p, n)' = "joining"
      /\ \A r \in Peers, m \in Names : <<r, m>> # <<p, n>> => State(r, m)' = State(r, m)
    BY <1>2, Becoming DEF Typed, JoinSession
<1>4. Streams(wire', Words(O)) /\ Grows(wire, wire')
    BY WordsOf, SendToOK DEF Typed, LinkTyped, JoinSession
<1>5. Typed(O)'
    BY <1>3, <1>4, TypedSent, SpendOK DEF Typed, JoinSession, Kinds
<1>6. PICK i \in 0 .. Len(pending[p]) :
        pending' = [pending EXCEPT ![p] = InsertAt(pending[p], i + 1, "waiting")]
    BY DEF JoinSession
<1>7. /\ pending[p] \in Seq({"waiting", "answered"})
      /\ pending \in [Peers -> Seq({"waiting", "answered"})]
    BY DEF JoinsOK
<1>8. /\ InsertAt(pending[p], i + 1, "waiting") \in Seq({"waiting", "answered"})
      /\ "waiting" \in Range(InsertAt(pending[p], i + 1, "waiting"))
    <2> DEFINE Joins == {"waiting", "answered"}
    <2>1. pending[p] \in Seq(Joins) /\ "waiting" \in Joins
        BY <1>7
    <2> HIDE DEF Joins
    <2>2. /\ InsertAt(pending[p], i + 1, "waiting") \in Seq(Joins)
          /\ "waiting" \in Range(InsertAt(pending[p], i + 1, "waiting"))
        BY <2>1, InsertKeeps
    <2> QED
        BY <2>2 DEF Joins
<1>9. /\ pending' \in [Peers -> Seq({"waiting", "answered"})]
      /\ "waiting" \in Range(pending'[p])
      /\ \A r \in Peers \ {p} : pending'[r] = pending[r]
    BY <1>6, <1>7, <1>8
<1>10. twice' = IF Held(p) = {} THEN twice ELSE twice \cup {p}
    BY DEF JoinSession
<1>11. ASSUME NEW r \in Peers \ twice'
       PROVE  /\ \A x, y \in Held(r)' : x = y
              /\ \A x \in Names : State(r, x)' = "joining" => "waiting" \in Range(pending'[r])
    <2>1. CASE r = p
        <3>1. Held(p) = {}
            BY <1>10, <1>11, <2>1
        <3>2. Held(p)' = {n}
            BY <1>3, <3>1 DEF Held
        <3> QED
            BY <1>9, <2>1, <3>2
    <2>2. CASE r # p
        <3>1. \A x \in Names : State(r, x)' = State(r, x)
            BY <1>3, <2>2
        <3>2. Held(r)' = Held(r)
            BY <3>1 DEF Held
        <3>3. r \in Peers \ twice
            BY <1>10, <1>11
        <3> QED
            BY <1>9, <2>2, <3>1, <3>2, <3>3 DEF JoinsOK, JoiningIsPending
    <2> QED
        BY <2>1, <2>2
<1>12. JoinsOK'
    BY <1>9, <1>11 DEF JoinsOK, JoiningIsPending
<1>13. AskedWillAnswer'
    BY <1>4, AskedGrows DEF Typed, JoinSession
<1> QED
    BY <1>5, <1>12, <1>13

LEMMA DestroySessionOK ==
    ASSUME NEW O \in SUBSET Peers, Typed(O), JoinsOK, AskedWillAnswer, NEW p \in Peers,
           NEW n \in Names, DestroySession(p, n)
    PROVE  Typed(O)' /\ JoinsOK' /\ AskedWillAnswer'
<1>1. /\ EntriesOK(O)' /\ State(p, n)' = "none"
      /\ \A r \in Peers, m \in Names : <<r, m>> # <<p, n>> => State(r, m)' = State(r, m)
    BY Erasing DEF Typed, DestroySession
<1>2. Streams(wire', Words(O)) /\ Grows(wire, wire')
    BY WordsOf, ToMembersOK DEF Typed, LinkTyped, DestroySession
<1>3. Typed(O)'
    BY <1>1, <1>2, TypedSent, SpendOK DEF Typed, DestroySession, Kinds
<1>4. JoinsOK'
    BY <1>1, JoinsKeptBy DEF DestroySession
<1>5. AskedWillAnswer'
    BY <1>2, AskedGrows DEF Typed, DestroySession
<1> QED
    BY <1>3, <1>4, <1>5
SearchChanges(p, s) == search' = [search EXCEPT ![p] = s]

(* What the tables of the searches may become.                                *)
LEMMA SearchBecomes ==
    ASSUME NEW O \in SUBSET Peers, SearchesOK(O), NEW p \in Peers,
           NEW s \in Searches(O),
           p \notin s.awaiting, SearchChanges(p, s)
    PROVE  /\ SearchesOK(O)'
           /\ search'[p] = s
           /\ \A r \in Peers \ {p} : search'[r] = search[r]
    BY DEF SearchesOK, SearchChanges

(* A step that changes a search, sends, and leaves the entries.               *)
LEMMA TypedSearched ==
    ASSUME NEW O \in SUBSET Peers, Typed(O), SearchesOK(O)', Streams(wire', Words(O)),
           SpentOK', spent'["creates"] = spent["creates"],
           UNCHANGED <<entry, found, up, accepting, late>>
    PROVE  Typed(O)'
<1>1. LinkTyped(Words(O))'
    BY LinkSent DEF Typed
<1>2. EntriesOK(O)' /\ FoundOK(O)'
    BY DEF Typed, EntriesOK, FoundOK
<1> QED
    BY <1>1, <1>2, OneSessionKept DEF Typed

LEMMA SearchFindOK ==
    ASSUME NEW O \in SUBSET Peers, Typed(O), JoinsOK, AskedWillAnswer, NEW p \in Peers,
           NEW target \in Peers \cup {None}, SearchFind(p, target)
    PROVE  Typed(O)' /\ JoinsOK' /\ AskedWillAnswer'
<1> DEFINE asked == {q \in Peers : <<p, q>> \in up /\ target \in {None, q}}
           id == spent.searches + 1
           query == [id |-> id, target |-> target]
           s == [id |-> id, target |-> target, searching |-> TRUE,
                 awaiting |-> asked, results |-> Hosted(p, target)]
<1>1. SpentOK' /\ spent'["creates"] = spent["creates"]
    BY SpendOK DEF Typed, SearchFind, Kinds
<1>2. id \in Nat
    BY DEF Typed, SpentOK, Kinds
<1>3. p \notin asked
    BY DEF Typed, LinkTyped, Pairs
<1>4. Hosted(p, target) \in SUBSET OwnInfos(O)
    BY HostedOK DEF Typed
<1>5. /\ SearchChanges(p, s)
      /\ wire' = SendTo(wire, p, asked, "search", query)
    BY DEF SearchFind, SearchChanges
<1>6. s \in Searches(O)
    BY <1>2, <1>4 DEF Searches
<1>7. s.awaiting = asked /\ s.id = query.id
    OBVIOUS
<1>8. [type |-> "search", body |-> query] \in Words(O)
    BY <1>2, WordsOf
<1>9. asked \subseteq Peers
    OBVIOUS
<1> HIDE DEF s, query, asked
<1>10. /\ SearchesOK(O)' /\ search'[p] = s
       /\ \A r \in Peers \ {p} : search'[r] = search[r]
    BY <1>3, <1>5, <1>6, <1>7, SearchBecomes DEF Typed
<1>11. /\ Streams(wire', Words(O)) /\ Grows(wire, wire')
       /\ \A q \in asked : <<p, q>> \in Pairs /\ <<p, q>> \in up /\ Reads(q, p)
            => [type |-> "search", body |-> query] \in Range(wire'[<<p, q>>])
    BY <1>5, <1>8, SendToOK DEF Typed, LinkTyped
<1>12. Typed(O)'
    BY <1>1, <1>10, <1>11, TypedSearched DEF SearchFind
<1>13. JoinsOK'
    BY JoinsSame DEF SearchFind, history
<1>14. UNCHANGED up
    BY DEF SearchFind
<1>15. AskedWillAnswer'
    <2> SUFFICES ASSUME NEW r \in Peers, search'[r].searching,
                        NEW q \in search'[r].awaiting, Connected(r, q)'
                 PROVE  \/ \E m \in Range(wire'[<<r, q>>]) : m.type = "search" /\ m.body.id = search'[r].id
                        \/ \E m \in Range(wire'[<<q, r>>]) : m.type = "found" /\ m.body.id = search'[r].id
        BY DEF AskedWillAnswer
    <2>1. <<r, q>> \in Pairs /\ <<q, r>> \in Pairs /\ Connected(r, q)
        BY <1>14 DEF Connected, Typed, LinkTyped
    <2>2. CASE r = p
        <3>1. q \in asked
            BY <1>7, <1>10, <2>2
        <3>2. [type |-> "search", body |-> query] \in Range(wire'[<<p, q>>])
            BY <1>11, <2>1, <2>2, <3>1 DEF Connected, Reads
        <3> QED
            BY <1>7, <1>10, <2>2, <3>2
    <2>3. CASE r # p
        <3>1. \/ \E m \in Range(wire[<<r, q>>]) : m.type = "search" /\ m.body.id = search[r].id
              \/ \E m \in Range(wire[<<q, r>>]) : m.type = "found" /\ m.body.id = search[r].id
            BY <1>10, <2>1, <2>3 DEF AskedWillAnswer
        <3>2. /\ Range(wire[<<r, q>>]) \subseteq Range(wire'[<<r, q>>])
              /\ Range(wire[<<q, r>>]) \subseteq Range(wire'[<<q, r>>])
            BY <1>11, <2>1 DEF Grows
        <3> QED
            BY <1>10, <2>3, <3>1, <3>2
    <2> QED
        BY <2>2, <2>3
<1> QED
    BY <1>12, <1>13, <1>15

LEMMA SearchCopyResultOK ==
    ASSUME NEW O \in SUBSET Peers, Typed(O), JoinsOK, AskedWillAnswer, NEW p \in Peers,
           SearchCopyResult(p)
    PROVE  Typed(O)' /\ JoinsOK' /\ AskedWillAnswer'
<1>1. SpentOK' /\ spent'["creates"] = spent["creates"]
    BY SpendOK DEF Typed, SearchCopyResult, Kinds
<1>2. PICK infos \in search[p].results : found' = [found EXCEPT ![p] = infos]
    BY DEF SearchCopyResult
<1>3. infos \in OwnInfos(O)
    BY SearchParts DEF Typed
<1>4. FoundOK(O)'
    BY <1>2, <1>3 DEF Typed, FoundOK
<1>5. LinkTyped(Words(O))'
    BY LinkSame DEF Typed, SearchCopyResult
<1>6. EntriesOK(O)' /\ SearchesOK(O)'
    BY DEF Typed, SearchCopyResult, EntriesOK, SearchesOK
<1>7. Typed(O)'
    BY <1>1, <1>4, <1>5, <1>6, OneSessionKept DEF Typed
<1> QED
    BY <1>7, JoinsSame, AskedSame DEF SearchCopyResult, history, linkVars

(* A search that ends, or is let go of.                                      *)
LEMMA SearchEnds ==
    ASSUME NEW O \in SUBSET Peers, Typed(O), JoinsOK, AskedWillAnswer, NEW p \in Peers,
           NEW s \in Searches(O), ~ s.searching, p \notin s.awaiting, SearchChanges(p, s),
           SpentOK', spent'["creates"] = spent["creates"],
           UNCHANGED <<entry, found, pending, twice, linkVars>>
    PROVE  Typed(O)' /\ JoinsOK' /\ AskedWillAnswer'
<1>1. SearchesOK(O)' /\ search'[p] = s /\ \A r \in Peers \ {p} : search'[r] = search[r]
    BY SearchBecomes DEF Typed
<1>2. ~ search'[p].searching
    BY <1>1
<1>3. Typed(O)'
    BY <1>1, TypedSearched DEF Typed, LinkTyped, linkVars
<1>4. AskedWillAnswer'
    BY <1>1, <1>2 DEF AskedWillAnswer, Connected, linkVars
<1> QED
    BY <1>3, <1>4, JoinsSame

LEMMA SearchReleaseOK ==
    ASSUME NEW O \in SUBSET Peers, Typed(O), JoinsOK, AskedWillAnswer, NEW p \in Peers,
           SearchRelease(p)
    PROVE  Typed(O)' /\ JoinsOK' /\ AskedWillAnswer'
<1>1. NoSearch \in Searches(O) /\ ~ NoSearch.searching /\ p \notin NoSearch.awaiting
    BY DEF NoSearch, Searches
<1>2. /\ SearchChanges(p, NoSearch)
      /\ UNCHANGED <<entry, found, pending, twice, spent, linkVars>>
    BY DEF SearchRelease, SearchChanges, history
<1>3. SpentOK' /\ spent'["creates"] = spent["creates"]
    BY <1>2 DEF Typed, SpentOK
<1> QED
    BY <1>1, <1>2, <1>3, SearchEnds

-----------------------------------------------------------------------------
(* The tick.                                                               *)

LEMMA SearchOverOK ==
    ASSUME NEW O \in SUBSET Peers, Typed(O), JoinsOK, AskedWillAnswer, NEW p \in Peers,
           SearchOver(p)
    PROVE  Typed(O)' /\ JoinsOK' /\ AskedWillAnswer'
<1> DEFINE s == [search[p] EXCEPT !.searching = FALSE]
<1>1. s \in Searches(O) /\ ~ s.searching /\ p \notin s.awaiting
    <2>1. ASSUME NEW r \in Searches(O)
          PROVE  [r EXCEPT !.searching = FALSE] \in Searches(O)
        BY DEF Searches
    <2>2. ASSUME NEW r \in Searches(O)
          PROVE  /\ [r EXCEPT !.searching = FALSE].searching = FALSE
                 /\ [r EXCEPT !.searching = FALSE].awaiting = r.awaiting
        BY DEF Searches
    <2>3. search[p] \in Searches(O) /\ p \notin search[p].awaiting
        BY DEF Typed, SearchesOK
    <2> QED
        BY <2>1, <2>2, <2>3
<1>2. /\ SearchChanges(p, s)
      /\ UNCHANGED <<entry, found, pending, twice, linkVars>>
    BY DEF SearchOver, SearchChanges, history
<1>3. SpentOK' /\ spent'["creates"] = spent["creates"]
    BY SpendOK DEF Typed, SpentOK, SearchOver, Kinds
<1> HIDE DEF s
<1> QED
    BY <1>1, <1>2, <1>3, SearchEnds

(* An answer that is collected, whatever else is waited for.                  *)
LEMMA PendingRemoved ==
    ASSUME JoinsOK, NEW p \in Peers, NEW i \in DOMAIN pending[p],
           pending' = [pending EXCEPT ![p] = RemoveAt(@, i)]
    PROVE  /\ pending' \in [Peers -> Seq({"waiting", "answered"})]
           /\ \A r \in Peers \ {p} : pending'[r] = pending[r]
           /\ \A j \in DOMAIN pending[p] : j # i => pending[p][j] \in Range(pending'[p])
<1>1. /\ pending[p] \in Seq({"waiting", "answered"})
      /\ pending \in [Peers -> Seq({"waiting", "answered"})]
    BY DEF JoinsOK
<1>2. /\ RemoveAt(pending[p], i) \in Seq({"waiting", "answered"})
      /\ \A j \in DOMAIN pending[p] : j # i => pending[p][j] \in Range(RemoveAt(pending[p], i))
    BY <1>1, RemoveKeepsOthers
<1> QED
    BY <1>1, <1>2

LEMMA JoinAnsweredOK ==
    ASSUME NEW O \in SUBSET Peers, Typed(O), JoinsOK, AskedWillAnswer, NEW p \in Peers,
           NEW i, JoinAnswered(p, i)
    PROVE  Typed(O)' /\ JoinsOK' /\ AskedWillAnswer'
<1>1. /\ i \in DOMAIN pending[p] /\ pending[p][i] = "answered"
      /\ pending' = [pending EXCEPT ![p] = RemoveAt(@, i)]
      /\ UNCHANGED <<entry, twice, search, found, spent, linkVars>>
    BY DEF JoinAnswered, history
<1>2. /\ pending' \in [Peers -> Seq({"waiting", "answered"})]
      /\ \A r \in Peers \ {p} : pending'[r] = pending[r]
      /\ \A j \in DOMAIN pending[p] : j # i => pending[p][j] \in Range(pending'[p])
    BY <1>1, PendingRemoved
<1>3. \A r \in Peers : "waiting" \in Range(pending[r]) => "waiting" \in Range(pending'[r])
    <2> SUFFICES ASSUME "waiting" \in Range(pending[p]) PROVE "waiting" \in Range(pending'[p])
        BY <1>2
    <2>1. PICK j \in DOMAIN pending[p] : pending[p][j] = "waiting"
        BY DEF Range
    <2>2. j # i
        BY <1>1, <2>1
    <2> QED
        BY <1>2, <2>1, <2>2
<1>4. JoinsOK'
    BY <1>1, <1>2, <1>3 DEF JoinsOK, JoiningIsPending, Held, State
<1>5. Typed(O)'
    BY <1>1, TypedSearched DEF Typed, SearchesOK, SpentOK, LinkTyped, linkVars
<1>6. AskedWillAnswer'
    BY <1>1, AskedSame DEF linkVars
<1> QED
    BY <1>4, <1>5, <1>6
LEMMA JoinTimedOutOK ==
    ASSUME NEW O \in SUBSET Peers, Typed(O), JoinsOK, AskedWillAnswer, NEW p \in Peers,
           NEW i, JoinTimedOut(p, i)
    PROVE  Typed(O)' /\ JoinsOK' /\ AskedWillAnswer'
<1> DEFINE gone(x) == x \in Held(p) /\ x = ById(p) /\ State(p, x) = "joining"
<1>1. /\ i \in DOMAIN pending[p]
      /\ pending' = [pending EXCEPT ![p] = RemoveAt(@, i)]
      /\ UNCHANGED <<twice, search, found, linkVars>>
    BY DEF JoinTimedOut
<1>2. /\ pending' \in [Peers -> Seq({"waiting", "answered"})]
      /\ \A r \in Peers \ {p} : pending'[r] = pending[r]
    BY <1>1, PendingRemoved
<1>3. /\ EntriesOK(O)'
      /\ \A r \in Peers, m \in Names : State(r, m)' \in {"none", State(r, m)}
      /\ \A x \in Names : gone(x) => State(p, x)' = "none"
    <2>1. ASSUME NEW x \in Names, gone(x)
          PROVE  /\ EntriesOK(O)' /\ State(p, x)' = "none"
                 /\ \A r \in Peers, m \in Names : State(r, m)' \in {"none", State(r, m)}
        <3>1. Erase(p, x) /\ EntriesOK(O)
            BY <2>1 DEF JoinTimedOut, Typed
        <3>2. /\ EntriesOK(O)' /\ State(p, x)' = "none"
              /\ \A r \in Peers, m \in Names : <<r, m>> # <<p, x>> => State(r, m)' = State(r, m)
            BY <3>1, Erasing
        <3>3. ASSUME NEW r \in Peers, NEW m \in Names
              PROVE  State(r, m)' \in {"none", State(r, m)}
            BY <3>2 DEF State
        <3> QED
            BY <3>2, <3>3
    <2>2. CASE \A x \in Names : ~ gone(x)
        <3>1. UNCHANGED entry
            BY <2>2, ByIdHeld DEF JoinTimedOut, Held
        <3> QED
            BY <2>2, <3>1 DEF Typed, EntriesOK, State
    <2> QED
        BY <2>1, <2>2
<1>4. ASSUME NEW r \in Peers
      PROVE  Held(r)' \subseteq Held(r)
    BY <1>3 DEF Held, State
<1>5. ASSUME NEW r \in Peers \ twice, NEW m \in Names, State(r, m)' = "joining"
      PROVE  "waiting" \in Range(pending'[r])
    <2>1. State(r, m) = "joining" /\ m \in Held(r)
        BY <1>3, <1>5 DEF Held, State
    <2>2. CASE r = p
        <3>1. ById(p) \in Held(p)
            BY <2>1, <2>2, ByIdHeld DEF Held
        <3>2. ById(p) = m
            BY <2>1, <2>2, <3>1 DEF JoinsOK
        <3> QED
            BY <1>3, <1>5, <2>1, <2>2, <3>2
    <2>3. CASE r # p
        BY <1>2, <2>1, <2>3 DEF JoinsOK, JoiningIsPending
    <2> QED
        BY <2>2, <2>3
<1>6. JoinsOK'
    <2>1. \A r \in Peers \ twice : \A x, y \in Held(r)' : x = y
        BY <1>4 DEF JoinsOK
    <2> QED
        BY <1>1, <1>2, <1>5, <2>1 DEF JoinsOK, JoiningIsPending
<1>7. Typed(O)'
    BY <1>1, <1>3, SpendOK, TypedSent DEF Typed, LinkTyped, linkVars, JoinTimedOut, Kinds
<1>8. AskedWillAnswer'
    BY <1>1, AskedSame DEF linkVars
<1> QED
    BY <1>6, <1>7, <1>8
-----------------------------------------------------------------------------
(* The messages.                                                           *)

(* A copy that is written to, and a copy that is dropped.                     *)
LEMMA CopyWritten ==
    ASSUME NEW O \in SUBSET Peers, EntriesOK(O), JoinsOK, NEW p \in Peers, NEW n \in Names,
           State(p, n) # "none", NEW infos \in OwnInfos(O), infos.owner = InfosAt(p, n).owner,
           Becomes(p, n, State(p, n), infos), UNCHANGED <<pending, twice>>
    PROVE  EntriesOK(O)' /\ JoinsOK'
<1>1. EntryOK(O, p, [state |-> State(p, n), infos |-> infos])
    BY EntryParts, EntryOf
<1>2. /\ EntriesOK(O)' /\ State(p, n)' = State(p, n)
      /\ \A r \in Peers, m \in Names : <<r, m>> # <<p, n>> => State(r, m)' = State(r, m)
    BY <1>1, Becoming
<1> QED
    BY <1>2, JoinsKeptBy

LEMMA CopyDropped ==
    ASSUME NEW O \in SUBSET Peers, EntriesOK(O), JoinsOK, NEW p \in Peers, NEW n \in Names,
           Erase(p, n), UNCHANGED <<pending, twice>>
    PROVE  EntriesOK(O)' /\ JoinsOK'
<1>1. /\ EntriesOK(O)' /\ State(p, n)' = "none"
      /\ \A r \in Peers, m \in Names : <<r, m>> # <<p, n>> => State(r, m)' = State(r, m)
    BY Erasing
<1> QED
    BY <1>1, JoinsKeptBy

LEMMA NothingWritten ==
    ASSUME NEW O, EntriesOK(O), JoinsOK, UNCHANGED <<entry, pending, twice>>
    PROVE  EntriesOK(O)' /\ JoinsOK'
    BY JoinsSame DEF EntriesOK

LEMMA OnRequestOK ==
    ASSUME NEW O \in SUBSET Peers, EntriesOK(O), JoinsOK, NEW p \in Peers, NEW q \in Peers,
           NEW w, Streams(w, Words(O)), OnRequest(p, q, w), UNCHANGED twice
    PROVE  EntriesOK(O)' /\ JoinsOK' /\ Streams(wire', Words(O)) /\ Grows(w, wire')
<1>1. PICK ok \in BOOLEAN :
        LET told == SendTo(w, p, {q}, "response", [player |-> q, ok |-> ok])
        IN  \/ wire' = told /\ UNCHANGED entry
            \/ \E n \in Names :
                 /\ State(p, n) = "hosting"
                 /\ Becomes(p, n, "hosting", Seat(InfosAt(p, n), q))
                 /\ wire' = BroadcastSession(
                              SendTo(told, p, InfosAt(p, n).roster \ {p, q}, "response",
                                     [player |-> q, ok |-> ok]),
                              p, Seat(InfosAt(p, n), q))
    BY ByIdHeld DEF OnRequest
<1> DEFINE verdict == [player |-> q, ok |-> ok]
           told == SendTo(w, p, {q}, "response", verdict)
<1>2. [type |-> "response", body |-> verdict] \in Words(O)
    BY WordsOf
<1> HIDE DEF verdict
<1>3. Streams(told, Words(O)) /\ Grows(w, told)
    BY <1>2, SendToOK
<1> HIDE DEF told
<1>4. CASE wire' = told /\ UNCHANGED entry
    BY <1>3, <1>4, NothingWritten DEF OnRequest
<1>5. ASSUME NEW n \in Names, State(p, n) = "hosting",
             Becomes(p, n, "hosting", Seat(InfosAt(p, n), q)),
             wire' = BroadcastSession(
                       SendTo(told, p, InfosAt(p, n).roster \ {p, q}, "response", verdict),
                       p, Seat(InfosAt(p, n), q))
      PROVE  EntriesOK(O)' /\ JoinsOK' /\ Streams(wire', Words(O)) /\ Grows(w, wire')
    <2> DEFINE seated == Seat(InfosAt(p, n), q)
               others == SendTo(told, p, InfosAt(p, n).roster \ {p, q}, "response", verdict)
    <2>1. seated \in OwnInfos(O) /\ seated.owner = InfosAt(p, n).owner
        BY <1>5, EntryParts, RosterOK
    <2>2. EntriesOK(O)' /\ JoinsOK'
        BY <1>5, <2>1, CopyWritten DEF OnRequest
    <2>3. Streams(others, Words(O)) /\ Grows(told, others)
        BY <1>2, <1>3, SendToOK
    <2> HIDE DEF others, seated
    <2>4. /\ Streams(BroadcastSession(others, p, seated), Words(O))
          /\ Grows(others, BroadcastSession(others, p, seated))
        BY <2>1, <2>3, BroadcastOK
    <2>5. wire' = BroadcastSession(others, p, seated)
        BY <1>5 DEF others, seated
    <2> QED
        BY <1>3, <2>2, <2>3, <2>4, <2>5, GrowsOn
<1> QED
    BY <1>1, <1>4, <1>5 DEF told, verdict

LEMMA OnVerdictOK ==
    ASSUME NEW O \in SUBSET Peers, EntriesOK(O), JoinsOK, NEW p \in Peers, NEW n \in Names,
           NEW ok \in BOOLEAN, n = ById(p), Held(p) # {}, InfosAt(p, n).owner # p,
           pending[p] # <<>>, OnVerdict(p, n, ok), UNCHANGED twice
    PROVE  EntriesOK(O)' /\ JoinsOK'
<1>1. State(p, n) # "none" /\ InfosAt(p, n) \in OwnInfos(O)
    BY ByIdHeld, EntryParts
<1>2. /\ EntriesOK(O)'
      /\ \A r \in Peers, m \in Names : <<r, m>> # <<p, n>> => State(r, m)' = State(r, m)
      /\ State(p, n)' # "joining"
    <2>1. CASE ok
        <3> DEFINE seated == Seat(InfosAt(p, n), p)
        <3>1. seated \in OwnInfos(O) /\ seated.owner = InfosAt(p, n).owner
            BY <1>1, RosterOK
        <3>2. Becomes(p, n, "joined", seated)
            BY <2>1 DEF OnVerdict
        <3> HIDE DEF seated
        <3>3. EntryOK(O, p, [state |-> "joined", infos |-> seated])
            BY <3>1, EntryOf DEF States
        <3> QED
            BY <3>2, <3>3, Becoming
    <2>2. CASE ~ok /\ State(p, n) = "joining"
        <3>1. Erase(p, n)
            BY <2>2 DEF OnVerdict
        <3> QED
            BY <3>1, Erasing
    <2>3. CASE ~ok /\ State(p, n) # "joining"
        BY <2>3 DEF OnVerdict, EntriesOK, State
    <2> QED
        BY <2>1, <2>2, <2>3
<1>3. /\ pending' \in [Peers -> Seq({"waiting", "answered"})]
      /\ \A r \in Peers \ {p} : pending'[r] = pending[r]
    <2> DEFINE s == pending[p]
    <2>1. /\ pending \in [Peers -> Seq({"waiting", "answered"})]
          /\ s \in Seq({"waiting", "answered"}) /\ s # <<>>
        BY DEF JoinsOK
    <2>2. pending' = [pending EXCEPT ![p] = [s EXCEPT ![1] = "answered"]]
        BY <2>1 DEF OnVerdict
    <2> HIDE DEF s
    <2>3. [s EXCEPT ![1] = "answered"] \in Seq({"waiting", "answered"})
        BY <2>1, ExceptSeq
    <2> QED
        BY <2>1, <2>2, <2>3
<1>4. \A r \in Peers : Held(r)' \subseteq Held(r)
    BY <1>1, <1>2 DEF Held, State
<1>5. ASSUME NEW r \in Peers \ twice, NEW m \in Names, State(r, m)' = "joining"
      PROVE  "waiting" \in Range(pending'[r])
    <2>1. <<r, m>> # <<p, n>> /\ State(r, m) = "joining" /\ m \in Held(r)
        BY <1>2, <1>5 DEF Held, State
    <2>2. r # p
        <3>1. ById(p) \in Held(p)
            BY ByIdHeld DEF Held
        <3> QED
            BY <2>1, <3>1 DEF JoinsOK
    <2> QED
        BY <1>3, <2>1, <2>2 DEF JoinsOK, JoiningIsPending
<1>6. \A r \in Peers \ twice : \A x, y \in Held(r)' : x = y
    BY <1>4 DEF JoinsOK
<1> QED
    BY <1>2, <1>3, <1>5, <1>6 DEF JoinsOK, JoiningIsPending
LEMMA OnResponseOK ==
    ASSUME NEW O \in SUBSET Peers, EntriesOK(O), JoinsOK, NEW p \in Peers, NEW q \in Peers \ {p},
           NEW verdict \in [player : Peers, ok : BOOLEAN], NEW w,
           OnResponse(p, q, verdict, w), UNCHANGED twice
    PROVE  EntriesOK(O)' /\ JoinsOK'
<1>1. CASE UNCHANGED <<entry, pending>>
    BY <1>1, NothingWritten
<1>2. CASE ~ UNCHANGED <<entry, pending>>
    <2>1. PICK n \in Names : /\ n = ById(p) /\ Held(p) # {} /\ State(p, n) # "none"
                             /\ InfosAt(p, n).owner = q
        BY <1>2, ByIdHeld DEF OnResponse
    <2>2. InfosAt(p, n) \in OwnInfos(O)
        BY <2>1, EntryParts
    <2>3. CASE pending[p] # <<>> /\ OnVerdict(p, n, verdict.ok)
        BY <2>1, <2>3, OnVerdictOK
    <2>4. CASE /\ Becomes(p, n, State(p, n), Seat(InfosAt(p, n), verdict.player))
               /\ UNCHANGED <<pending, wrote>>
        BY <2>1, <2>2, <2>4, RosterOK, CopyWritten
    <2> QED
        BY <1>2, <2>1, <2>3, <2>4 DEF OnResponse
<1> QED
    BY <1>1, <1>2

LEMMA OnInfosOK ==
    ASSUME NEW O \in SUBSET Peers, EntriesOK(O), OneSession(O), JoinsOK, NEW p \in Peers,
           NEW q \in Peers \ {p}, NEW infos \in OwnInfos(O), NEW w,
           OnInfos(p, q, infos, w), UNCHANGED twice
    PROVE  EntriesOK(O)' /\ JoinsOK'
<1>1. CASE UNCHANGED entry
    BY <1>1, NothingWritten DEF OnInfos
<1>2. CASE ~ UNCHANGED entry
    <2>1. PICK n \in Names : State(p, n) # "none" /\ Becomes(p, n, State(p, n), infos)
        BY <1>2, ByIdHeld DEF OnInfos
    <2>2. infos.owner = InfosAt(p, n).owner
        BY <2>1, EntryParts, OwnInfosParts DEF OneSession
    <2> QED
        BY <2>1, <2>2, CopyWritten DEF OnInfos
<1> QED
    BY <1>1, <1>2

LEMMA OnDestroyOK ==
    ASSUME NEW O \in SUBSET Peers, EntriesOK(O), JoinsOK, NEW p \in Peers, NEW q \in Peers \ {p},
           NEW w, OnDestroy(p, q, w), UNCHANGED twice
    PROVE  EntriesOK(O)' /\ JoinsOK'
<1> DEFINE its == {n \in Held(p) : State(p, n) # "hosting" /\ InfosAt(p, n).owner = q}
<1>1. CASE its = {}
    BY <1>1, NothingWritten DEF OnDestroy
<1>2. CASE its # {}
    <2>1. its \in SUBSET Nat /\ its \subseteq Names
        BY SessionsAssumption DEF Held
    <2>2. Erase(p, Min(its)) /\ UNCHANGED pending
        BY <1>2 DEF OnDestroy
    <2> HIDE DEF its
    <2>3. Min(its) \in Names
        BY <1>2, <2>1, MinOf
    <2> QED
        BY <2>2, <2>3, CopyDropped
<1> QED
    BY <1>1, <1>2

LEMMA OnSeatsOK ==
    ASSUME NEW O \in SUBSET Peers, EntriesOK(O), JoinsOK, NEW p \in Peers, NEW q \in Peers \ {p},
           NEW m \in Peers, NEW w, OnRegister(p, q, m, w) \/ OnUnregister(p, q, m, w),
           UNCHANGED twice
    PROVE  EntriesOK(O)' /\ JoinsOK'
<1>1. CASE UNCHANGED entry
    BY <1>1, NothingWritten DEF OnRegister, OnUnregister
<1>2. CASE ~ UNCHANGED entry
    <2>1. PICK n \in Names :
            /\ State(p, n) # "none"
            /\ \/ Becomes(p, n, State(p, n), Seat(InfosAt(p, n), m))
               \/ Becomes(p, n, State(p, n), Unseat(InfosAt(p, n), m))
        BY <1>2, ByIdHeld DEF OnRegister, OnUnregister
    <2>2. InfosAt(p, n) \in OwnInfos(O)
        BY <2>1, EntryParts
    <2>3. PICK infos \in OwnInfos(O) : /\ infos.owner = InfosAt(p, n).owner
                                       /\ Becomes(p, n, State(p, n), infos)
        BY <2>1, <2>2, RosterOK
    <2> QED
        BY <2>1, <2>3, CopyWritten DEF OnRegister, OnUnregister
<1> QED
    BY <1>1, <1>2

(* The answer goes out to whoever is there to read it.                        *)
LEMMA OnSearchOK ==
    ASSUME NEW O \in SUBSET Peers, EntriesOK(O), NEW p \in Peers, NEW q \in Peers,
           NEW query \in [id : Nat, target : Peers \cup {None}],
           NEW w, Streams(w, Words(O)), OnSearch(p, q, query, w)
    PROVE  /\ Streams(wire', Words(O)) /\ Grows(w, wire')
           /\ <<p, q>> \in Pairs /\ <<p, q>> \in up /\ Reads(q, p)
                => \E x \in Range(wire'[<<p, q>>]) : x.type = "found" /\ x.body.id = query.id
<1> DEFINE answer == [id |-> query.id, sessions |-> Hosted(p, query.target)]
           msg == [type |-> "found", body |-> answer]
<1>1. msg \in Words(O)
    BY HostedOK, WordsOf
<1>2. msg.type = "found" /\ msg.body.id = query.id
    OBVIOUS
<1>3. wire' = SendTo(w, p, {q}, "found", answer)
    BY DEF OnSearch
<1> HIDE DEF answer
<1>4. /\ Streams(wire', Words(O)) /\ Grows(w, wire')
      /\ <<p, q>> \in Pairs /\ <<p, q>> \in up /\ Reads(q, p) => msg \in Range(wire'[<<p, q>>])
    BY <1>1, <1>3, SendToOK
<1> QED
    BY <1>2, <1>4

LEMMA OnFoundOK ==
    ASSUME NEW O \in SUBSET Peers, SearchesOK(O), NEW p \in Peers, NEW q \in Peers,
           NEW answer \in [id : Nat, sessions : SUBSET OwnInfos(O)],
           NEW w, OnFound(p, q, answer, w)
    PROVE  /\ SearchesOK(O)'
           /\ \A r \in Peers : /\ search'[r].searching = search[r].searching
                               /\ search'[r].id = search[r].id
                               /\ search'[r].awaiting \subseteq search[r].awaiting
           /\ search[p].searching /\ search[p].id = answer.id => q \notin search'[p].awaiting
<1>1. search[p] \in Searches(O) /\ p \notin search[p].awaiting /\ search \in [Peers -> Searches(O)]
    BY DEF SearchesOK
<1>2. CASE UNCHANGED search
    <2>1. ~ (search[p].searching /\ search[p].id = answer.id /\ q \in search[p].awaiting)
        <3> SUFFICES ASSUME search[p].searching, search[p].id = answer.id, q \in search[p].awaiting
                     PROVE  q \notin search'[p].awaiting
            BY <1>2
        <3> QED
            BY <1>1 DEF OnFound, Searches
    <2> QED
        BY <1>2, <2>1 DEF SearchesOK
<1>3. CASE ~ UNCHANGED search
    <2> DEFINE fits == {infos \in answer.sessions : Matches(infos, search[p].target)}
               s == [search[p] EXCEPT !.awaiting = @ \ {q}, !.results = @ \cup fits]
    <2>1. fits \in SUBSET OwnInfos(O)
        OBVIOUS
    <2>2. search' = [search EXCEPT ![p].awaiting = @ \ {q}, ![p].results = @ \cup fits]
        BY <1>3 DEF OnFound
    <2> HIDE DEF fits
    <2>3. search' = [search EXCEPT ![p] = s]
        BY <1>1, <2>2
    <2>4. ASSUME NEW x \in Searches(O)
          PROVE  LET y == [x EXCEPT !.awaiting = @ \ {q}, !.results = @ \cup fits]
                 IN  /\ y \in Searches(O)
                     /\ y.searching = x.searching /\ y.id = x.id /\ y.awaiting = x.awaiting \ {q}
        BY <2>1 DEF Searches
    <2>5. /\ s \in Searches(O)
          /\ s.searching = search[p].searching /\ s.id = search[p].id
          /\ s.awaiting = search[p].awaiting \ {q}
        BY <1>1, <2>4
    <2> HIDE DEF s
    <2>6. /\ SearchesOK(O)' /\ search'[p] = s
          /\ \A r \in Peers \ {p} : search'[r] = search[r]
        BY <1>1, <2>3, <2>5 DEF SearchesOK
    <2> QED
        BY <2>5, <2>6
<1> QED
    BY <1>2, <1>3
(* Whatever is heard, whoever is told of it: searches only come to an end, a    *)
(* question is answered, and an answer is waited for no longer.              *)
LEMMA OnNetworkMessageOK ==
    ASSUME NEW O \in SUBSET Peers, EntriesOK(O), SearchesOK(O), OneSession(O), JoinsOK,
           NEW p \in Peers, NEW q \in Peers \ {p}, NEW m \in Words(O),
           NEW w, Streams(w, Words(O)), OnNetworkMessage(p, q, m, w)
    PROVE  /\ EntriesOK(O)' /\ SearchesOK(O)' /\ JoinsOK'
           /\ Streams(wire', Words(O)) /\ Grows(w, wire')
           /\ UNCHANGED <<found, spent>>
           /\ \A r \in Peers : /\ search'[r].searching = search[r].searching
                               /\ search'[r].id = search[r].id
                               /\ search'[r].awaiting \subseteq search[r].awaiting
           /\ m.type = "search" /\ <<p, q>> \in Pairs /\ <<p, q>> \in up /\ Reads(q, p)
                => \E x \in Range(wire'[<<p, q>>]) : x.type = "found" /\ x.body.id = m.body.id
           /\ m.type = "found" /\ search[p].searching /\ search[p].id = m.body.id
                => q \notin search'[p].awaiting
<1> DEFINE Heard ==
             /\ EntriesOK(O)' /\ SearchesOK(O)' /\ JoinsOK'
             /\ Streams(wire', Words(O)) /\ Grows(w, wire')
             /\ UNCHANGED <<found, spent>>
             /\ \A r \in Peers : /\ search'[r].searching = search[r].searching
                                 /\ search'[r].id = search[r].id
                                 /\ search'[r].awaiting \subseteq search[r].awaiting
<1>1. UNCHANGED <<found, twice, spent>>
    BY DEF OnNetworkMessage
<1>2. Grows(w, w)
    BY DEF Grows
<1>3. ASSUME UNCHANGED search
      PROVE  /\ SearchesOK(O)'
             /\ \A r \in Peers : /\ search'[r].searching = search[r].searching
                                 /\ search'[r].id = search[r].id
                                 /\ search'[r].awaiting \subseteq search[r].awaiting
    BY <1>3 DEF SearchesOK
<1>4. ASSUME UNCHANGED search, wire' = w, EntriesOK(O)', JoinsOK'
      PROVE  Heard
    BY <1>1, <1>2, <1>3, <1>4
<1>5. CASE m.type = "search"
    <2>1. OnSearch(p, q, m.body, w) /\ m.body \in [id : Nat, target : Peers \cup {None}]
        BY <1>5 DEF OnNetworkMessage, Words
    <2>2. /\ Streams(wire', Words(O)) /\ Grows(w, wire')
          /\ <<p, q>> \in Pairs /\ <<p, q>> \in up /\ Reads(q, p)
               => \E x \in Range(wire'[<<p, q>>]) : x.type = "found" /\ x.body.id = m.body.id
        BY <2>1, OnSearchOK
    <2>3. UNCHANGED <<entry, search, pending>>
        BY <2>1 DEF OnSearch
    <2>4. EntriesOK(O)' /\ JoinsOK'
        BY <1>1, <2>3, NothingWritten
    <2> QED
        BY <1>1, <1>3, <1>5, <2>2, <2>3, <2>4
<1>6. CASE m.type = "found"
    <2>1. OnFound(p, q, m.body, w) /\ m.body \in [id : Nat, sessions : SUBSET OwnInfos(O)]
        BY <1>6 DEF OnNetworkMessage, Words
    <2>2. wire' = w /\ UNCHANGED <<entry, pending>>
        BY <2>1 DEF OnFound
    <2>3. EntriesOK(O)' /\ JoinsOK'
        BY <1>1, <2>2, NothingWritten
    <2> QED
        BY <1>1, <1>2, <1>6, <2>1, <2>2, <2>3, OnFoundOK
<1>7. CASE m.type = "request"
    <2>1. OnRequest(p, q, w)
        BY <1>7 DEF OnNetworkMessage
    <2> QED
        BY <1>1, <1>3, <1>7, <2>1, OnRequestOK DEF OnRequest
<1>8. CASE m.type = "response"
    <2>1. OnResponse(p, q, m.body, w) /\ m.body \in [player : Peers, ok : BOOLEAN]
        BY <1>8 DEF OnNetworkMessage, Words
    <2> QED
        BY <1>1, <1>4, <1>8, <2>1, OnResponseOK DEF OnResponse
<1>9. CASE m.type = "infos"
    <2>1. OnInfos(p, q, m.body, w) /\ m.body \in OwnInfos(O)
        BY <1>9 DEF OnNetworkMessage, Words
    <2> QED
        BY <1>1, <1>4, <1>9, <2>1, OnInfosOK DEF OnInfos
<1>10. CASE m.type = "destroy"
    <2>1. OnDestroy(p, q, w)
        BY <1>10 DEF OnNetworkMessage
    <2> QED
        BY <1>1, <1>4, <1>10, <2>1, OnDestroyOK DEF OnDestroy
<1>11. CASE m.type \in {"register", "unregister"}
    <2>1. (OnRegister(p, q, m.body, w) \/ OnUnregister(p, q, m.body, w)) /\ m.body \in Peers
        BY <1>11 DEF OnNetworkMessage, Words
    <2> QED
        BY <1>1, <1>4, <1>11, <2>1, OnSeatsOK DEF OnRegister, OnUnregister
<1> QED
    BY <1>5, <1>6, <1>7, <1>8, <1>9, <1>10, <1>11 DEF OnNetworkMessage

-----------------------------------------------------------------------------
(* The mesh.                                                               *)

LEMMA OnPeerDisconnectedOK ==
    ASSUME NEW O \in SUBSET Peers, Typed(O), JoinsOK, AskedWillAnswer, NEW p \in Peers,
           NEW q \in Peers \ {p}, NEW n \in Nat, OnPeerDisconnected(p, q, n),
           SpentOK', spent'["creates"] = spent["creates"]
    PROVE  Typed(O)' /\ JoinsOK' /\ AskedWillAnswer'
<1>1. DropPeer(p, q, n, wire) /\ UNCHANGED <<found, search, pending, twice>>
    BY DEF OnPeerDisconnected, history
<1>2. LinkTyped(Words(O))'
    BY <1>1, DropOK DEF Typed, LinkTyped
<1>3. ASSUME NEW x \in Names
      PROVE  /\ EntryOK(O, p, [state |-> State(p, x), infos |-> Unseat(InfosAt(p, x), q)])
             /\ entry'[p][x] = [state |-> State(p, x), infos |-> Unseat(InfosAt(p, x), q)]
    <2>1. CASE State(p, x) = "none"
        <3>1. InfosAt(p, x) = NoInfos /\ Unseat(NoInfos, q) = NoInfos
            BY <2>1, EntryParts DEF Typed, Unseat, NoInfos
        <3> QED
            BY <2>1, <3>1 DEF OnPeerDisconnected, Typed, EntriesOK, EntryOK, States
    <2>2. CASE State(p, x) # "none"
        <3> DEFINE infos == Unseat(InfosAt(p, x), q)
        <3>1. infos \in OwnInfos(O) /\ infos.owner = InfosAt(p, x).owner
            BY <2>2, EntryParts, RosterOK DEF Typed
        <3>2. entry'[p][x] = [state |-> State(p, x), infos |-> infos]
            BY DEF OnPeerDisconnected, Typed, EntriesOK
        <3> HIDE DEF infos
        <3>3. EntryOK(O, p, [state |-> State(p, x), infos |-> infos])
            BY <2>2, <3>1, EntryParts, EntryOf DEF Typed
        <3> QED
            BY <3>2, <3>3 DEF infos
    <2> QED
        BY <2>1, <2>2
<1>4. /\ DOMAIN entry' = Peers /\ DOMAIN entry'[p] = Names
      /\ \A r \in Peers \ {p} : entry'[r] = entry[r]
    BY DEF OnPeerDisconnected, Typed, EntriesOK
<1>5. EntriesOK(O)'
    <2>1. ASSUME NEW x \in Names
          PROVE  EntryOK(O, p, entry'[p][x])
        BY <1>3
    <2>2. ASSUME NEW r \in Peers \ {p}
          PROVE  DOMAIN entry'[r] = Names /\ \A x \in Names : EntryOK(O, r, entry'[r][x])
        BY <1>4 DEF Typed, EntriesOK
    <2> QED
        BY <1>4, <2>1, <2>2 DEF EntriesOK
<1>6. ASSUME NEW r \in Peers, NEW x \in Names
      PROVE  State(r, x)' \in {"none", State(r, x)}
    <2>1. CASE r = p
        <3>1. entry'[p][x] = [state |-> State(p, x), infos |-> Unseat(InfosAt(p, x), q)]
            BY <1>3
        <3> QED
            BY <2>1, <3>1 DEF State
    <2>2. CASE r # p
        BY <1>4, <2>2 DEF State
    <2> QED
        BY <2>1, <2>2
<1>7. JoinsOK'
    BY <1>1, <1>6, JoinsKept
<1>8. Typed(O)'
    BY <1>1, <1>2, <1>5, OneSessionKept DEF Typed, SearchesOK, FoundOK
<1>9. /\ up' = up \ {<<p, q>>}
      /\ \A pq \in Pairs : {pq[1], pq[2]} # {p, q} => wire'[pq] = wire[pq]
    <2>1. Streams(wire, Words(O)) /\ q \in Peers
        BY DEF Typed, LinkTyped
    <2> QED
        BY <1>1, <2>1, DropElsewhere
<1>10. \A r, s \in Peers : r # s /\ {<<r, s>>, <<s, r>>} \subseteq up'
         => Range(wire[<<r, s>>]) \subseteq Range(wire'[<<r, s>>])
    <2> SUFFICES ASSUME NEW r \in Peers, NEW s \in Peers, r # s, {<<r, s>>, <<s, r>>} \subseteq up'
                 PROVE  wire'[<<r, s>>] = wire[<<r, s>>]
        OBVIOUS
    <2>1. <<p, q>> \notin {<<r, s>>, <<s, r>>} /\ <<r, s>> \in Pairs
        BY <1>9 DEF Pairs
    <2>2. {r, s} # {p, q}
        BY <2>1
    <2> QED
        BY <1>9, <2>1, <2>2
<1>11. AskedWillAnswer'
    BY <1>1, <1>9, <1>10, AskedKept DEF Typed
<1> QED
    BY <1>7, <1>8, <1>11
(* The message is gone from its stream: a question is answered as it is read,   *)
(* and who sent the answer is asked no more.                                *)
LEMMA DeliverOK ==
    ASSUME NEW O \in SUBSET Peers, Typed(O), JoinsOK, AskedWillAnswer, NEW p \in Peers,
           NEW q \in Peers \ {p}, Deliver(p, q)
    PROVE  Typed(O)' /\ JoinsOK' /\ AskedWillAnswer'
<1> DEFINE m == Head(wire[<<q, p>>])
           w == [wire EXCEPT ![<<q, p>>] = Tail(@)]
<1>1. LinkTyped(Words(O)) /\ wire[<<q, p>>] # <<>> /\ m # Eof
    BY DEF Typed, Deliver
<1>2. /\ m \in Words(O) /\ Streams(w, Words(O))
      /\ \A pq \in Pairs \ {<<q, p>>} : w[pq] = wire[pq]
      /\ Range(wire[<<q, p>>]) = {m} \cup Range(w[<<q, p>>])
    BY <1>1, ReadOK
<1>3. OnNetworkMessage(p, q, m, w) /\ UNCHANGED <<up, accepting, late>>
    BY DEF Deliver
<1> HIDE DEF m, w
<1>4. /\ EntriesOK(O)' /\ SearchesOK(O)' /\ JoinsOK'
      /\ Streams(wire', Words(O)) /\ Grows(w, wire')
      /\ UNCHANGED <<found, spent>>
      /\ \A r \in Peers : /\ search'[r].searching = search[r].searching
                          /\ search'[r].id = search[r].id
                          /\ search'[r].awaiting \subseteq search[r].awaiting
      /\ m.type = "search" /\ <<p, q>> \in Pairs /\ <<p, q>> \in up /\ Reads(q, p)
           => \E x \in Range(wire'[<<p, q>>]) : x.type = "found" /\ x.body.id = m.body.id
      /\ m.type = "found" /\ search[p].searching /\ search[p].id = m.body.id
           => q \notin search'[p].awaiting
    BY <1>2, <1>3, OnNetworkMessageOK DEF Typed
<1>5. Typed(O)'
    BY <1>1, <1>3, <1>4, LinkSent, OneSessionKept DEF Typed, FoundOK, SpentOK
<1>6. ASSUME NEW pq \in Pairs
      PROVE  /\ pq # <<q, p>> => Range(wire[pq]) \subseteq Range(wire'[pq])
             /\ pq = <<q, p>> => Range(wire[pq]) \subseteq {m} \cup Range(wire'[pq])
    BY <1>2, <1>4 DEF Grows
<1>7. AskedWillAnswer'
    <2> SUFFICES ASSUME NEW r \in Peers, search'[r].searching,
                        NEW s \in search'[r].awaiting, Connected(r, s)'
                 PROVE  \/ \E x \in Range(wire'[<<r, s>>]) : x.type = "search" /\ x.body.id = search'[r].id
                        \/ \E x \in Range(wire'[<<s, r>>]) : x.type = "found" /\ x.body.id = search'[r].id
        BY DEF AskedWillAnswer
    <2>1. /\ search[r].searching /\ search'[r].id = search[r].id
          /\ s \in search[r].awaiting /\ s \in Peers
        BY <1>4, SearchParts DEF Typed
    <2>2. Connected(r, s) /\ <<r, s>> \in Pairs /\ <<s, r>> \in Pairs
        BY <1>1, <1>3 DEF Connected, LinkTyped
    <2>3. ASSUME NEW x \in Range(wire[<<r, s>>]), x.type = "search", x.body.id = search[r].id
          PROVE  \/ x \in Range(wire'[<<r, s>>])
                 \/ \E y \in Range(wire'[<<s, r>>]) : y.type = "found" /\ y.body.id = search[r].id
        <3>1. CASE <<r, s>> = <<q, p>> /\ x = m
            BY <1>4, <2>2, <2>3, <3>1 DEF Connected, Reads
        <3>2. CASE ~ (<<r, s>> = <<q, p>> /\ x = m)
            BY <1>6, <2>2, <3>2
        <3> QED
            BY <3>1, <3>2
    <2>4. ASSUME NEW x \in Range(wire[<<s, r>>]), x.type = "found", x.body.id = search[r].id
          PROVE  x \in Range(wire'[<<s, r>>])
        <3>1. ~ (<<s, r>> = <<q, p>> /\ x = m)
            BY <1>4, <2>1, <2>4
        <3> QED
            BY <1>6, <2>2, <3>1
    <2>5. \/ \E x \in Range(wire[<<r, s>>]) : x.type = "search" /\ x.body.id = search[r].id
          \/ \E x \in Range(wire[<<s, r>>]) : x.type = "found" /\ x.body.id = search[r].id
        BY <2>1, <2>2 DEF AskedWillAnswer
    <2> QED
        BY <2>1, <2>3, <2>4, <2>5
<1> QED
    BY <1>4, <1>5, <1>7

LEMMA DeliverLateOK ==
    ASSUME NEW O \in SUBSET Peers, Typed(O), JoinsOK, AskedWillAnswer, NEW p \in Peers,
           DeliverLate(p)
    PROVE  Typed(O)' /\ JoinsOK' /\ AskedWillAnswer'
<1> DEFINE q == Head(late[p]).from
           m == Head(late[p]).msg
<1>1. LinkTyped(Words(O)) /\ late[p] # <<>> /\ Streams(wire, Words(O))
    BY DEF Typed, LinkTyped, DeliverLate
<1>2. q \in Peers \ {p} /\ m \in Words(O)
    BY <1>1, ReadLateOK
<1>3. /\ OnNetworkMessage(p, q, m, wire) /\ UNCHANGED <<up, accepting>>
      /\ late' = [late EXCEPT ![p] = Tail(@)]
    BY DEF DeliverLate
<1> HIDE DEF q, m
<1>4. /\ EntriesOK(O)' /\ SearchesOK(O)' /\ JoinsOK'
      /\ Streams(wire', Words(O)) /\ Grows(wire, wire')
      /\ UNCHANGED <<found, spent>>
      /\ \A r \in Peers : /\ search'[r].searching = search[r].searching
                          /\ search'[r].id = search[r].id
                          /\ search'[r].awaiting \subseteq search[r].awaiting
    BY <1>1, <1>2, <1>3, OnNetworkMessageOK DEF Typed
<1>5. LinkTyped(Words(O))'
    BY <1>1, <1>3, <1>4, LateTaken
<1>6. Typed(O)'
    BY <1>4, <1>5, OneSessionKept DEF Typed, FoundOK, SpentOK
<1>7. \A r, s \in Peers : r # s => Range(wire[<<r, s>>]) \subseteq Range(wire'[<<r, s>>])
    BY <1>4 DEF Grows, Pairs
<1>8. AskedWillAnswer'
    BY <1>3, <1>4, <1>7, AskedKept DEF Typed
<1> QED
    BY <1>4, <1>6, <1>8

LEMMA LoseOrBreakOK ==
    ASSUME NEW O \in SUBSET Peers, Typed(O), JoinsOK, AskedWillAnswer, NEW p \in Peers,
           NEW q \in Peers \ {p}, NEW n \in 0 .. Len(wire[<<q, p>>]),
           Lose(p, q, n) \/ Break(p, q, n)
    PROVE  Typed(O)' /\ JoinsOK' /\ AskedWillAnswer'
<1>1. SpentOK' /\ spent'["creates"] = spent["creates"]
    BY SpendOK DEF Typed, SpentOK, Lose, Break, Kinds
<1>2. OnPeerDisconnected(p, q, n) /\ n \in Nat
    BY DEF Lose, Break
<1> QED
    BY <1>1, <1>2, OnPeerDisconnectedOK

LEMMA CrashOK ==
    ASSUME NEW O \in SUBSET Peers, Typed(O), JoinsOK, AskedWillAnswer, NEW p \in Peers, Crash(p)
    PROVE  Typed(O)' /\ JoinsOK' /\ AskedWillAnswer'
<1>1. SpentOK' /\ spent'["creates"] = spent["creates"]
    BY SpendOK DEF Typed, Crash, Kinds
<1>2. LinkTyped(Words(O))'
    BY VanishOK DEF Typed, Crash
<1>3. EntriesOK(O)'
    BY AbsentOK DEF Crash, Typed, EntriesOK
<1>4. FoundOK(O)'
    BY DEF Crash, Typed, FoundOK
<1>5. /\ NoSearch \in Searches(O) /\ ~ NoSearch.searching /\ p \notin NoSearch.awaiting
      /\ SearchChanges(p, NoSearch)
    BY DEF Crash, NoSearch, Searches, SearchChanges
<1>6. /\ SearchesOK(O)' /\ search'[p] = NoSearch
      /\ \A r \in Peers \ {p} : search'[r] = search[r]
    BY <1>5, SearchBecomes DEF Typed
<1>7. Typed(O)'
    BY <1>1, <1>2, <1>3, <1>4, <1>6, OneSessionKept DEF Typed
<1>8. /\ pending' \in [Peers -> Seq({"waiting", "answered"})]
      /\ \A r \in Peers \ {p} : pending'[r] = pending[r]
    BY DEF Crash, JoinsOK
<1>9. /\ \A x \in Names : State(p, x)' = "none"
      /\ \A r \in Peers \ {p}, x \in Names : State(r, x)' = State(r, x)
      /\ UNCHANGED twice
    BY AbsentOK DEF Crash, Typed, EntriesOK, State
<1>10. JoinsOK'
    <2>1. ASSUME NEW r \in Peers \ twice
          PROVE  /\ \A x, y \in Held(r)' : x = y
                 /\ \A x \in Names : State(r, x)' = "joining" => "waiting" \in Range(pending'[r])
        <3>1. CASE r = p
            BY <1>9, <3>1 DEF Held, State
        <3>2. CASE r # p
            <4>1. Held(r)' = Held(r) /\ pending'[r] = pending[r]
                BY <1>8, <1>9, <3>2 DEF Held, State
            <4>2. /\ \A x, y \in Held(r) : x = y
                  /\ \A x \in Names : State(r, x) = "joining" => "waiting" \in Range(pending[r])
                BY DEF JoinsOK, JoiningIsPending
            <4> QED
                BY <1>9, <3>2, <4>1, <4>2
        <3> QED
            BY <3>1, <3>2
    <2> QED
        BY <1>8, <1>9, <2>1 DEF JoinsOK, JoiningIsPending
<1>11. /\ up' = {pq \in up : pq[1] # p}
       /\ \A pq \in Pairs : p \notin {pq[1], pq[2]} => wire'[pq] = wire[pq]
    BY VanishElsewhere DEF Crash
<1>12. AskedWillAnswer'
    <2>1. \A r \in Peers : search'[r].searching => search'[r] = search[r]
        BY <1>5, <1>6
    <2>2. \A r, s \in Peers : r # s /\ {<<r, s>>, <<s, r>>} \subseteq up'
            => Range(wire[<<r, s>>]) \subseteq Range(wire'[<<r, s>>])
        BY <1>11 DEF Pairs
    <2> QED
        BY <1>11, <2>1, <2>2, AskedKept DEF Typed
<1> QED
    BY <1>7, <1>10, <1>12
-----------------------------------------------------------------------------
(* The invariant.                                                          *)

LEMMA InitOK == Init => IInv
<1> SUFFICES ASSUME Init PROVE IInv
    OBVIOUS
<1>1. PICK formed \in Formed \cup {<<Min(Names), NoInfos>>} :
        /\ entry = [p \in Peers |-> [n \in Names |->
                      IF n # formed[1] \/ p \notin formed[2].roster THEN Absent
                      ELSE [state |-> IF p = formed[2].owner THEN "hosting" ELSE "joined",
                            infos |-> formed[2]]]]
        /\ found = [p \in Peers |-> formed[2]]
        /\ spent = [kind \in Kinds |->
                      IF kind = "creates" /\ formed[2] # NoInfos THEN 1 ELSE 0]
    BY DEF Init
<1> DEFINE infos == formed[2]
           O == {o \in Peers : infos # NoInfos /\ o = infos.owner}
<1>2. infos = NoInfos \/ (infos \in Infos /\ infos \in OwnInfos(O))
    <2>1. infos = NoInfos \/ infos \in Infos
        BY SessionsAssumption
    <2>2. infos \in Infos => infos # NoInfos /\ infos.owner \in Peers
        BY NoInfosIsNone DEF Infos
    <2> QED
        BY <2>1, <2>2 DEF OwnInfos
<1>3. OneSession(O)
    BY <1>1 DEF OneSession, Kinds
<1>4. SpentOK
    BY <1>1 DEF SpentOK
<1>5. FoundOK(O)
    BY <1>1, <1>2 DEF FoundOK
<1>6. O \in SUBSET Peers
    OBVIOUS
<1> HIDE DEF O
<1>7. \A p \in Peers : Held(p) \subseteq {formed[1]}
    BY <1>1 DEF Held, State, Absent
<1>8. EntriesOK(O) /\ \A p \in Peers, n \in Names : State(p, n) # "joining"
    <2>1. ASSUME NEW p \in Peers, NEW n \in Names
          PROVE  EntryOK(O, p, entry[p][n]) /\ State(p, n) # "joining"
        <3>1. CASE n # formed[1] \/ p \notin infos.roster
            BY <1>1, <3>1, AbsentOK DEF State
        <3>2. CASE ~ (n # formed[1] \/ p \notin infos.roster)
            <4>1. infos \in OwnInfos(O)
                BY <1>2, <3>2, NoInfosIsNone
            <4> DEFINE state == IF p = infos.owner THEN "hosting" ELSE "joined"
            <4>2. entry[p][n] = [state |-> state, infos |-> infos]
                BY <1>1, <3>2
            <4>3. EntryOK(O, p, [state |-> state, infos |-> infos])
                BY <1>6, <4>1, EntryOf DEF States
            <4> QED
                BY <4>2, <4>3 DEF State
        <3> QED
            BY <3>1, <3>2
    <2> QED
        BY <1>1, <2>1 DEF EntriesOK
<1>9. LinkTyped(Words(O))
    BY DEF Init, LinkInitMet, LinkTyped, Streams
<1>10. SearchesOK(O) /\ \A p \in Peers : ~ search[p].searching
    BY DEF Init, SearchesOK, Searches, NoSearch
<1>11. JoinsOK
    BY <1>7, <1>8 DEF Init, JoinsOK, JoiningIsPending
<1>12. AskedWillAnswer
    BY <1>10 DEF AskedWillAnswer
<1> QED
    BY <1>3, <1>4, <1>5, <1>6, <1>8, <1>9, <1>10, <1>11, <1>12 DEF IInv, Typed

LEMMA GameKeeps ==
    ASSUME NEW O \in SUBSET Peers, Typed(O), JoinsOK, AskedWillAnswer, NEW p \in Peers, Game(p),
           ~\E n \in Names, settings \in Settings : CreateSession(p, n, settings)
    PROVE  Typed(O)' /\ JoinsOK' /\ AskedWillAnswer'
    BY WritesOK, ChangeSeatsOK, JoinSessionOK, DestroySessionOK, SearchFindOK,
       SearchCopyResultOK, SearchReleaseOK DEF Game

LEMMA GameOK ==
    ASSUME NEW O \in SUBSET Peers, Typed(O), JoinsOK, AskedWillAnswer, NEW p \in Peers, Game(p)
    PROVE  (\E X \in SUBSET Peers : Typed(X)') /\ JoinsOK' /\ AskedWillAnswer'
<1>1. ASSUME NEW n \in Names, NEW settings \in Settings, CreateSession(p, n, settings)
      PROVE  (\E X \in SUBSET Peers : Typed(X)') /\ JoinsOK' /\ AskedWillAnswer'
    <2>1. Typed({p})' /\ JoinsOK' /\ AskedWillAnswer'
        BY <1>1, CreateSessionOK
    <2> QED
        BY <2>1
<1>2. CASE ~ \E n \in Names, settings \in Settings : CreateSession(p, n, settings)
    <2>1. Typed(O)' /\ JoinsOK' /\ AskedWillAnswer'
        BY <1>2, GameKeeps
    <2> QED
        BY <2>1
<1> QED
    BY <1>1, <1>2

LEMMA TickOK ==
    ASSUME NEW O \in SUBSET Peers, Typed(O), JoinsOK, AskedWillAnswer, NEW p \in Peers, Tick(p)
    PROVE  Typed(O)' /\ JoinsOK' /\ AskedWillAnswer'
    BY SearchOverOK, JoinAnsweredOK, JoinTimedOutOK DEF Tick

LEMMA MeshOK ==
    ASSUME NEW O \in SUBSET Peers, Typed(O), JoinsOK, AskedWillAnswer, NEW p \in Peers, Mesh(p)
    PROVE  Typed(O)' /\ JoinsOK' /\ AskedWillAnswer'
    BY DeliverOK, DeliverLateOK, LoseOrBreakOK, CrashOK DEF Mesh

LEMMA TypedSame ==
    ASSUME NEW O \in SUBSET Peers, Typed(O), UNCHANGED vars
    PROVE  Typed(O)'
    BY TypedSearched DEF Typed, SearchesOK, SpentOK, LinkTyped, vars, linkVars

LEMMA Inductive == IInv /\ [Next]_vars => IInv'
<1> SUFFICES ASSUME IInv, [Next]_vars PROVE IInv'
    OBVIOUS
<1>1. PICK O \in SUBSET Peers : Typed(O)
    BY DEF IInv
<1>2. JoinsOK /\ AskedWillAnswer
    BY DEF IInv
<1>3. (\E X \in SUBSET Peers : Typed(X)') /\ JoinsOK' /\ AskedWillAnswer'
    <2>1. CASE UNCHANGED vars
        <3>1. Typed(O)'
            BY <1>1, <2>1, TypedSame
        <3>2. JoinsOK' /\ AskedWillAnswer'
            BY <1>2, <2>1, JoinsSame, AskedSame DEF vars, linkVars, history
        <3> QED
            BY <3>1, <3>2
    <2>2. ASSUME NEW p \in Peers, Game(p)
          PROVE  (\E X \in SUBSET Peers : Typed(X)') /\ JoinsOK' /\ AskedWillAnswer'
        BY <1>1, <1>2, <2>2, GameOK
    <2>3. ASSUME NEW p \in Peers, Tick(p) \/ Mesh(p)
          PROVE  (\E X \in SUBSET Peers : Typed(X)') /\ JoinsOK' /\ AskedWillAnswer'
        <3>1. Typed(O)' /\ JoinsOK' /\ AskedWillAnswer'
            BY <1>1, <1>2, <2>3, TickOK, MeshOK
        <3> QED
            BY <3>1
    <2> QED
        BY <2>1, <2>2, <2>3 DEF Next
<1> QED
    BY <1>3 DEF IInv

LEMMA Invariance == Spec => []IInv
    BY InitOK, Inductive, PTL DEF Spec

-----------------------------------------------------------------------------
(* The types hold: a member's session is somebody else's, and a search waits    *)
(* for others only (the handlers and the calls of sessions.cpp).             *)
THEOREM TypeCorrect == Spec => []TypeOK
<1>1. IInv => TypeOK
    <2> SUFFICES ASSUME IInv PROVE TypeOK
        OBVIOUS
    <2>1. PICK O \in SUBSET Peers : Typed(O)
        BY DEF IInv
    <2>2. up \cup accepting \subseteq Pairs
        BY <2>1 DEF Typed, LinkTyped
    <2>3. OwnInfos(O) \subseteq Infos
        BY DEF OwnInfos
    <2>4. ASSUME NEW p \in Peers, NEW n \in Names
          PROVE  /\ State(p, n) \in States
                 /\ InfosAt(p, n) \in IF State(p, n) = "none" THEN {NoInfos} ELSE Infos
                 /\ State(p, n) = "hosting" => InfosAt(p, n).owner = p
                 /\ State(p, n) = "joined" => InfosAt(p, n).owner # p
        BY <2>1, <2>3, EntryParts DEF Typed
    <2>5. ASSUME NEW p \in Peers
          PROVE  /\ found[p] \in AnyInfos
                 /\ search[p].awaiting \subseteq Peers \ {p} /\ search[p].results \subseteq Infos
                 /\ pending[p] \in Seq({"waiting", "answered"})
        <3>1. found[p] \in AnyInfos
            BY <2>1, <2>3 DEF Typed, FoundOK, AnyInfos
        <3>2. search[p].awaiting \subseteq Peers \ {p} /\ search[p].results \subseteq Infos
            BY <2>1, <2>3, SearchParts DEF Typed
        <3>3. pending[p] \in Seq({"waiting", "answered"})
            BY DEF IInv, JoinsOK
        <3> QED
            BY <3>1, <3>2, <3>3
    <2> QED
        BY <2>2, <2>4, <2>5 DEF TypeOK
<1> QED
    BY <1>1, Invariance, PTL

(* A join that is under way is waited for, so that its deadline ends it if      *)
(* nothing else does (join_session, session_join_response, run_callbacks).    *)
THEOREM JoinsEnd == Spec => []JoiningIsPending
<1>1. IInv => JoiningIsPending
    BY DEF IInv, JoinsOK
<1> QED
    BY <1>1, Invariance, PTL

(* Whoever a search still waits for, and is still there, has the question or    *)
(* the answer before it, whatever breaks, is lost or is dispatched late       *)
(* (search_find, session_search, session_search_response).                   *)
THEOREM SearchesAnswered == Spec => []AskedWillAnswer
<1>1. IInv => AskedWillAnswer
    BY DEF IInv
<1> QED
    BY <1>1, Invariance, PTL

-----------------------------------------------------------------------------
(* The host's word.                                                        *)

SameWord(a, b) == a.owner = b.owner /\ a.settings = b.settings /\ a.phase = b.phase

Lacks(s, type) == \A i \in DOMAIN s : s[i].type # type

(* The last word of the session in the stream, if any, is infos.              *)
LastSays(s, infos) ==
    \A i \in DOMAIN s :
        s[i].type = "infos" /\ (\A j \in DOMAIN s : j > i => s[j].type # "infos")
            => SameWord(s[i].body, infos)

(* Whom the host h has on its roster it has told, or has yet to hear ask.     *)
WordOf(h, x, p) ==
    /\ LastSays(wire[<<h, p>>], InfosAt(h, x))
    /\ \A n \in Names :
         /\ p \notin twice /\ State(p, n) # "none" /\ <<p, n>> \notin wrote
         /\ Lacks(wire[<<p, h>>], "request") /\ Lacks(wire[<<h, p>>], "infos")
         => SameWord(InfosAt(p, n), InfosAt(h, x))

Listens(h, x, p) ==
    /\ h \notin twice /\ State(h, x) = "hosting" /\ h # p /\ Connected(p, h)
    /\ p \in InfosAt(h, x).roster \ byHand

WordsAgree ==
    \A h, p \in Peers, x \in Names : Listens(h, x, p) => WordOf(h, x, p)

(* What is dispatched late is from somebody p is not connected to.            *)
LateApart == \A p \in Peers : \A i \in DOMAIN late[p] : <<p, late[p][i].from>> \notin up

-----------------------------------------------------------------------------
(* Streams of words.                                                       *)

LEMMA WordSent ==
    ASSUME NEW W, NEW s \in Seq(W), NEW m \in W
    PROVE  /\ \A t : Lacks(s \o <<m>>, t) => Lacks(s, t) /\ m.type # t
           /\ \A infos : /\ m.type # "infos" /\ LastSays(s, infos) => LastSays(s \o <<m>>, infos)
                         /\ m.type = "infos" /\ SameWord(m.body, infos)
                              => LastSays(s \o <<m>>, infos)
<1> DEFINE l == s \o <<m>>
<1>1. /\ Len(s) \in Nat /\ DOMAIN s = 1 .. Len(s) /\ DOMAIN l = 1 .. Len(s) + 1
      /\ \A i \in 1 .. Len(s) : l[i] = s[i]
      /\ l[Len(s) + 1] = m
    <2>1. <<m>> \in Seq(W) /\ Len(<<m>>) = 1 /\ <<m>>[1] = m
        OBVIOUS
    <2>2. l \in Seq(W) /\ Len(l) = Len(s) + 1
        BY <2>1, ConcatProperties
    <2> QED
        BY <2>1, <2>2, ConcatProperties, LenProperties
<1> HIDE DEF l
<1>2. ASSUME NEW t, Lacks(l, t)
      PROVE  Lacks(s, t) /\ m.type # t
    BY <1>1, <1>2 DEF Lacks
<1>3. ASSUME NEW infos, m.type # "infos", LastSays(s, infos)
      PROVE  LastSays(l, infos)
    <2> SUFFICES ASSUME NEW i \in DOMAIN l, l[i].type = "infos",
                        \A j \in DOMAIN l : j > i => l[j].type # "infos"
                 PROVE  SameWord(l[i].body, infos)
        BY DEF LastSays
    <2>1. i \in 1 .. Len(s)
        BY <1>1, <1>3
    <2>2. \A j \in DOMAIN s : j > i => s[j].type # "infos"
        BY <1>1
    <2> QED
        BY <1>1, <1>3, <2>1, <2>2 DEF LastSays
<1>4. ASSUME NEW infos, m.type = "infos", SameWord(m.body, infos)
      PROVE  LastSays(l, infos)
    <2> SUFFICES ASSUME NEW i \in DOMAIN l, l[i].type = "infos",
                        \A j \in DOMAIN l : j > i => l[j].type # "infos"
                 PROVE  SameWord(l[i].body, infos)
        BY DEF LastSays
    <2>1. i = Len(s) + 1
        BY <1>1, <1>4
    <2> QED
        BY <1>1, <1>4, <2>1
<1> QED
    BY <1>2, <1>3, <1>4 DEF l

LEMMA WordRead ==
    ASSUME NEW W, NEW s \in Seq(W), s # <<>>
    PROVE  /\ \A t : Lacks(Tail(s), t) /\ Head(s).type # t => Lacks(s, t)
           /\ \A infos : LastSays(s, infos) => LastSays(Tail(s), infos)
           /\ \A infos : /\ LastSays(s, infos) /\ Head(s).type = "infos"
                         /\ Lacks(Tail(s), "infos")
                         => SameWord(Head(s).body, infos)
<1> DEFINE l == Tail(s)  m == Head(s)
<1>1. /\ Len(s) \in Nat \ {0} /\ DOMAIN s = 1 .. Len(s) /\ DOMAIN l = 1 .. Len(s) - 1
      /\ \A i \in 1 .. Len(s) - 1 : l[i] = s[i + 1]
      /\ s[1] = m
    BY HeadTailProperties, LenProperties
<1> HIDE DEF l, m
<1>2. ASSUME NEW i \in DOMAIN s, i # 1
      PROVE  i - 1 \in DOMAIN l /\ l[i - 1] = s[i]
    <2>1. i - 1 \in 1 .. Len(s) - 1 /\ (i - 1) + 1 = i
        BY <1>1, <1>2
    <2> QED
        BY <1>1, <2>1
<1>3. ASSUME NEW t, Lacks(l, t), m.type # t
      PROVE  Lacks(s, t)
    BY <1>1, <1>2, <1>3 DEF Lacks
<1>4. ASSUME NEW infos, LastSays(s, infos)
      PROVE  LastSays(l, infos)
    <2> SUFFICES ASSUME NEW i \in DOMAIN l, l[i].type = "infos",
                        \A j \in DOMAIN l : j > i => l[j].type # "infos"
                 PROVE  SameWord(l[i].body, infos)
        BY DEF LastSays
    <2>1. i \in Nat /\ i + 1 \in DOMAIN s /\ l[i] = s[i + 1]
        BY <1>1
    <2>2. ASSUME NEW j \in DOMAIN s, j > i + 1
          PROVE  s[j].type # "infos"
        <3>1. j # 1 /\ j - 1 > i
            BY <1>1, <2>1, <2>2
        <3> QED
            BY <1>2, <3>1
    <2> QED
        BY <1>4, <2>1, <2>2 DEF LastSays
<1>5. ASSUME NEW infos, LastSays(s, infos), m.type = "infos", Lacks(l, "infos")
      PROVE  SameWord(m.body, infos)
    <2>1. 1 \in DOMAIN s /\ \A j \in DOMAIN s : j > 1 => s[j].type # "infos"
        BY <1>1, <1>2, <1>5 DEF Lacks
    <2> QED
        BY <1>1, <1>5, <2>1 DEF LastSays
<1> QED
    BY <1>3, <1>4, <1>5 DEF l, m

(* What a message sent to some changes of the streams.                        *)
LEMMA SentWords ==
    ASSUME NEW M, NEW w, Streams(w, M), NEW p, NEW to, NEW type, NEW body,
           [type |-> type, body |-> body] \in M, NEW pq \in Pairs
    PROVE  LET x == SendTo(w, p, to, type, body)
           IN  /\ pq[1] # p \/ pq[2] \notin to => x[pq] = w[pq]
               /\ \A t : Lacks(x[pq], t) => Lacks(w[pq], t)
               /\ \A infos : type # "infos" /\ LastSays(w[pq], infos) => LastSays(x[pq], infos)
               /\ pq[1] = p /\ pq[2] \in to /\ pq \in up /\ Reads(pq[2], p)
                    => /\ ~Lacks(x[pq], type)
                       /\ \A infos : type = "infos" /\ SameWord(body, infos)
                            => LastSays(x[pq], infos)
<1> DEFINE m == [type |-> type, body |-> body]
           x == SendTo(w, p, to, type, body)
           W == M \cup {Eof}
           ms == <<m>>
           goes == pq[1] = p /\ pq[2] \in to /\ pq \in up /\ Reads(pq[2], p)
<1>1. ms \in Seq(M) /\ m \in W /\ m.type = type /\ m.body = body
    OBVIOUS
<1>2. w[pq] \in Seq(W)
    BY DEF Streams
<1>3. pq = <<pq[1], pq[2]>>
    BY DEF Pairs
<1>4. x[pq] = IF pq[1] = p /\ pq[2] \in to THEN Posted(w, p, pq[2], ms)[pq] ELSE w[pq]
    BY DEF SendTo
<1> HIDE DEF x, ms, m, W
<1>5. Posted(w, p, pq[2], ms)[pq] = IF pq = <<p, pq[2]>> /\ pq \in up /\ Reads(pq[2], p)
                                    THEN w[pq] \o ms ELSE w[pq]
    BY <1>1, PostedSeq
<1>6. x[pq] = IF goes THEN w[pq] \o ms ELSE w[pq]
    BY <1>3, <1>4, <1>5
<1>7. /\ \A t : Lacks(w[pq] \o ms, t) => Lacks(w[pq], t) /\ m.type # t
      /\ \A infos : /\ m.type # "infos" /\ LastSays(w[pq], infos)
                         => LastSays(w[pq] \o ms, infos)
                    /\ m.type = "infos" /\ SameWord(m.body, infos)
                         => LastSays(w[pq] \o ms, infos)
    BY <1>1, <1>2, WordSent DEF ms
<1> QED
    BY <1>1, <1>6, <1>7 DEF x

-----------------------------------------------------------------------------
(* What a step leaves of it as it was.                                       *)

(* Nothing is lost and nothing is said between the host h and p.              *)
Carried(h, p) ==
    /\ \A infos : LastSays(wire[<<h, p>>], infos) => LastSays(wire'[<<h, p>>], infos)
    /\ Lacks(wire'[<<h, p>>], "infos") => Lacks(wire[<<h, p>>], "infos")
    /\ Lacks(wire'[<<p, h>>], "request") => Lacks(wire[<<p, h>>], "request")

CopyKept(p, n) ==
    State(p, n)' # "none" /\ <<p, n>> \notin wrote'
        => /\ State(p, n) # "none" /\ <<p, n>> \notin wrote
           /\ SameWord(InfosAt(p, n)', InfosAt(p, n))

(* Who is new on the host's roster was seated by hand.                        *)
HostKept(h, x) ==
    State(h, x)' = "hosting"
        => /\ State(h, x) = "hosting" /\ SameWord(InfosAt(h, x)', InfosAt(h, x))
           /\ InfosAt(h, x)'.roster \subseteq InfosAt(h, x).roster \cup byHand'

Onwards == twice \subseteq twice' /\ byHand \subseteq byHand' /\ up' \subseteq up

LEMMA SaysSame ==
    ASSUME NEW s, NEW a, NEW b, SameWord(b, a), LastSays(s, a)
    PROVE  LastSays(s, b)
    BY DEF LastSays, SameWord

LEMMA WordKept ==
    ASSUME NEW h, NEW x, NEW p, Onwards, HostKept(h, x), Listens(h, x, p)',
           Listens(h, x, p) => WordOf(h, x, p), Carried(h, p), \A n \in Names : CopyKept(p, n)
    PROVE  WordOf(h, x, p)'
<1>1. /\ State(h, x) = "hosting" /\ SameWord(InfosAt(h, x)', InfosAt(h, x))
      /\ InfosAt(h, x)'.roster \subseteq InfosAt(h, x).roster \cup byHand'
    BY DEF HostKept, Listens
<1>2. p \in InfosAt(h, x).roster /\ p \notin byHand
    BY <1>1 DEF Listens, Onwards
<1>3. Listens(h, x, p)
    BY <1>1, <1>2 DEF Listens, Onwards, Connected
<1>4. WordOf(h, x, p)
    BY <1>3
<1> DEFINE a == InfosAt(h, x)  b == InfosAt(h, x)'
<1>5. LastSays(wire'[<<h, p>>], a)
    BY <1>4 DEF WordOf, Carried
<1>6. LastSays(wire'[<<h, p>>], b)
    <2> SUFFICES ASSUME NEW s, LastSays(s, a) PROVE LastSays(s, b)
        BY <1>5
    <2> HIDE DEF a, b
    <2>1. SameWord(b, a)
        BY <1>1 DEF a, b
    <2> QED
        BY <2>1, SaysSame
<1>7. ASSUME NEW n \in Names, p \notin twice', State(p, n)' # "none", <<p, n>> \notin wrote',
             Lacks(wire'[<<p, h>>], "request"), Lacks(wire'[<<h, p>>], "infos")
      PROVE  SameWord(InfosAt(p, n)', b)
    <2>1. /\ State(p, n) # "none" /\ <<p, n>> \notin wrote
          /\ SameWord(InfosAt(p, n)', InfosAt(p, n))
        BY <1>7 DEF CopyKept
    <2>2. Lacks(wire[<<p, h>>], "request") /\ Lacks(wire[<<h, p>>], "infos")
        BY <1>7 DEF Carried
    <2>3. p \notin twice
        BY <1>7 DEF Onwards
    <2>4. SameWord(InfosAt(p, n), a)
        BY <1>4, <2>1, <2>2, <2>3 DEF WordOf
    <2> QED
        BY <1>1, <2>1, <2>4 DEF SameWord
<1> QED
    BY <1>6, <1>7 DEF WordOf

LEMMA WordsKept ==
    ASSUME WordsAgree, Onwards,
           \A h \in Peers \ twice', x \in Names : HostKept(h, x),
           \A p \in Peers, n \in Names : CopyKept(p, n),
           \A h, p \in Peers : h # p /\ Connected(p, h)' => Carried(h, p)
    PROVE  WordsAgree'
<1> SUFFICES ASSUME NEW h \in Peers, NEW p \in Peers, NEW x \in Names, Listens(h, x, p)'
             PROVE  WordOf(h, x, p)'
    BY DEF WordsAgree
<1>1. h \in Peers \ twice' /\ h # p /\ Connected(p, h)'
    BY DEF Listens
<1>2. HostKept(h, x) /\ Carried(h, p) /\ \A n \in Names : CopyKept(p, n)
    BY <1>1
<1>3. Listens(h, x, p) => WordOf(h, x, p)
    BY DEF WordsAgree
<1> QED
    BY <1>2, <1>3, WordKept

LEMMA EntryWritten ==
    ASSUME NEW O, EntriesOK(O), NEW p \in Peers, NEW n \in Names, NEW state, NEW infos,
           Becomes(p, n, state, infos)
    PROVE  /\ State(p, n)' = state /\ InfosAt(p, n)' = infos
           /\ \A r \in Peers, m \in Names : r # p \/ m # n
                => State(r, m)' = State(r, m) /\ InfosAt(r, m)' = InfosAt(r, m)
    BY DEF EntriesOK, Becomes, State, InfosAt

LEMMA EntryErased ==
    ASSUME NEW O, EntriesOK(O), NEW p \in Peers, NEW n \in Names, Erase(p, n)
    PROVE  /\ State(p, n)' = "none"
           /\ \A r \in Peers, m \in Names : r # p \/ m # n
                => State(r, m)' = State(r, m) /\ InfosAt(r, m)' = InfosAt(r, m)
    BY DEF EntriesOK, Erase, State, InfosAt, Absent

LEMMA SameKept ==
    ASSUME NEW p, NEW n, State(p, n)' = State(p, n), InfosAt(p, n)' = InfosAt(p, n),
           <<p, n>> \in wrote => <<p, n>> \in wrote'
    PROVE  CopyKept(p, n) /\ HostKept(p, n)
    BY DEF CopyKept, HostKept, SameWord

(* A copy that gets another roster.                                          *)
LEMMA SeatsKept ==
    ASSUME NEW O, EntriesOK(O), NEW p \in Peers, NEW n \in Names, NEW state, NEW infos,
           Becomes(p, n, state, infos), State(p, n) # "none", SameWord(infos, InfosAt(p, n)),
           state = "hosting" => /\ State(p, n) = "hosting"
                                /\ infos.roster \subseteq InfosAt(p, n).roster \cup byHand',
           wrote \subseteq wrote'
    PROVE  \A r \in Peers, m \in Names : CopyKept(r, m) /\ HostKept(r, m)
<1> SUFFICES ASSUME NEW r \in Peers, NEW m \in Names PROVE CopyKept(r, m) /\ HostKept(r, m)
    OBVIOUS
<1>1. CASE r = p /\ m = n
    BY <1>1, EntryWritten DEF CopyKept, HostKept
<1>2. CASE r # p \/ m # n
    <2>1. State(r, m)' = State(r, m) /\ InfosAt(r, m)' = InfosAt(r, m)
        BY <1>2, EntryWritten
    <2> QED
        BY <2>1, SameKept
<1> QED
    BY <1>1, <1>2

LEMMA ErasedKept ==
    ASSUME NEW O, EntriesOK(O), NEW p \in Peers, NEW n \in Names, Erase(p, n),
           wrote' = wrote \ {<<p, n>>}
    PROVE  \A r \in Peers, m \in Names : CopyKept(r, m) /\ HostKept(r, m)
<1> SUFFICES ASSUME NEW r \in Peers, NEW m \in Names PROVE CopyKept(r, m) /\ HostKept(r, m)
    OBVIOUS
<1>1. CASE r = p /\ m = n
    BY <1>1, EntryErased DEF CopyKept, HostKept
<1>2. CASE r # p \/ m # n
    <2>1. State(r, m)' = State(r, m) /\ InfosAt(r, m)' = InfosAt(r, m)
        BY <1>2, EntryErased
    <2>2. <<r, m>> # <<p, n>>
        BY <1>2
    <2> QED
        BY <2>1, <2>2, SameKept
<1> QED
    BY <1>1, <1>2

LEMMA EntriesKept ==
    ASSUME UNCHANGED <<entry, wrote>>
    PROVE  \A r \in Peers, m \in Names : CopyKept(r, m) /\ HostKept(r, m)
    BY SameKept DEF State, InfosAt

LEMMA CarriedSame ==
    ASSUME NEW h, NEW p, wire'[<<h, p>>] = wire[<<h, p>>], wire'[<<p, h>>] = wire[<<p, h>>]
    PROVE  Carried(h, p)
    BY DEF Carried

(* Whatever is sent that is not the session itself.                          *)
LEMMA SentCarries ==
    ASSUME NEW M, Streams(wire, M), NEW s, NEW to, NEW type, NEW body,
           [type |-> type, body |-> body] \in M, type # "infos",
           wire' = SendTo(wire, s, to, type, body)
    PROVE  \A h, p \in Peers : h # p => Carried(h, p)
<1> SUFFICES ASSUME NEW h \in Peers, NEW p \in Peers, h # p PROVE Carried(h, p)
    OBVIOUS
<1> DEFINE hp == <<h, p>>  ph == <<p, h>>
<1>1. hp \in Pairs /\ ph \in Pairs
    BY DEF Pairs
<1>2. ASSUME NEW pq \in Pairs
      PROVE  /\ \A t : Lacks(wire'[pq], t) => Lacks(wire[pq], t)
             /\ \A infos : LastSays(wire[pq], infos) => LastSays(wire'[pq], infos)
    BY SentWords
<1> HIDE DEF hp, ph
<1>3. /\ \A infos : LastSays(wire[hp], infos) => LastSays(wire'[hp], infos)
      /\ Lacks(wire'[hp], "infos") => Lacks(wire[hp], "infos")
      /\ Lacks(wire'[ph], "request") => Lacks(wire[ph], "request")
    BY <1>1, <1>2
<1> QED
    BY <1>3 DEF Carried, hp, ph

(* There is one session.                                                   *)
LEMMA OneOwner ==
    ASSUME NEW O \in SUBSET Peers, EntriesOK(O), OneSession(O), NEW h \in Peers, NEW x \in Names,
           State(h, x) = "hosting", NEW p \in Peers, NEW n \in Names, State(p, n) # "none"
    PROVE  InfosAt(p, n).owner = h /\ (State(p, n) = "hosting" => p = h)
<1>1. /\ InfosAt(h, x) \in OwnInfos(O) /\ InfosAt(h, x).owner = h
      /\ InfosAt(p, n) \in OwnInfos(O) /\ (State(p, n) = "hosting" => InfosAt(p, n).owner = p)
    BY EntryParts
<1> QED
    BY <1>1, OwnInfosParts DEF OneSession

-----------------------------------------------------------------------------
(* The calls of the game and the tick.                                       *)

LEMMA CreateWords ==
    ASSUME NEW O \in SUBSET Peers, Typed(O), NEW p \in Peers,
           NEW n \in Names, NEW settings \in Settings, CreateSession(p, n, settings)
    PROVE  WordsAgree'
<1> DEFINE infos == [owner |-> p, roster |-> {p}, settings |-> settings, phase |-> "pending"]
<1>1. O = {}
    BY SpendOK DEF Typed, CreateSession, Kinds, OneSession
<1>2. \A r \in Peers, m \in Names : State(r, m) = "none"
    BY <1>1, EntryParts DEF Typed, OwnInfos
<1>3. Becomes(p, n, "hosting", infos) /\ infos.roster = {p}
    BY DEF CreateSession
<1> HIDE DEF infos
<1>4. /\ InfosAt(p, n)' = infos
      /\ \A r \in Peers, m \in Names : r # p \/ m # n => State(r, m)' = "none"
    BY <1>2, <1>3, EntryWritten DEF Typed
<1>5. ASSUME NEW h \in Peers, NEW r \in Peers, NEW x \in Names, Listens(h, x, r)'
      PROVE  FALSE
    <2>1. State(h, x)' = "hosting" /\ h # r /\ r \in InfosAt(h, x)'.roster
        BY <1>5 DEF Listens
    <2>2. h = p /\ x = n
        BY <1>4, <2>1
    <2> QED
        BY <1>3, <1>4, <2>1, <2>2
<1> QED
    BY <1>5 DEF WordsAgree

(* The host tells its roster, whoever is on it.                              *)
LEMMA WriteWords ==
    ASSUME NEW O \in SUBSET Peers, Typed(O), JoinsOK, WordsAgree, NEW p \in Peers,
           NEW n \in Names, NEW infos, Write(p, n, infos),
           infos \in OwnInfos(O), infos.owner = InfosAt(p, n).owner,
           infos.roster = InfosAt(p, n).roster
    PROVE  WordsAgree'
<1>1. /\ State(p, n) # "none" /\ Becomes(p, n, State(p, n), infos)
      /\ wire' = SendTo(wire, p, infos.roster \ {p}, "infos", infos)
      /\ UNCHANGED <<byHand, twice, up, accepting>>
      /\ wrote' = IF State(p, n) = "hosting" THEN wrote ELSE wrote \cup {<<p, n>>}
    BY DEF Write, BroadcastSession, SendToMembers
<1>2. /\ State(p, n)' = State(p, n) /\ InfosAt(p, n)' = infos
      /\ \A r \in Peers, m \in Names : r # p \/ m # n
           => State(r, m)' = State(r, m) /\ InfosAt(r, m)' = InfosAt(r, m)
    BY <1>1, EntryWritten DEF Typed
<1>3. Onwards
    BY <1>1 DEF Onwards
<1>4. [type |-> "infos", body |-> infos] \in Words(O) /\ Streams(wire, Words(O))
    BY WordsOf DEF Typed, LinkTyped
<1>5. ASSUME NEW pq \in Pairs
      PROVE  /\ pq[1] # p => wire'[pq] = wire[pq]
             /\ \A t : Lacks(wire'[pq], t) => Lacks(wire[pq], t)
             /\ pq[1] = p /\ pq[2] \in infos.roster \ {p} /\ pq \in up /\ Reads(pq[2], p)
                  => ~Lacks(wire'[pq], "infos") /\ LastSays(wire'[pq], infos)
    BY <1>1, <1>4, SentWords DEF SameWord
<1> SUFFICES ASSUME NEW h \in Peers, NEW r \in Peers, NEW x \in Names, Listens(h, x, r)'
             PROVE  WordOf(h, x, r)'
    BY DEF WordsAgree
<1>6. State(h, x) = "hosting" /\ h \notin twice /\ h # r /\ Connected(r, h)
    BY <1>1, <1>2 DEF Listens, Connected
<1>7. h = InfosAt(p, n).owner /\ (State(p, n) = "hosting" => p = h)
    BY <1>1, <1>6, OneOwner DEF Typed
<1> DEFINE hr == <<h, r>>  rh == <<r, h>>
<1>8. hr \in Pairs /\ rh \in Pairs /\ hr[1] = h /\ hr[2] = r /\ rh[1] = r
    BY <1>6 DEF Pairs
<1>9. CASE p = h
    <2>1. x = n
        BY <1>1, <1>6, <1>9 DEF JoinsOK, Held
    <2>2. r \in infos.roster \ {p} /\ hr \in up /\ Reads(r, p)
        BY <1>2, <1>6, <1>9, <2>1 DEF Listens, Connected, Reads
    <2> HIDE DEF hr
    <2>3. ~Lacks(wire'[hr], "infos") /\ LastSays(wire'[hr], infos)
        BY <1>5, <1>8, <1>9, <2>2
    <2>4. InfosAt(h, x)' = infos
        BY <1>2, <1>9, <2>1
    <2> QED
        BY <2>3, <2>4 DEF WordOf, hr
<1>10. CASE p # h
    <2>1. HostKept(h, x)
        BY <1>2, <1>10, SameKept DEF HostKept, SameWord
    <2>2. ASSUME NEW m \in Names PROVE CopyKept(r, m)
        <3>1. CASE r = p /\ m = n
            BY <1>1, <1>7, <1>10, <3>1 DEF CopyKept
        <3>2. CASE ~(r = p /\ m = n)
            BY <1>1, <1>2, <3>2, SameKept
        <3> QED
            BY <3>1, <3>2
    <2>3. Carried(h, r)
        <3> HIDE DEF hr, rh
        <3>1. wire'[hr] = wire[hr] /\ (Lacks(wire'[rh], "request") => Lacks(wire[rh], "request"))
            BY <1>5, <1>8, <1>10
        <3> QED
            BY <3>1 DEF Carried, hr, rh
    <2>4. Listens(h, x, r) => WordOf(h, x, r)
        BY DEF WordsAgree
    <2> QED
        BY <1>3, <2>1, <2>2, <2>3, <2>4, WordKept
<1> QED
    BY <1>9, <1>10

LEMMA WritesWords ==
    ASSUME NEW O \in SUBSET Peers, Typed(O), JoinsOK, WordsAgree, NEW p \in Peers,
           NEW n \in Names, \/ \E settings \in Settings : UpdateSession(p, n, settings)
                            \/ StartSession(p, n)
                            \/ EndSession(p, n)
    PROVE  WordsAgree'
<1>1. State(p, n) # "none"
    BY DEF UpdateSession, StartSession, EndSession, Write
<1>2. InfosAt(p, n) \in OwnInfos(O)
    BY <1>1, EntryParts DEF Typed
<1>3. PICK infos \in OwnInfos(O) :
        /\ Write(p, n, infos) /\ infos.owner = InfosAt(p, n).owner
        /\ infos.roster = InfosAt(p, n).roster
    <2>1. ASSUME NEW old \in OwnInfos(O), NEW settings \in Settings, NEW phase \in Phases
          PROVE  /\ [old EXCEPT !.settings = settings] \in OwnInfos(O)
                 /\ [old EXCEPT !.settings = settings].owner = old.owner
                 /\ [old EXCEPT !.settings = settings].roster = old.roster
                 /\ [old EXCEPT !.phase = phase] \in OwnInfos(O)
                 /\ [old EXCEPT !.phase = phase].owner = old.owner
                 /\ [old EXCEPT !.phase = phase].roster = old.roster
        BY DEF OwnInfos, Infos
    <2>2. CASE \E settings \in Settings : UpdateSession(p, n, settings)
        <3>1. PICK settings \in Settings : UpdateSession(p, n, settings)
            BY <2>2
        <3>2. "pending" \in Phases
            BY DEF Phases
        <3>3. /\ [InfosAt(p, n) EXCEPT !.settings = settings] \in OwnInfos(O)
              /\ [InfosAt(p, n) EXCEPT !.settings = settings].owner = InfosAt(p, n).owner
              /\ [InfosAt(p, n) EXCEPT !.settings = settings].roster = InfosAt(p, n).roster
            BY <1>2, <2>1, <3>2
        <3> QED
            BY <3>1, <3>3 DEF UpdateSession
    <2>3. CASE StartSession(p, n) \/ EndSession(p, n)
        <3>1. PICK phase \in Phases : Write(p, n, [InfosAt(p, n) EXCEPT !.phase = phase])
            BY <2>3 DEF StartSession, EndSession, Phases
        <3>2. InfosAt(p, n).settings \in Settings
            BY <1>2, OwnInfosParts
        <3>3. /\ [InfosAt(p, n) EXCEPT !.phase = phase] \in OwnInfos(O)
              /\ [InfosAt(p, n) EXCEPT !.phase = phase].owner = InfosAt(p, n).owner
              /\ [InfosAt(p, n) EXCEPT !.phase = phase].roster = InfosAt(p, n).roster
            BY <1>2, <2>1, <3>2
        <3> QED
            BY <3>1, <3>3
    <2> QED
        BY <2>2, <2>3
<1> QED
    BY <1>3, WriteWords

LEMMA SeatsWords ==
    ASSUME NEW O \in SUBSET Peers, Typed(O), WordsAgree, NEW p \in Peers,
           NEW n \in Names, NEW m \in Peers, RegisterPlayers(p, n, m) \/ UnregisterPlayers(p, n, m)
    PROVE  WordsAgree'
<1>1. State(p, n) # "none"
    BY DEF RegisterPlayers, UnregisterPlayers, ChangeSeats
<1>2. InfosAt(p, n) \in OwnInfos(O)
    BY <1>1, EntryParts DEF Typed
<1>3. ASSUME NEW old \in OwnInfos(O)
      PROVE  /\ SameWord(Seat(old, m), old) /\ SameWord(Unseat(old, m), old)
             /\ Seat(old, m).roster \subseteq old.roster \cup {m}
             /\ Unseat(old, m).roster \subseteq old.roster \cup {m}
    BY DEF OwnInfos, Infos, SameWord, Seat, Unseat
<1>4. PICK infos, type :
        /\ type \in {"register", "unregister"}
        /\ ChangeSeats(p, n, m, infos, type) /\ SameWord(infos, InfosAt(p, n))
        /\ infos.roster \subseteq InfosAt(p, n).roster \cup {m}
    <2> DEFINE seated == Seat(InfosAt(p, n), m)  unseated == Unseat(InfosAt(p, n), m)
    <2>1. /\ SameWord(seated, InfosAt(p, n)) /\ SameWord(unseated, InfosAt(p, n))
          /\ seated.roster \subseteq InfosAt(p, n).roster \cup {m}
          /\ unseated.roster \subseteq InfosAt(p, n).roster \cup {m}
        BY <1>2, <1>3
    <2>2. \/ ChangeSeats(p, n, m, seated, "register")
          \/ ChangeSeats(p, n, m, unseated, "unregister")
        BY DEF RegisterPlayers, UnregisterPlayers
    <2> HIDE DEF seated, unseated
    <2> QED
        BY <2>1, <2>2
<1>5. /\ Becomes(p, n, State(p, n), infos) /\ UNCHANGED <<wrote, twice, up>>
      /\ wire' = SendTo(wire, p, infos.roster \ {p}, type, m)
      /\ byHand \subseteq byHand' /\ (State(p, n) = "hosting" => m \in byHand')
    BY <1>4 DEF ChangeSeats, SendToMembers
<1>6. \A r \in Peers, x \in Names : CopyKept(r, x) /\ HostKept(r, x)
    BY <1>1, <1>4, <1>5, SeatsKept DEF Typed
<1>7. [type |-> type, body |-> m] \in Words(O) /\ type # "infos" /\ Streams(wire, Words(O))
    BY <1>4, WordsOf DEF Typed, LinkTyped
<1>8. \A h, r \in Peers : h # r => Carried(h, r)
    BY <1>5, <1>7, SentCarries
<1> QED
    BY <1>5, <1>6, <1>8, WordsKept DEF Onwards

(* Who asks has heard nothing yet.                                           *)
LEMMA JoinWords ==
    ASSUME NEW O \in SUBSET Peers, Typed(O), WordsAgree, NEW p \in Peers,
           NEW n \in Names, JoinSession(p, n)
    PROVE  WordsAgree'
<1>1. /\ Becomes(p, n, "joining", found[p]) /\ found[p] \in OwnInfos(O)
      /\ wire' = SendTo(wire, p, {found[p].owner}, "request", None)
      /\ UNCHANGED <<byHand, wrote, up, accepting>>
      /\ twice' = IF Held(p) = {} THEN twice ELSE twice \cup {p}
    BY DEF Typed, FoundOK, JoinSession
<1>2. /\ State(p, n)' = "joining"
      /\ \A r \in Peers, m \in Names : r # p \/ m # n
           => State(r, m)' = State(r, m) /\ InfosAt(r, m)' = InfosAt(r, m)
    BY <1>1, EntryWritten DEF Typed
<1>3. Onwards
    BY <1>1 DEF Onwards
<1>4. [type |-> "request", body |-> None] \in Words(O) /\ Streams(wire, Words(O))
    BY WordsOf DEF Typed, LinkTyped
<1>5. \A h, r \in Peers : h # r => Carried(h, r)
    BY <1>1, <1>4, SentCarries
<1> SUFFICES ASSUME NEW h \in Peers, NEW r \in Peers, NEW x \in Names, Listens(h, x, r)'
             PROVE  WordOf(h, x, r)'
    BY DEF WordsAgree
<1>6. /\ h # r /\ h \notin twice' /\ State(h, x) = "hosting" /\ InfosAt(h, x)' = InfosAt(h, x)
      /\ Connected(r, h)
    BY <1>1, <1>2 DEF Listens, Connected
<1>7. HostKept(h, x)
    BY <1>6 DEF HostKept, SameWord
<1>8. Listens(h, x, r) => WordOf(h, x, r)
    BY DEF WordsAgree
<1>9. CASE r = p /\ p \notin twice'
    <2>1. Listens(h, x, p)
        BY <1>1, <1>6, <1>9 DEF Listens, Connected, Onwards
    <2>2. LastSays(wire'[<<h, p>>], InfosAt(h, x)')
        BY <1>5, <1>6, <1>8, <1>9, <2>1 DEF WordOf, Carried
    <2> DEFINE ph == <<p, h>>
    <2>3. ph \in Pairs /\ ph \in up /\ Reads(h, p) /\ ph[1] = p /\ ph[2] = h
        BY <1>6, <1>9 DEF Pairs, Connected, Reads
    <2>4. found[p].owner = h
        <3>1. InfosAt(h, x) \in OwnInfos(O) /\ InfosAt(h, x).owner = h
            BY <1>6, EntryParts DEF Typed
        <3> QED
            BY <1>1, <3>1, OwnInfosParts DEF Typed, OneSession
    <2> HIDE DEF ph
    <2>5. ~Lacks(wire'[ph], "request")
        BY <1>1, <1>4, <2>3, <2>4, SentWords
    <2> QED
        BY <1>9, <2>2, <2>5 DEF WordOf, ph
<1>10. CASE r = p /\ p \in twice'
    <2>1. Listens(h, x, p)
        BY <1>1, <1>6, <1>10 DEF Listens, Connected, Onwards
    <2>2. LastSays(wire'[<<h, p>>], InfosAt(h, x)')
        BY <1>5, <1>6, <1>8, <1>10, <2>1 DEF WordOf, Carried
    <2> QED
        BY <1>10, <2>2 DEF WordOf
<1>11. CASE r # p
    <2>1. \A m \in Names : CopyKept(r, m)
        BY <1>1, <1>2, <1>11, SameKept
    <2> QED
        BY <1>3, <1>5, <1>6, <1>7, <1>8, <2>1, WordKept
<1> QED
    BY <1>9, <1>10, <1>11

LEMMA DestroyWords ==
    ASSUME NEW O \in SUBSET Peers, Typed(O), WordsAgree, NEW p \in Peers,
           NEW n \in Names, DestroySession(p, n)
    PROVE  WordsAgree'
<1>1. /\ Erase(p, n) /\ wrote' = wrote \ {<<p, n>>} /\ UNCHANGED <<byHand, twice, up>>
      /\ \E to : \/ wire' = SendTo(wire, p, to, "destroy", None)
                 \/ wire' = SendTo(wire, p, to, "unregister", p)
    BY DEF DestroySession, SendToMembers
<1>2. \A r \in Peers, x \in Names : CopyKept(r, x) /\ HostKept(r, x)
    BY <1>1, ErasedKept DEF Typed
<1>3. /\ [type |-> "destroy", body |-> None] \in Words(O)
      /\ [type |-> "unregister", body |-> p] \in Words(O) /\ Streams(wire, Words(O))
    BY WordsOf DEF Typed, LinkTyped
<1>4. \A h, r \in Peers : h # r => Carried(h, r)
    BY <1>1, <1>3, SentCarries
<1> QED
    BY <1>1, <1>2, <1>4, WordsKept DEF Onwards

LEMMA SearchFindWords ==
    ASSUME NEW O \in SUBSET Peers, Typed(O), WordsAgree, NEW p \in Peers,
           NEW target \in Peers \cup {None}, SearchFind(p, target)
    PROVE  WordsAgree'
<1> DEFINE asked == {q \in Peers : <<p, q>> \in up /\ target \in {None, q}}
           query == [id |-> spent.searches + 1, target |-> target]
<1>1. /\ wire' = SendTo(wire, p, asked, "search", query)
      /\ UNCHANGED <<entry, wrote, byHand, twice, up>>
    BY DEF SearchFind, history
<1>2. spent.searches + 1 \in Nat
    BY DEF Typed, SpentOK, Kinds
<1>3. [type |-> "search", body |-> query] \in Words(O) /\ Streams(wire, Words(O))
    BY <1>2, WordsOf DEF Typed, LinkTyped
<1> HIDE DEF asked, query
<1>4. \A h, r \in Peers : h # r => Carried(h, r)
    BY <1>1, <1>3, SentCarries
<1> QED
    BY <1>1, <1>4, EntriesKept, WordsKept DEF Onwards

LEMMA QuietWords ==
    ASSUME WordsAgree, UNCHANGED <<entry, wrote, byHand, twice, up, wire>>
    PROVE  WordsAgree'
    BY EntriesKept, CarriedSame, WordsKept DEF Onwards

LEMMA JoinTimedOutWords ==
    ASSUME NEW O \in SUBSET Peers, Typed(O), WordsAgree, NEW p \in Peers, NEW i, JoinTimedOut(p, i)
    PROVE  WordsAgree'
<1>1. UNCHANGED <<byHand, twice, up, wire>>
    BY DEF JoinTimedOut, linkVars
<1>2. \A r \in Peers, x \in Names : CopyKept(r, x) /\ HostKept(r, x)
    <2>1. CASE Held(p) # {} /\ State(p, ById(p)) = "joining"
        <3>1. /\ Erase(p, ById(p)) /\ wrote' = wrote \ {<<p, ById(p)>>} /\ ById(p) \in Names
            BY <2>1, ByIdHeld DEF JoinTimedOut
        <3> QED
            BY <3>1, ErasedKept DEF Typed
    <2>2. CASE ~(Held(p) # {} /\ State(p, ById(p)) = "joining")
        BY <2>2, EntriesKept DEF JoinTimedOut
    <2> QED
        BY <2>1, <2>2
<1>3. \A h, r \in Peers : h # r => Carried(h, r)
    BY <1>1, CarriedSame
<1> QED
    BY <1>1, <1>2, <1>3, WordsKept DEF Onwards

-----------------------------------------------------------------------------
(* The messages.                                                           *)

(* w is the wire once p has m, from q: the head of the stream, or something    *)
(* that was read before q was dropped.                                      *)
Taken(w, p, q, m) ==
    \A pq \in Pairs :
        /\ \A infos : LastSays(wire[pq], infos) => LastSays(w[pq], infos)
        /\ \A t : Lacks(w[pq], t) /\ (pq = <<q, p>> => m.type # t) => Lacks(wire[pq], t)
        /\ pq = <<q, p>> /\ <<p, q>> \in up /\ m.type = "infos" /\ Lacks(w[pq], "infos")
             => \A infos : LastSays(wire[pq], infos) => SameWord(m.body, infos)

(* Nothing of the session is sent upon it.                                    *)
Unsaid(w) ==
    \A pq \in Pairs : /\ \A t : Lacks(wire'[pq], t) => Lacks(w[pq], t)
                      /\ \A infos : LastSays(w[pq], infos) => LastSays(wire'[pq], infos)

LEMMA UnsaidSame ==
    ASSUME NEW w, wire' = w
    PROVE  Unsaid(w)
    BY DEF Unsaid

LEMMA UnsaidSent ==
    ASSUME NEW M, NEW w, Streams(w, M), NEW p, NEW to, NEW type, NEW body,
           [type |-> type, body |-> body] \in M, type # "infos",
           wire' = SendTo(w, p, to, type, body)
    PROVE  Unsaid(w)
    BY SentWords DEF Unsaid

LEMMA TakenCarries ==
    ASSUME NEW w, NEW p, NEW q, NEW m, Taken(w, p, q, m), Unsaid(w),
           NEW h \in Peers, NEW r \in Peers, h # r,
           <<h, r>> # <<q, p>> \/ m.type # "infos",
           <<r, h>> # <<q, p>> \/ m.type # "request"
    PROVE  Carried(h, r)
<1> DEFINE hr == <<h, r>>  rh == <<r, h>>  qp == <<q, p>>
<1>1. hr \in Pairs /\ rh \in Pairs
    BY DEF Pairs
<1>2. (hr # qp \/ m.type # "infos") /\ (rh # qp \/ m.type # "request")
    OBVIOUS
<1>3. ASSUME NEW pq \in Pairs
      PROVE  /\ \A infos : LastSays(wire[pq], infos) => LastSays(w[pq], infos)
             /\ \A t : Lacks(w[pq], t) /\ (pq = qp => m.type # t) => Lacks(wire[pq], t)
             /\ \A t : Lacks(wire'[pq], t) => Lacks(w[pq], t)
             /\ \A infos : LastSays(w[pq], infos) => LastSays(wire'[pq], infos)
    BY DEF Taken, Unsaid
<1> HIDE DEF hr, rh, qp
<1>4. \A infos : LastSays(wire[hr], infos) => LastSays(wire'[hr], infos)
    BY <1>1, <1>3
<1>5. Lacks(wire'[hr], "infos") => Lacks(wire[hr], "infos")
    BY <1>1, <1>2, <1>3
<1>6. Lacks(wire'[rh], "request") => Lacks(wire[rh], "request")
    BY <1>1, <1>2, <1>3
<1> QED
    BY <1>4, <1>5, <1>6 DEF Carried, hr, rh

LEMMA RosterWord ==
    ASSUME NEW O, NEW old \in OwnInfos(O), NEW m
    PROVE  /\ SameWord(Seat(old, m), old) /\ SameWord(Unseat(old, m), old)
           /\ Unseat(old, m).roster \subseteq old.roster
    BY DEF OwnInfos, Infos, SameWord, Seat, Unseat

LEMMA HeardWords ==
    ASSUME WordsAgree, NEW w, NEW p, NEW q, NEW m, Taken(w, p, q, m), Unsaid(w),
           m.type \notin {"infos", "request"}, UNCHANGED <<byHand, twice, up>>,
           \A r \in Peers, x \in Names : CopyKept(r, x),
           \A h \in Peers \ twice', x \in Names : HostKept(h, x)
    PROVE  WordsAgree'
<1>1. \A h, r \in Peers : h # r => Carried(h, r)
    BY TakenCarries
<1> QED
    BY <1>1, WordsKept DEF Onwards

LEMMA OnResponseEntries ==
    ASSUME NEW O \in SUBSET Peers, EntriesOK(O), NEW p \in Peers, NEW q \in Peers \ {p},
           NEW verdict, NEW w, OnResponse(p, q, verdict, w)
    PROVE  \A r \in Peers, x \in Names : CopyKept(r, x) /\ HostKept(r, x)
<1>1. CASE UNCHANGED <<entry, wrote>>
    BY <1>1, EntriesKept
<1>2. CASE ~UNCHANGED <<entry, wrote>>
    <2> DEFINE n == ById(p)
    <2>1. n \in Names /\ State(p, n) # "none" /\ InfosAt(p, n).owner = q
        BY <1>2, ByIdHeld DEF OnResponse, OnVerdict
    <2>2. State(p, n) # "hosting" /\ InfosAt(p, n) \in OwnInfos(O)
        BY <2>1, EntryParts
    <2>3. \/ Erase(p, n) /\ wrote' = wrote \ {<<p, n>>}
          \/ UNCHANGED wrote /\ Becomes(p, n, "joined", Seat(InfosAt(p, n), p))
          \/ UNCHANGED wrote /\ Becomes(p, n, State(p, n), Seat(InfosAt(p, n), verdict.player))
        BY <1>2 DEF OnResponse, OnVerdict
    <2> HIDE DEF n
    <2>4. CASE Erase(p, n) /\ wrote' = wrote \ {<<p, n>>}
        BY <2>1, <2>4, ErasedKept
    <2>5. ASSUME NEW state, NEW m, UNCHANGED wrote, Becomes(p, n, state, Seat(InfosAt(p, n), m)),
                 state # "hosting"
          PROVE  \A r \in Peers, x \in Names : CopyKept(r, x) /\ HostKept(r, x)
        <3>1. SameWord(Seat(InfosAt(p, n), m), InfosAt(p, n))
            BY <2>2, RosterWord
        <3> QED
            BY <2>1, <2>5, <3>1, SeatsKept
    <2> QED
        BY <2>2, <2>3, <2>4, <2>5
<1> QED
    BY <1>1, <1>2

LEMMA OnDestroyEntries ==
    ASSUME NEW O \in SUBSET Peers, EntriesOK(O), NEW p \in Peers, NEW q, NEW w, OnDestroy(p, q, w)
    PROVE  \A r \in Peers, x \in Names : CopyKept(r, x) /\ HostKept(r, x)
<1> DEFINE its == {n \in Held(p) : State(p, n) # "hosting" /\ InfosAt(p, n).owner = q}
<1>1. CASE its = {}
    BY <1>1, EntriesKept DEF OnDestroy
<1>2. CASE its # {}
    <2>1. its \in SUBSET Nat /\ its \subseteq Names
        BY SessionsAssumption DEF Held
    <2>2. Erase(p, Min(its)) /\ wrote' = wrote \ {<<p, Min(its)>>}
        BY <1>2 DEF OnDestroy
    <2> HIDE DEF its
    <2>3. Min(its) \in Names
        BY <1>2, <2>1, MinOf
    <2> QED
        BY <2>2, <2>3, ErasedKept
<1> QED
    BY <1>1, <1>2

LEMMA OnSeatsEntries ==
    ASSUME NEW O \in SUBSET Peers, EntriesOK(O), NEW p \in Peers, NEW q \in Peers \ {p},
           NEW m, NEW w, OnRegister(p, q, m, w) \/ OnUnregister(p, q, m, w)
    PROVE  \A r \in Peers, x \in Names : CopyKept(r, x) /\ HostKept(r, x)
<1>1. UNCHANGED wrote
    BY DEF OnRegister, OnUnregister
<1>2. CASE UNCHANGED entry
    BY <1>1, <1>2, EntriesKept
<1>3. CASE ~UNCHANGED entry
    <2> DEFINE n == ById(p)
    <2>1. /\ n \in Names /\ State(p, n) # "none"
          /\ \/ Becomes(p, n, State(p, n), Seat(InfosAt(p, n), m)) /\ InfosAt(p, n).owner = q
             \/ Becomes(p, n, State(p, n), Unseat(InfosAt(p, n), m))
        BY <1>3, ByIdHeld DEF OnRegister, OnUnregister
    <2>2. InfosAt(p, n) \in OwnInfos(O) /\ (InfosAt(p, n).owner = q => State(p, n) # "hosting")
        BY <2>1, EntryParts
    <2> HIDE DEF n
    <2>3. /\ SameWord(Seat(InfosAt(p, n), m), InfosAt(p, n))
          /\ SameWord(Unseat(InfosAt(p, n), m), InfosAt(p, n))
          /\ Unseat(InfosAt(p, n), m).roster \subseteq InfosAt(p, n).roster
        BY <2>2, RosterWord
    <2>4. CASE Becomes(p, n, State(p, n), Seat(InfosAt(p, n), m)) /\ InfosAt(p, n).owner = q
        BY <1>1, <2>1, <2>2, <2>3, <2>4, SeatsKept
    <2>5. CASE Becomes(p, n, State(p, n), Unseat(InfosAt(p, n), m))
        <3> DEFINE new == Unseat(InfosAt(p, n), m)
        <3>1. new.roster \subseteq InfosAt(p, n).roster \cup byHand'
            BY <2>3
        <3> HIDE DEF new
        <3> QED
            BY <1>1, <2>1, <2>3, <2>5, <3>1, SeatsKept DEF new
    <2> QED
        BY <2>1, <2>4, <2>5
<1> QED
    BY <1>2, <1>3

(* Who is admitted is told the session behind the verdict, and so is everyone  *)
(* else on the roster; who is on the roster is not refused.                  *)
LEMMA OnRequestWords ==
    ASSUME NEW O \in SUBSET Peers, EntriesOK(O), OneSession(O), JoinsOK, WordsAgree,
           NEW p \in Peers, NEW q \in Peers \ {p}, NEW m, m.type = "request", NEW w,
           Streams(w, Words(O)), Taken(w, p, q, m),
           OnRequest(p, q, w), UNCHANGED <<byHand, twice, up, accepting>>
    PROVE  WordsAgree'
<1>0. PICK n : n = ById(p)
    OBVIOUS
<1> DEFINE seated == Seat(InfosAt(p, n), q)
           admits == /\ Held(p) # {} /\ State(p, n) = "hosting"
                     /\ <<p, q>> \in up
                     /\ \/ q \in InfosAt(p, n).roster
                        \/ Cardinality(InfosAt(p, n).roster) < InfosAt(p, n).settings.room
           verdict == [player |-> q, ok |-> admits]
           told == SendTo(w, p, {q}, "response", verdict)
           others == SendTo(told, p, InfosAt(p, n).roster \ {p, q}, "response", verdict)
<1>1. /\ UNCHANGED wrote
      /\ IF admits THEN /\ Becomes(p, n, "hosting", seated)
                        /\ wire' = SendTo(others, p, seated.roster \ {p}, "infos", seated)
         ELSE wire' = told /\ UNCHANGED entry
    BY <1>0 DEF OnRequest, BroadcastSession, SendToMembers
<1>2. Onwards
    BY DEF Onwards
<1>3. [type |-> "response", body |-> verdict] \in Words(O)
    <2>1. admits \in BOOLEAN
        OBVIOUS
    <2> HIDE DEF admits
    <2> QED
        BY <2>1, WordsOf
<1> HIDE DEF verdict
<1>5. CASE ~admits
    <2>1. wire' = told /\ UNCHANGED <<entry, wrote>>
        BY <1>1, <1>5
    <2>2. Unsaid(w)
        BY <1>3, <2>1, UnsaidSent
    <2>3. ASSUME NEW h \in Peers, NEW r \in Peers, NEW x \in Names, Listens(h, x, r)'
          PROVE  WordOf(h, x, r)'
        <3>1. HostKept(h, x) /\ \A y \in Names : CopyKept(r, y)
            BY <2>1, EntriesKept
        <3>2. Listens(h, x, r) => WordOf(h, x, r)
            BY DEF WordsAgree
        <3>3. Listens(h, x, r)
            BY <2>1, <2>3 DEF Listens, State, InfosAt, Connected
        <3>4. ~(h = p /\ r = q)
            <4> SUFFICES ASSUME h = p, r = q PROVE FALSE
                OBVIOUS
            <4>1. /\ x \in Held(p) /\ p \notin twice /\ State(p, x) = "hosting"
                  /\ <<p, q>> \in up /\ q \in InfosAt(p, x).roster
                BY <3>3 DEF Listens, Connected, Held
            <4>2. n = x
                BY <1>0, <4>1, ByIdHeld DEF JoinsOK, Held
            <4> QED
                BY <1>5, <4>1, <4>2
        <3>5. <<r, h>> # <<q, p>> /\ h # r
            BY <3>3, <3>4 DEF Listens
        <3>6. Carried(h, r)
            BY <2>2, <3>5, TakenCarries
        <3> QED
            BY <1>2, <2>3, <3>1, <3>2, <3>6, WordKept
    <2> QED
        BY <2>3 DEF WordsAgree
<1>6. CASE admits
    <2>1. n \in Names /\ State(p, n) = "hosting"
        BY <1>0, <1>6, ByIdHeld
    <2>2. seated \in OwnInfos(O)
        BY <2>1, EntryParts, RosterOK
    <2>3. /\ Becomes(p, n, "hosting", seated)
          /\ wire' = SendTo(others, p, seated.roster \ {p}, "infos", seated)
        BY <1>1, <1>6
    <2> HIDE DEF told, seated, admits
    <2>4. Streams(told, Words(O))
        BY <1>3, SendToOK DEF told
    <2>5. Streams(others, Words(O))
        BY <1>3, <2>4, SendToOK
    <2>6. [type |-> "infos", body |-> seated] \in Words(O)
        BY <2>2, WordsOf
    <2> HIDE DEF others
    <2>7. ASSUME NEW h \in Peers, NEW r \in Peers, NEW x \in Names, Listens(h, x, r)'
          PROVE  WordOf(h, x, r)'
        <3>1. /\ State(p, n)' = "hosting" /\ InfosAt(p, n)' = seated
              /\ \A y \in Peers, z \in Names : y # p \/ z # n => State(y, z)' = State(y, z)
            BY <2>1, <2>3, EntryWritten
        <3>2. State(h, x)' = "hosting" /\ h \notin twice /\ h # r /\ Connected(r, h)
            BY <2>7 DEF Listens, Connected
        <3>3. State(h, x) = "hosting"
            BY <2>1, <3>1, <3>2
        <3>4. h = p
            BY <2>1, <3>3, OneOwner
        <3>5. x = n
            BY <2>1, <3>2, <3>3, <3>4 DEF JoinsOK, Held
        <3>6. r \in seated.roster \ {p}
            BY <2>7, <3>1, <3>2, <3>4, <3>5 DEF Listens
        <3> DEFINE pr == <<p, r>>
        <3>7. pr \in Pairs /\ pr[1] = p /\ pr[2] = r /\ pr \in up /\ Reads(r, p)
            BY <3>2, <3>4 DEF Pairs, Connected, Reads
        <3> HIDE DEF pr
        <3>8. ~Lacks(wire'[pr], "infos") /\ LastSays(wire'[pr], seated)
            BY <2>3, <2>5, <2>6, <3>6, <3>7, SentWords DEF SameWord
        <3> QED
            BY <3>1, <3>4, <3>5, <3>8 DEF WordOf, pr
    <2> QED
        BY <2>7 DEF WordsAgree
<1> QED
    BY <1>5, <1>6

(* What the host says is what p has then, unless there is more of it to come.   *)
LEMMA OnInfosWords ==
    ASSUME NEW O \in SUBSET Peers, EntriesOK(O), OneSession(O), JoinsOK, WordsAgree,
           NEW p \in Peers, NEW q \in Peers \ {p}, NEW m, m.type = "infos", NEW w,
           Taken(w, p, q, m), OnInfos(p, q, m.body, w), UNCHANGED <<byHand, twice, up, accepting>>
    PROVE  WordsAgree'
<1>0. PICK n : n = ById(p)
    OBVIOUS
<1> DEFINE heeded == Held(p) # {} /\ State(p, n) # "hosting" /\ InfosAt(p, n).owner = q
<1>1. /\ wire' = w
      /\ heeded => Becomes(p, n, State(p, n), m.body) /\ wrote' = wrote \ {<<p, n>>}
      /\ ~heeded => UNCHANGED <<entry, wrote>>
    BY <1>0 DEF OnInfos
<1>2. heeded => n \in Names /\ State(p, n) # "none" /\ State(p, n) # "hosting"
    BY <1>0, ByIdHeld
<1>3. Unsaid(w) /\ Onwards
    BY <1>1, UnsaidSame DEF Onwards
<1>4. ASSUME NEW r \in Peers, NEW x \in Names, heeded => r # p \/ x # n
      PROVE  CopyKept(r, x) /\ HostKept(r, x)
    <2>1. State(r, x)' = State(r, x) /\ InfosAt(r, x)' = InfosAt(r, x)
        BY <1>1, <1>2, <1>4, EntryWritten DEF State, InfosAt
    <2>2. <<r, x>> \in wrote => <<r, x>> \in wrote'
        BY <1>1, <1>4
    <2> QED
        BY <2>1, <2>2, SameKept
<1>5. heeded => InfosAt(p, n)' = m.body /\ State(p, n)' = State(p, n)
    BY <1>1, <1>2, EntryWritten
<1> SUFFICES ASSUME NEW h \in Peers, NEW r \in Peers, NEW x \in Names, Listens(h, x, r)'
             PROVE  WordOf(h, x, r)'
    BY DEF WordsAgree
<1>6. HostKept(h, x)
    BY <1>2, <1>4, <1>5 DEF HostKept
<1>7. Listens(h, x, r) => WordOf(h, x, r)
    BY DEF WordsAgree
<1>8. CASE ~(h = q /\ r = p)
    <2>1. h # r
        BY DEF Listens
    <2>2. <<h, r>> # <<q, p>>
        BY <1>8
    <2>3. Carried(h, r)
        BY <1>3, <2>1, <2>2, TakenCarries
    <2>4. CASE ~(heeded /\ r = p)
        <3>1. \A y \in Names : CopyKept(r, y)
            BY <1>4, <2>4
        <3> QED
            BY <1>3, <1>6, <1>7, <2>3, <3>1, WordKept
    <2>5. CASE heeded /\ r = p
        <3>1. State(h, x) = "hosting"
            BY <1>6 DEF HostKept, Listens
        <3>2. InfosAt(p, n).owner = h
            BY <1>2, <2>5, <3>1, OneOwner
        <3> QED
            BY <1>8, <2>5, <3>2
    <2> QED
        BY <2>4, <2>5
<1>9. CASE h = q /\ r = p
    <2>1. /\ State(h, x) = "hosting" /\ SameWord(InfosAt(h, x)', InfosAt(h, x))
          /\ Listens(h, x, p)
        <3>1. /\ State(h, x) = "hosting" /\ SameWord(InfosAt(h, x)', InfosAt(h, x))
              /\ InfosAt(h, x)'.roster \subseteq InfosAt(h, x).roster \cup byHand'
            BY <1>6 DEF HostKept, Listens
        <3> QED
            BY <1>9, <3>1 DEF Listens, Connected
    <2>2. LastSays(wire[<<h, p>>], InfosAt(h, x))
        BY <1>7, <1>9, <2>1 DEF WordOf
    <2> DEFINE hp == <<h, p>>  a == InfosAt(h, x)  b == InfosAt(h, x)'
    <2>3. hp \in Pairs /\ hp = <<q, p>> /\ <<p, q>> \in up
        BY <1>9, <2>1 DEF Pairs, Listens, Connected
    <2> HIDE DEF hp
    <2>4. LastSays(wire[hp], a)
        BY <2>2 DEF hp
    <2>5. LastSays(w[hp], a) /\ (Lacks(w[hp], "infos") => SameWord(m.body, a))
        BY <2>3, <2>4 DEF Taken
    <2>6. LastSays(wire'[hp], b)
        <3> HIDE DEF a, b
        <3>1. SameWord(b, a)
            BY <2>1 DEF a, b
        <3> QED
            BY <1>1, <2>5, <3>1, SaysSame
    <2>7. ASSUME NEW y \in Names, p \notin twice', State(p, y)' # "none",
                 Lacks(wire'[hp], "infos")
          PROVE  SameWord(InfosAt(p, y)', b)
        <3>1. heeded
            <4> SUFFICES ASSUME ~heeded PROVE FALSE
                OBVIOUS
            <4>1. State(p, y) # "none"
                BY <1>1, <2>7 DEF State
            <4>2. Held(p) # {} /\ n = y
                BY <1>0, <2>7, <4>1, ByIdHeld DEF Held, JoinsOK
            <4>3. InfosAt(p, y).owner = h /\ (State(p, y) = "hosting" => p = h)
                BY <2>1, <4>1, OneOwner
            <4> QED
                BY <1>9, <4>2, <4>3
        <3>2. y = n
            <4>1. State(p, y) # "none"
                BY <1>1, <1>2, <1>5, <2>7, <3>1, EntryWritten
            <4> QED
                BY <1>2, <2>7, <3>1, <4>1 DEF JoinsOK, Held
        <3>3. SameWord(m.body, a)
            BY <1>1, <2>5, <2>7
        <3> QED
            BY <1>5, <2>1, <3>1, <3>2, <3>3 DEF SameWord
    <2>8. LastSays(wire'[<<h, p>>], b)
        BY <2>6 DEF hp
    <2>9. \A y \in Names : p \notin twice' /\ State(p, y)' # "none" /\ Lacks(wire'[<<h, p>>], "infos")
            => SameWord(InfosAt(p, y)', b)
        BY <2>7 DEF hp
    <2> QED
        BY <1>9, <2>8, <2>9 DEF WordOf
<1> QED
    BY <1>8, <1>9

LEMMA OnNetworkMessageWords ==
    ASSUME NEW O \in SUBSET Peers, EntriesOK(O), OneSession(O), JoinsOK, WordsAgree,
           NEW p \in Peers, NEW q \in Peers \ {p}, NEW m \in Words(O), NEW w,
           Streams(w, Words(O)), Taken(w, p, q, m), OnNetworkMessage(p, q, m, w),
           UNCHANGED <<up, accepting>>
    PROVE  WordsAgree'
<1>1. UNCHANGED <<byHand, twice>>
    BY DEF OnNetworkMessage
<1>2. CASE m.type = "search"
    <2>1. OnSearch(p, q, m.body, w) /\ m.body \in [id : Nat, target : Peers \cup {None}]
        BY <1>2 DEF OnNetworkMessage, Words
    <2> DEFINE answer == [id |-> m.body.id, sessions |-> Hosted(p, m.body.target)]
    <2>2. wire' = SendTo(w, p, {q}, "found", answer) /\ UNCHANGED <<entry, wrote>>
        BY <2>1 DEF OnSearch
    <2>3. [type |-> "found", body |-> answer] \in Words(O)
        BY <2>1, HostedOK, WordsOf
    <2> HIDE DEF answer
    <2>4. Unsaid(w)
        BY <2>2, <2>3, UnsaidSent
    <2> QED
        BY <1>1, <1>2, <2>2, <2>4, EntriesKept, HeardWords
<1>3. CASE m.type = "found"
    <2>1. wire' = w /\ UNCHANGED <<entry, wrote>>
        BY <1>3 DEF OnNetworkMessage, OnFound
    <2> QED
        BY <1>1, <1>3, <2>1, UnsaidSame, EntriesKept, HeardWords
<1>4. CASE m.type = "request"
    BY <1>1, <1>4, OnRequestWords DEF OnNetworkMessage
<1>5. CASE m.type = "response"
    <2>1. OnResponse(p, q, m.body, w)
        BY <1>5 DEF OnNetworkMessage
    <2>2. Unsaid(w)
        BY <2>1, UnsaidSame DEF OnResponse
    <2> QED
        BY <1>1, <1>5, <2>1, <2>2, OnResponseEntries, HeardWords
<1>6. CASE m.type = "infos"
    BY <1>1, <1>6, OnInfosWords DEF OnNetworkMessage
<1>7. CASE m.type = "destroy"
    <2>1. OnDestroy(p, q, w)
        BY <1>7 DEF OnNetworkMessage
    <2>2. Unsaid(w)
        BY <2>1, UnsaidSame DEF OnDestroy
    <2> QED
        BY <1>1, <1>7, <2>1, <2>2, OnDestroyEntries, HeardWords
<1>8. CASE m.type \in {"register", "unregister"}
    <2>1. OnRegister(p, q, m.body, w) \/ OnUnregister(p, q, m.body, w)
        BY <1>8 DEF OnNetworkMessage
    <2>2. Unsaid(w)
        BY <2>1, UnsaidSame DEF OnRegister, OnUnregister
    <2> QED
        BY <1>1, <1>8, <2>1, <2>2, OnSeatsEntries, HeardWords
<1> QED
    BY <1>2, <1>3, <1>4, <1>5, <1>6, <1>7, <1>8 DEF OnNetworkMessage

-----------------------------------------------------------------------------
(* The mesh.                                                               *)

LEMMA DeliverWords ==
    ASSUME NEW O \in SUBSET Peers, Typed(O), JoinsOK, WordsAgree, NEW p \in Peers,
           NEW q \in Peers \ {p}, Deliver(p, q)
    PROVE  WordsAgree'
<1> DEFINE qp == <<q, p>>
           m == Head(wire[qp])
           w == [wire EXCEPT ![qp] = Tail(@)]
<1>1. LinkTyped(Words(O)) /\ wire[qp] # <<>> /\ m # Eof
    BY DEF Typed, Deliver
<1>2. /\ m \in Words(O) /\ Streams(w, Words(O))
      /\ \A pq \in Pairs \ {qp} : w[pq] = wire[pq]
    BY <1>1, ReadOK
<1>3. OnNetworkMessage(p, q, m, w) /\ UNCHANGED <<up, accepting>>
    BY DEF Deliver
<1>4. qp \in Pairs /\ wire[qp] \in Seq(Words(O) \cup {Eof}) /\ w[qp] = Tail(wire[qp])
    BY <1>1 DEF Pairs, LinkTyped, Streams
<1>5. /\ \A t : Lacks(w[qp], t) /\ m.type # t => Lacks(wire[qp], t)
      /\ \A infos : LastSays(wire[qp], infos) => LastSays(w[qp], infos)
      /\ \A infos : LastSays(wire[qp], infos) /\ m.type = "infos" /\ Lacks(w[qp], "infos")
                      => SameWord(m.body, infos)
    BY <1>1, <1>4, WordRead
<1>6. Taken(w, p, q, m)
    <2> SUFFICES ASSUME NEW pq \in Pairs
                 PROVE  /\ \A infos : LastSays(wire[pq], infos) => LastSays(w[pq], infos)
                        /\ \A t : Lacks(w[pq], t) /\ (pq = qp => m.type # t) => Lacks(wire[pq], t)
                        /\ pq = qp /\ <<p, q>> \in up /\ m.type = "infos" /\ Lacks(w[pq], "infos")
                             => \A infos : LastSays(wire[pq], infos) => SameWord(m.body, infos)
        BY DEF Taken
    <2> HIDE DEF qp, m, w
    <2>1. CASE pq = qp
        BY <1>5, <2>1
    <2>2. CASE pq # qp
        BY <1>2, <2>2
    <2> QED
        BY <2>1, <2>2
<1> HIDE DEF m, w
<1> QED
    BY <1>2, <1>3, <1>6, OnNetworkMessageWords DEF Typed

LEMMA DeliverLateWords ==
    ASSUME NEW O \in SUBSET Peers, Typed(O), JoinsOK, WordsAgree, LateApart, NEW p \in Peers,
           DeliverLate(p)
    PROVE  WordsAgree'
<1> DEFINE q == Head(late[p]).from
           m == Head(late[p]).msg
<1>1. LinkTyped(Words(O)) /\ late[p] # <<>> /\ Streams(wire, Words(O))
    BY DEF Typed, LinkTyped, DeliverLate
<1>2. q \in Peers \ {p} /\ m \in Words(O)
    BY <1>1, ReadLateOK
<1>3. OnNetworkMessage(p, q, m, wire) /\ UNCHANGED <<up, accepting>>
    BY DEF DeliverLate
<1>4. <<p, q>> \notin up
    <2>1. Head(late[p]) = late[p][1] /\ 1 \in DOMAIN late[p]
        BY <1>1, HeadTailProperties, LenProperties DEF LinkTyped
    <2> QED
        BY <2>1 DEF LateApart
<1> HIDE DEF q, m
<1>5. Taken(wire, p, q, m)
    BY <1>4 DEF Taken
<1> QED
    BY <1>1, <1>2, <1>3, <1>5, OnNetworkMessageWords DEF Typed

LEMMA LoseOrBreakWords ==
    ASSUME NEW O \in SUBSET Peers, Typed(O), WordsAgree, NEW p \in Peers,
           NEW q \in Peers \ {p}, NEW n, OnPeerDisconnected(p, q, n)
    PROVE  WordsAgree'
<1>1. DropPeer(p, q, n, wire) /\ UNCHANGED <<byHand, wrote, twice>>
    BY DEF OnPeerDisconnected, history
<1>2. /\ up' = up \ {<<p, q>>}
      /\ \A pq \in Pairs : {pq[1], pq[2]} # {p, q} => wire'[pq] = wire[pq]
    <2>1. Streams(wire, Words(O)) /\ q \in Peers
        BY DEF Typed, LinkTyped
    <2> QED
        BY <1>1, <2>1, DropElsewhere
<1>3. ASSUME NEW r \in Peers, NEW x \in Names
      PROVE  CopyKept(r, x) /\ HostKept(r, x)
    <2>1. CASE r # p
        <3>1. State(r, x)' = State(r, x) /\ InfosAt(r, x)' = InfosAt(r, x)
            BY <2>1 DEF OnPeerDisconnected, State, InfosAt, Typed, EntriesOK
        <3> QED
            BY <1>1, <3>1, SameKept
    <2>2. CASE r = p
        <3>1. State(p, x)' = State(p, x) /\ InfosAt(p, x)' = Unseat(InfosAt(p, x), q)
            BY DEF OnPeerDisconnected, State, InfosAt, Typed, EntriesOK
        <3>2. State(p, x) # "none" => /\ SameWord(Unseat(InfosAt(p, x), q), InfosAt(p, x))
                                      /\ Unseat(InfosAt(p, x), q).roster \subseteq InfosAt(p, x).roster
            BY EntryParts, RosterWord DEF Typed
        <3> QED
            BY <1>1, <2>2, <3>1, <3>2 DEF CopyKept, HostKept
    <2> QED
        BY <2>1, <2>2
<1>4. ASSUME NEW h \in Peers, NEW r \in Peers, h # r, Connected(r, h)'
      PROVE  Carried(h, r)
    <2> DEFINE hr == <<h, r>>  rh == <<r, h>>
    <2>1. hr \in Pairs /\ rh \in Pairs /\ hr[1] = h /\ hr[2] = r /\ rh[1] = r /\ rh[2] = h
        BY <1>4 DEF Pairs
    <2>2. {h, r} # {p, q}
        BY <1>2, <1>4 DEF Connected
    <2> HIDE DEF hr, rh
    <2>3. wire'[hr] = wire[hr] /\ wire'[rh] = wire[rh]
        BY <1>2, <2>1, <2>2
    <2> QED
        BY <2>3, CarriedSame DEF hr, rh
<1> QED
    BY <1>1, <1>2, <1>3, <1>4, WordsKept DEF Onwards

LEMMA CrashWords ==
    ASSUME NEW O \in SUBSET Peers, Typed(O), WordsAgree, NEW p \in Peers, Crash(p)
    PROVE  WordsAgree'
<1>1. /\ up' = {pq \in up : pq[1] # p}
      /\ \A pq \in Pairs : p \notin {pq[1], pq[2]} => wire'[pq] = wire[pq]
    BY VanishElsewhere DEF Crash
<1>2. Onwards
    BY <1>1 DEF Onwards, Crash
<1>3. ASSUME NEW r \in Peers, NEW x \in Names
      PROVE  CopyKept(r, x) /\ HostKept(r, x)
    <2>1. CASE r # p
        <3>1. State(r, x)' = State(r, x) /\ InfosAt(r, x)' = InfosAt(r, x)
            BY <2>1 DEF Crash, State, InfosAt, Typed, EntriesOK
        <3>2. <<r, x>> \in wrote => <<r, x>> \in wrote'
            BY <2>1 DEF Crash
        <3> QED
            BY <3>1, <3>2, SameKept
    <2>2. CASE r = p
        <3>1. State(p, x)' = "none"
            BY AbsentOK DEF Crash, State, Typed, EntriesOK
        <3> QED
            BY <2>2, <3>1 DEF CopyKept, HostKept
    <2> QED
        BY <2>1, <2>2
<1>4. ASSUME NEW h \in Peers, NEW r \in Peers, h # r, Connected(r, h)'
      PROVE  Carried(h, r)
    <2> DEFINE hr == <<h, r>>  rh == <<r, h>>
    <2>1. hr \in Pairs /\ rh \in Pairs /\ hr[1] = h /\ hr[2] = r /\ rh[1] = r /\ rh[2] = h
        BY <1>4 DEF Pairs
    <2>2. h # p /\ r # p
        BY <1>1, <1>4, <2>1 DEF Connected
    <2> HIDE DEF hr, rh
    <2>3. wire'[hr] = wire[hr] /\ wire'[rh] = wire[rh]
        BY <1>1, <2>1, <2>2
    <2> QED
        BY <2>3, CarriedSame DEF hr, rh
<1> QED
    BY <1>2, <1>3, <1>4, WordsKept

-----------------------------------------------------------------------------
(* The invariant.                                                          *)

LEMMA LateKept ==
    ASSUME LateApart, UNCHANGED late, up' \subseteq up
    PROVE  LateApart'
    BY DEF LateApart

LEMMA LateShorter ==
    ASSUME NEW O, Typed(O), LateApart, NEW p \in Peers, late[p] # <<>>,
           late' = [late EXCEPT ![p] = Tail(@)], UNCHANGED up
    PROVE  LateApart'
<1> DEFINE rest == Tail(late[p])
<1>1. \A i \in DOMAIN rest : \E j \in DOMAIN late[p] : rest[i] = late[p][j]
    <2>1. /\ Len(late[p]) \in Nat \ {0} /\ DOMAIN late[p] = 1 .. Len(late[p])
          /\ DOMAIN rest = 1 .. Len(late[p]) - 1
          /\ \A i \in 1 .. Len(late[p]) - 1 : rest[i] = late[p][i + 1]
        BY HeadTailProperties, LenProperties DEF Typed, LinkTyped
    <2> QED
        BY <2>1
<1>2. late'[p] = rest /\ \A r \in Peers : r # p => late'[r] = late[r]
    BY DEF Typed, LinkTyped
<1> HIDE DEF rest
<1>3. ASSUME NEW r \in Peers, NEW i \in DOMAIN late'[r]
      PROVE  \E j \in DOMAIN late[r] : late'[r][i] = late[r][j]
    <2>1. CASE r = p
        BY <1>1, <1>2, <1>3, <2>1
    <2>2. CASE r # p
        BY <1>2, <1>3, <2>2
    <2> QED
        BY <2>1, <2>2
<1>4. ASSUME NEW r \in Peers, NEW i \in DOMAIN late'[r]
      PROVE  <<r, late'[r][i].from>> \notin up'
    <2>1. PICK j \in DOMAIN late[r] : late'[r][i] = late[r][j]
        BY <1>3
    <2>2. <<r, late[r][j].from>> \notin up
        BY DEF LateApart
    <2> QED
        BY <2>1, <2>2
<1> QED
    BY <1>4 DEF LateApart

LEMMA LateDropped ==
    ASSUME NEW O, Typed(O), LateApart, NEW p \in Peers, NEW q, NEW n \in Nat, NEW w,
           DropPeer(p, q, n, w)
    PROVE  LateApart'
<1> DEFINE read == [i \in 1 .. n |-> [from |-> q, msg |-> wire[<<q, p>>][i]]]
<1>1. late' = [late EXCEPT ![p] = read] /\ up' = up \ {<<p, q>>}
    BY DEF DropPeer
<1>2. \A i \in DOMAIN read : read[i].from = q
    OBVIOUS
<1> HIDE DEF read
<1>3. late'[p] = read /\ \A r \in Peers : r # p => late'[r] = late[r]
    BY <1>1 DEF Typed, LinkTyped
<1> QED
    BY <1>1, <1>2, <1>3 DEF LateApart

LEMMA LateVanished ==
    ASSUME NEW O, Typed(O), LateApart, NEW p \in Peers, Vanish(p)
    PROVE  LateApart'
<1>1. late' = [late EXCEPT ![p] = <<>>] /\ up' \subseteq up
    BY DEF Vanish
<1>2. ASSUME NEW r \in Peers, NEW i \in DOMAIN late'[r]
      PROVE  i \in DOMAIN late[r] /\ late'[r][i] = late[r][i]
    BY <1>1 DEF Typed, LinkTyped
<1> QED
    BY <1>1, <1>2 DEF LateApart

WordsOK == IInv /\ WordsAgree /\ LateApart

LEMMA WordsInit == Init => WordsOK
<1> SUFFICES ASSUME Init PROVE WordsOK
    OBVIOUS
<1>1. IInv
    BY InitOK
<1>2. LateApart
    BY DEF Init, LinkInitMet, LateApart
<1>3. ASSUME NEW h \in Peers, NEW p \in Peers, NEW x \in Names, Listens(h, x, p)
      PROVE  WordOf(h, x, p)
    <2>1. PICK formed \in Formed \cup {<<Min(Names), NoInfos>>} :
            entry = [r \in Peers |-> [n \in Names |->
                        IF n # formed[1] \/ r \notin formed[2].roster THEN Absent
                        ELSE [state |-> IF r = formed[2].owner THEN "hosting" ELSE "joined",
                              infos |-> formed[2]]]]
        BY DEF Init
    <2>2. \A r \in Peers, n \in Names : State(r, n) # "none" => InfosAt(r, n) = formed[2]
        BY <2>1 DEF State, InfosAt, Absent
    <2>3. State(h, x) # "none"
        BY <1>3 DEF Listens
    <2>4. \A n \in Names : State(p, n) # "none" => SameWord(InfosAt(p, n), InfosAt(h, x))
        BY <2>2, <2>3 DEF SameWord
    <2> DEFINE hp == <<h, p>>
    <2>5. hp \in Pairs
        BY <1>3 DEF Listens, Pairs
    <2>6. wire[hp] = <<>>
        BY <2>5 DEF Init, LinkInitMet
    <2>7. LastSays(wire[hp], InfosAt(h, x))
        BY <2>6 DEF LastSays
    <2> QED
        BY <2>4, <2>7 DEF WordOf
<1> QED
    BY <1>1, <1>2, <1>3 DEF WordsOK, WordsAgree

LEMMA WordsInductive == WordsOK /\ [Next]_vars => WordsOK'
<1> SUFFICES ASSUME WordsOK, [Next]_vars PROVE WordsOK'
    OBVIOUS
<1>1. IInv'
    BY Inductive DEF WordsOK
<1>2. PICK O \in SUBSET Peers : Typed(O)
    BY DEF WordsOK, IInv
<1>3. JoinsOK /\ WordsAgree /\ LateApart
    BY DEF WordsOK, IInv
<1>4. CASE UNCHANGED vars
    <2>1. UNCHANGED <<entry, byHand, wrote, twice, up, wire, late>>
        BY <1>4 DEF vars, history, linkVars
    <2> QED
        BY <1>1, <1>3, <2>1, QuietWords, LateKept DEF WordsOK
<1>5. ASSUME NEW p \in Peers, Game(p)
      PROVE  WordsAgree' /\ LateApart'
    <2>1. UNCHANGED <<late, up>>
        BY <1>5 DEF Game, CreateSession, UpdateSession, StartSession, EndSession, Write,
             RegisterPlayers, UnregisterPlayers, ChangeSeats, JoinSession, DestroySession,
             SearchFind, SearchCopyResult, SearchRelease, linkVars
    <2>2. LateApart'
        BY <1>3, <2>1, LateKept
    <2>3. CASE SearchCopyResult(p) \/ SearchRelease(p)
        <3>1. UNCHANGED <<entry, byHand, wrote, twice, up, wire>>
            BY <2>3 DEF SearchCopyResult, SearchRelease, history, linkVars
        <3> QED
            BY <1>3, <2>2, <3>1, QuietWords
    <2>4. CASE ~(SearchCopyResult(p) \/ SearchRelease(p))
        <3>1. WordsAgree'
            BY <1>2, <1>3, <1>5, <2>4, CreateWords, WritesWords, SeatsWords, JoinWords,
               DestroyWords, SearchFindWords DEF Game
        <3> QED
            BY <2>2, <3>1
    <2> QED
        BY <2>3, <2>4
<1>6. ASSUME NEW p \in Peers, Tick(p)
      PROVE  WordsAgree' /\ LateApart'
    <2>1. UNCHANGED <<late, up>>
        BY <1>6 DEF Tick, SearchOver, JoinAnswered, JoinTimedOut, linkVars
    <2>2. LateApart'
        BY <1>3, <2>1, LateKept
    <2>3. CASE SearchOver(p) \/ \E i \in DOMAIN pending[p] : JoinAnswered(p, i)
        <3>1. UNCHANGED <<entry, byHand, wrote, twice, up, wire>>
            BY <2>3 DEF SearchOver, JoinAnswered, history, linkVars
        <3> QED
            BY <1>3, <2>2, <3>1, QuietWords
    <2>4. CASE \E i \in DOMAIN pending[p] : JoinTimedOut(p, i)
        BY <1>2, <1>3, <2>2, <2>4, JoinTimedOutWords
    <2> QED
        BY <1>6, <2>3, <2>4 DEF Tick
<1>7. ASSUME NEW p \in Peers, Mesh(p)
      PROVE  WordsAgree' /\ LateApart'
    <2>1. ASSUME NEW q \in Peers \ {p}, Deliver(p, q)
          PROVE  WordsAgree' /\ LateApart'
        <3>1. UNCHANGED <<late, up>>
            BY <2>1 DEF Deliver
        <3> QED
            BY <1>2, <1>3, <2>1, <3>1, DeliverWords, LateKept
    <2>2. CASE DeliverLate(p)
        <3>1. late[p] # <<>> /\ late' = [late EXCEPT ![p] = Tail(@)] /\ UNCHANGED up
            BY <2>2 DEF DeliverLate
        <3> QED
            BY <1>2, <1>3, <2>2, <3>1, DeliverLateWords, LateShorter
    <2>3. ASSUME NEW q \in Peers \ {p}, NEW n \in 0 .. Len(wire[<<q, p>>]),
                 Lose(p, q, n) \/ Break(p, q, n)
          PROVE  WordsAgree' /\ LateApart'
        <3>1. OnPeerDisconnected(p, q, n) /\ DropPeer(p, q, n, wire) /\ n \in Nat
            BY <2>3 DEF Lose, Break, OnPeerDisconnected
        <3> QED
            BY <1>2, <1>3, <3>1, LoseOrBreakWords, LateDropped
    <2>4. CASE Crash(p)
        <3>1. Vanish(p)
            BY <2>4 DEF Crash
        <3> QED
            BY <1>2, <1>3, <2>4, <3>1, CrashWords, LateVanished
    <2> QED
        BY <1>7, <2>1, <2>2, <2>3, <2>4 DEF Mesh
<1> QED
    BY <1>1, <1>4, <1>5, <1>6, <1>7 DEF Next, WordsOK

LEMMA WordsInvariance == Spec => []WordsOK
    BY WordsInit, WordsInductive, PTL DEF Spec

(* Once nothing is under way, whoever the host has on its roster has the       *)
(* settings and the phase of the match as the host has them, whatever was     *)
(* lost, crossed or dispatched late, unless its own game wrote over them or a *)
(* game seated it by hand (broadcast_session and everything that calls it).   *)
THEOREM HostsWordHolds == Spec => []HostsWord
<1>1. WordsOK => HostsWord
    <2> SUFFICES ASSUME WordsOK, Settled, NEW h \in Hosts \ twice, NEW p \in Peers \ twice,
                        NEW n \in Names, State(p, n) = "joined", Connected(p, h),
                        p \in HostInfos(h).roster \ byHand, <<p, n>> \notin wrote
                 PROVE  [InfosAt(p, n) EXCEPT !.roster = {}] = [HostInfos(h) EXCEPT !.roster = {}]
        BY DEF HostsWord
    <2>1. PICK O \in SUBSET Peers : Typed(O)
        BY DEF WordsOK, IInv
    <2>2. PICK x \in Names : State(h, x) = "hosting" /\ HostInfos(h) = InfosAt(h, x)
        BY DEF Hosts, HostInfos
    <2>3. h \in Peers
        BY DEF Hosts
    <2>4. h # p
        BY <2>2, <2>3 DEF WordsOK, IInv, JoinsOK, Held
    <2>5. Listens(h, x, p)
        BY <2>2, <2>4 DEF Listens
    <2>6. WordOf(h, x, p)
        BY <2>3, <2>5 DEF WordsOK, WordsAgree
    <2> DEFINE hp == <<h, p>>  ph == <<p, h>>
    <2>7. hp \in Pairs /\ ph \in Pairs
        BY <2>3, <2>4 DEF Pairs
    <2> HIDE DEF hp, ph
    <2>8. Lacks(wire[hp], "infos") /\ Lacks(wire[ph], "request")
        <3>1. wire[hp] = <<>> /\ wire[ph] = <<>>
            BY <2>7 DEF Settled
        <3> QED
            BY <3>1 DEF Lacks
    <2>9. SameWord(InfosAt(p, n), InfosAt(h, x))
        BY <2>6, <2>8 DEF WordOf, hp, ph
    <2>10. InfosAt(p, n) \in Infos /\ InfosAt(h, x) \in Infos
        BY <2>1, <2>2, <2>3, EntryParts, OwnInfosParts DEF Typed
    <2>11. ASSUME NEW a \in Infos, NEW b \in Infos, SameWord(a, b)
           PROVE  [a EXCEPT !.roster = {}] = [b EXCEPT !.roster = {}]
        BY <2>11 DEF Infos, SameWord
    <2> QED
        BY <2>2, <2>9, <2>10, <2>11
<1> QED
    BY <1>1, WordsInvariance, PTL

-----------------------------------------------------------------------------
(* The seats.                                                              *)

Leave(p, m) == m.type = "unregister" /\ m.body = p
Verdict(p, m) == m.type = "response" /\ m.body.player = p

(* What p has asked of the host: to be let in, at most once at a time, and     *)
(* whether the last it said was that, or that it leaves.                     *)
Asked(s) == \E i \in DOMAIN s : s[i].type = "request"
OneAsk(s) ==
    \A i, j \in DOMAIN s : s[i].type = "request" /\ s[j].type = "request" => i = j
Asking(p, s) ==
    \E i \in DOMAIN s : s[i].type = "request" /\ \A j \in DOMAIN s : Leave(p, s[j]) => j < i
Leaving(p, s) ==
    \E i \in DOMAIN s : Leave(p, s[i]) /\ \A j \in DOMAIN s : s[j].type = "request" => j < i

(* What p has yet to hear of it: the verdict, and the end of the session.      *)
Judged(p, r) == \E i \in DOMAIN r : Verdict(p, r[i])
OneVerdict(p, r) == \A i, j \in DOMAIN r : Verdict(p, r[i]) /\ Verdict(p, r[j]) => i = j
Granted(p, r) == \E i \in DOMAIN r : Verdict(p, r[i]) /\ r[i].body.ok
Ended(r) == \E i \in DOMAIN r : r[i].type = "destroy"
Outlived(p, r) ==
    \E i \in DOMAIN r : /\ Verdict(p, r[i]) /\ r[i].body.ok
                        /\ \A j \in DOMAIN r : r[j].type = "destroy" => j < i

(* Two streams say the same of it.                                           *)
SameAsks(p, s, t) ==
    /\ Asked(t) <=> Asked(s)
    /\ OneAsk(t) <=> OneAsk(s)
    /\ Asking(p, t) <=> Asking(p, s)
    /\ Leaving(p, t) <=> Leaving(p, s)

SameVerdicts(p, r, t) ==
    /\ Judged(p, t) <=> Judged(p, r)
    /\ OneVerdict(p, t) <=> OneVerdict(p, r)
    /\ Granted(p, t) <=> Granted(p, r)
    /\ Ended(t) <=> Ended(r)
    /\ Outlived(p, t) <=> Outlived(p, r)

LEMMA Appended ==
    ASSUME NEW W, NEW s \in Seq(W), NEW m \in W
    PROVE  /\ Len(s) \in Nat /\ DOMAIN s = 1 .. Len(s) /\ DOMAIN (s \o <<m>>) = 1 .. Len(s) + 1
           /\ \A i \in 1 .. Len(s) : (s \o <<m>>)[i] = s[i]
           /\ (s \o <<m>>)[Len(s) + 1] = m
<1>1. <<m>> \in Seq(W) /\ Len(<<m>>) = 1 /\ <<m>>[1] = m
    OBVIOUS
<1>2. s \o <<m>> \in Seq(W) /\ Len(s \o <<m>>) = Len(s) + 1
    BY <1>1, ConcatProperties
<1> QED
    BY <1>1, <1>2, ConcatProperties, LenProperties

LEMMA Beheaded ==
    ASSUME NEW W, NEW s \in Seq(W), s # <<>>
    PROVE  /\ Len(s) \in Nat \ {0} /\ DOMAIN s = 1 .. Len(s) /\ DOMAIN Tail(s) = 1 .. Len(s) - 1
           /\ \A i \in 1 .. Len(s) - 1 : Tail(s)[i] = s[i + 1]
           /\ s[1] = Head(s)
    BY HeadTailProperties, LenProperties

LEMMA AsksSent ==
    ASSUME NEW W, NEW s \in Seq(W), NEW m \in W, NEW p
    PROVE  LET t == s \o <<m>>
           IN  /\ m.type # "request" /\ ~Leave(p, m) => SameAsks(p, s, t)
               /\ m.type = "request" /\ ~Asked(s)
                    => Asked(t) /\ OneAsk(t) /\ Asking(p, t) /\ ~Leaving(p, t)
               /\ Leave(p, m) => /\ Asked(t) <=> Asked(s)
                                 /\ OneAsk(t) <=> OneAsk(s)
                                 /\ ~Asking(p, t) /\ Leaving(p, t)
<1> DEFINE t == s \o <<m>>
<1>1. /\ Len(s) \in Nat /\ DOMAIN s = 1 .. Len(s) /\ DOMAIN t = 1 .. Len(s) + 1
      /\ \A i \in 1 .. Len(s) : t[i] = s[i]
      /\ t[Len(s) + 1] = m
    BY Appended
<1> HIDE DEF t
<1>2. /\ \A i \in DOMAIN s : i \in DOMAIN t /\ t[i] = s[i] /\ i < Len(s) + 1
      /\ \A i \in DOMAIN t : i \in DOMAIN s \/ i = Len(s) + 1
      /\ Len(s) + 1 \in DOMAIN t /\ Len(s) + 1 \notin DOMAIN s
      /\ DOMAIN s \subseteq Nat /\ Len(s) \in Nat
    BY <1>1
<1> DEFINE last == Len(s) + 1
<1>3. t[last] = m /\ last \in Nat
    BY <1>1
<1> HIDE DEF last
<1>4. ASSUME m.type # "request", ~Leave(p, m)
      PROVE  SameAsks(p, s, t)
    <2>1. /\ Asked(t) <=> Asked(s)
          /\ OneAsk(t) <=> OneAsk(s)
        BY <1>2, <1>3, <1>4 DEF Asked, OneAsk, last
    <2>2. Asking(p, t) <=> Asking(p, s)
        BY <1>2, <1>3, <1>4 DEF Asking, last
    <2>3. Leaving(p, t) <=> Leaving(p, s)
        BY <1>2, <1>3, <1>4 DEF Leaving, last
    <2> QED
        BY <2>1, <2>2, <2>3 DEF SameAsks
<1>5. ASSUME m.type = "request", ~Asked(s)
      PROVE  Asked(t) /\ OneAsk(t) /\ Asking(p, t) /\ ~Leaving(p, t)
    <2>1. Asked(t) /\ OneAsk(t)
        BY <1>2, <1>3, <1>5 DEF Asked, OneAsk, last
    <2>2. Asking(p, t) /\ ~Leaving(p, t)
        BY <1>2, <1>3, <1>5 DEF Asking, Leaving, Leave, last
    <2> QED
        BY <2>1, <2>2
<1>6. ASSUME Leave(p, m)
      PROVE  /\ Asked(t) <=> Asked(s)
             /\ OneAsk(t) <=> OneAsk(s)
             /\ ~Asking(p, t) /\ Leaving(p, t)
    <2>1. /\ Asked(t) <=> Asked(s)
          /\ OneAsk(t) <=> OneAsk(s)
        BY <1>2, <1>3, <1>6 DEF Asked, OneAsk, Leave, last
    <2>2. ~Asking(p, t) /\ Leaving(p, t)
        BY <1>2, <1>3, <1>6 DEF Asking, Leaving, Leave, last
    <2> QED
        BY <2>1, <2>2
<1> QED
    BY <1>4, <1>5, <1>6 DEF t

LEMMA AsksRead ==
    ASSUME NEW W, NEW s \in Seq(W), s # <<>>, NEW p
    PROVE  LET t == Tail(s)
               m == Head(s)
           IN  /\ m.type # "request" /\ ~Leave(p, m) => SameAsks(p, s, t)
               /\ m.type = "request" /\ OneAsk(s)
                    => /\ Asked(s) /\ ~Asked(t) /\ OneAsk(t) /\ ~Asking(p, t)
                       /\ Leaving(p, t) <=> Leaving(p, s)
                       /\ Asking(p, s) \/ Leaving(p, s)
               /\ Leave(p, m) /\ OneAsk(s)
                    => /\ Asked(t) <=> Asked(s)
                       /\ OneAsk(t)
                       /\ Asking(p, t) <=> Asking(p, s)
                       /\ Leaving(p, t) => Leaving(p, s)
                       /\ Asking(p, s) \/ Leaving(p, s)
<1> DEFINE t == Tail(s)  m == Head(s)
<1>1. /\ Len(s) \in Nat \ {0} /\ DOMAIN s = 1 .. Len(s) /\ DOMAIN t = 1 .. Len(s) - 1
      /\ \A i \in 1 .. Len(s) - 1 : t[i] = s[i + 1]
      /\ s[1] = m
    BY Beheaded
<1> HIDE DEF t, m
<1>2. \A i \in DOMAIN t : i \in Nat /\ i + 1 \in DOMAIN s /\ i + 1 # 1 /\ t[i] = s[i + 1]
    BY <1>1
<1>3. ASSUME NEW i \in DOMAIN s, i # 1
      PROVE  i - 1 \in DOMAIN t /\ t[i - 1] = s[i] /\ i > 1
    <2>1. i - 1 \in 1 .. Len(s) - 1 /\ (i - 1) + 1 = i /\ i > 1
        BY <1>1, <1>3
    <2> QED
        BY <1>1, <2>1
<1>4. DOMAIN s \subseteq Nat /\ 1 \in DOMAIN s
    BY <1>1
<1>5. Asked(t) => Asked(s)
    BY <1>2 DEF Asked
<1>6. OneAsk(s) => OneAsk(t)
    <2> SUFFICES ASSUME OneAsk(s), NEW i \in DOMAIN t, NEW j \in DOMAIN t,
                        t[i].type = "request", t[j].type = "request"
                 PROVE  i = j
        BY DEF OneAsk
    <2>1. i + 1 = j + 1
        BY <1>2 DEF OneAsk
    <2> QED
        BY <1>2, <2>1
<1>7. ASSUME m.type # "request"
      PROVE  /\ Asked(s) => Asked(t)
             /\ OneAsk(t) => OneAsk(s)
    <2>1. Asked(s) => Asked(t)
        BY <1>1, <1>3, <1>7 DEF Asked
    <2>2. ASSUME OneAsk(t), NEW i \in DOMAIN s, NEW j \in DOMAIN s,
                 s[i].type = "request", s[j].type = "request"
          PROVE  i = j
        <3>1. i - 1 \in DOMAIN t /\ t[i - 1] = s[i] /\ j - 1 \in DOMAIN t /\ t[j - 1] = s[j]
            BY <1>1, <1>3, <1>7, <2>2
        <3>2. i - 1 = j - 1
            BY <2>2, <3>1 DEF OneAsk
        <3> QED
            BY <1>4, <3>2
    <2> QED
        BY <2>1, <2>2 DEF OneAsk
<1>8. Asking(p, t) => Asking(p, s)
    <2> SUFFICES ASSUME NEW i \in DOMAIN t, t[i].type = "request",
                        \A j \in DOMAIN t : Leave(p, t[j]) => j < i
                 PROVE  Asking(p, s)
        BY DEF Asking
    <2>1. i + 1 \in DOMAIN s /\ s[i + 1].type = "request" /\ i \in Nat
        BY <1>2
    <2>2. ASSUME NEW j \in DOMAIN s, Leave(p, s[j])
          PROVE  j < i + 1
        <3>1. CASE j = 1
            BY <1>2, <2>1, <3>1
        <3>2. CASE j # 1
            <4>1. j - 1 \in DOMAIN t /\ t[j - 1] = s[j] /\ j \in Nat
                BY <1>3, <1>4, <3>2
            <4>2. j - 1 < i
                BY <2>2, <4>1
            <4> QED
                BY <2>1, <4>1, <4>2
        <3> QED
            BY <3>1, <3>2
    <2> QED
        BY <2>1, <2>2 DEF Asking
<1>9. Leaving(p, t) => Leaving(p, s)
    <2> SUFFICES ASSUME NEW i \in DOMAIN t, Leave(p, t[i]),
                        \A j \in DOMAIN t : t[j].type = "request" => j < i
                 PROVE  Leaving(p, s)
        BY DEF Leaving
    <2>1. i + 1 \in DOMAIN s /\ Leave(p, s[i + 1]) /\ i \in Nat
        BY <1>2
    <2>2. ASSUME NEW j \in DOMAIN s, s[j].type = "request"
          PROVE  j < i + 1
        <3>1. CASE j = 1
            BY <1>2, <2>1, <3>1
        <3>2. CASE j # 1
            <4>1. j - 1 \in DOMAIN t /\ t[j - 1] = s[j] /\ j \in Nat
                BY <1>3, <1>4, <3>2
            <4>2. j - 1 < i
                BY <2>2, <4>1
            <4> QED
                BY <2>1, <4>1, <4>2
        <3> QED
            BY <3>1, <3>2
    <2> QED
        BY <2>1, <2>2 DEF Leaving
<1>10. ASSUME m.type # "request", Asking(p, s)
       PROVE  Asking(p, t)
    <2>1. PICK i \in DOMAIN s : s[i].type = "request" /\ \A j \in DOMAIN s : Leave(p, s[j]) => j < i
        BY <1>10 DEF Asking
    <2>2. i - 1 \in DOMAIN t /\ t[i - 1].type = "request" /\ i \in Nat
        BY <1>1, <1>3, <1>4, <1>10, <2>1
    <2>3. ASSUME NEW j \in DOMAIN t, Leave(p, t[j])
          PROVE  j < i - 1
        <3>1. j + 1 < i /\ j \in Nat
            BY <1>2, <2>1, <2>3
        <3> QED
            BY <2>2, <3>1
    <2> QED
        BY <2>2, <2>3 DEF Asking
<1>11. ASSUME ~Leave(p, m), Leaving(p, s)
       PROVE  Leaving(p, t)
    <2>1. PICK i \in DOMAIN s : Leave(p, s[i]) /\ \A j \in DOMAIN s : s[j].type = "request" => j < i
        BY <1>11 DEF Leaving
    <2>2. i - 1 \in DOMAIN t /\ Leave(p, t[i - 1]) /\ i \in Nat
        BY <1>1, <1>3, <1>4, <1>11, <2>1
    <2>3. ASSUME NEW j \in DOMAIN t, t[j].type = "request"
          PROVE  j < i - 1
        <3>1. j + 1 < i /\ j \in Nat
            BY <1>2, <2>1, <2>3
        <3> QED
            BY <2>2, <3>1
    <2> QED
        BY <2>2, <2>3 DEF Leaving
<1>12. ASSUME OneAsk(s), Asked(s) \/ Leave(p, m)
       PROVE  Asking(p, s) \/ Leaving(p, s)
    <2>1. CASE ~Asked(s)
        BY <1>1, <1>4, <1>12, <2>1 DEF Leaving, Asked
    <2>2. CASE Asked(s)
        <3>1. PICK i \in DOMAIN s : s[i].type = "request"
            BY <2>2 DEF Asked
        <3>2. \A j \in DOMAIN s : s[j].type = "request" => j = i
            BY <1>12, <3>1 DEF OneAsk
        <3>3. CASE \A j \in DOMAIN s : Leave(p, s[j]) => j < i
            BY <3>1, <3>3 DEF Asking
        <3>4. CASE ~ \A j \in DOMAIN s : Leave(p, s[j]) => j < i
            <4>1. PICK j \in DOMAIN s : Leave(p, s[j]) /\ ~(j < i)
                BY <3>4
            <4>2. j # i
                BY <3>1, <4>1 DEF Leave
            <4>3. i < j
                BY <1>4, <4>1, <4>2
            <4> QED
                BY <3>2, <4>1, <4>3 DEF Leaving
        <3> QED
            BY <3>3, <3>4
    <2> QED
        BY <2>1, <2>2
<1>13. ASSUME m.type = "request", OneAsk(s)
       PROVE  Asked(s) /\ ~Asked(t) /\ ~Asking(p, t) /\ ~Leave(p, m)
    <2>1. Asked(s) /\ ~Leave(p, m)
        BY <1>1, <1>4, <1>13 DEF Asked, Leave
    <2>2. ~Asked(t)
        <3> SUFFICES ASSUME NEW i \in DOMAIN t, t[i].type = "request" PROVE FALSE
            BY DEF Asked
        <3>1. i + 1 = 1
            BY <1>1, <1>2, <1>4, <1>13 DEF OneAsk
        <3> QED
            BY <1>2, <3>1
    <2> QED
        BY <2>1, <2>2 DEF Asking, Asked
<1>14. Leave(p, m) => m.type # "request"
    BY DEF Leave
<1>15. m.type # "request" /\ ~Leave(p, m) => SameAsks(p, s, t)
    BY <1>5, <1>6, <1>7, <1>8, <1>9, <1>10, <1>11 DEF SameAsks
<1>16. m.type = "request" /\ OneAsk(s)
         => /\ Asked(s) /\ ~Asked(t) /\ OneAsk(t) /\ ~Asking(p, t)
            /\ Leaving(p, t) <=> Leaving(p, s)
            /\ Asking(p, s) \/ Leaving(p, s)
    BY <1>6, <1>9, <1>11, <1>12, <1>13
<1>17. Leave(p, m) /\ OneAsk(s)
         => /\ Asked(t) <=> Asked(s)
            /\ OneAsk(t)
            /\ Asking(p, t) <=> Asking(p, s)
            /\ Leaving(p, t) => Leaving(p, s)
            /\ Asking(p, s) \/ Leaving(p, s)
    BY <1>5, <1>6, <1>7, <1>8, <1>9, <1>10, <1>12, <1>14
<1> QED
    BY <1>15, <1>16, <1>17 DEF t, m

LEMMA VerdictsSent ==
    ASSUME NEW W, NEW s \in Seq(W), NEW m \in W, NEW p
    PROVE  LET t == s \o <<m>>
           IN  /\ ~Verdict(p, m) /\ m.type # "destroy" => SameVerdicts(p, s, t)
               /\ Verdict(p, m) /\ ~Judged(p, s)
                    => /\ Judged(p, t) /\ OneVerdict(p, t)
                       /\ Granted(p, t) <=> m.body.ok
                       /\ Ended(t) <=> Ended(s)
                       /\ m.body.ok \/ ~Outlived(p, t)
               /\ m.type = "destroy" => /\ Judged(p, t) <=> Judged(p, s)
                                        /\ OneVerdict(p, t) <=> OneVerdict(p, s)
                                        /\ Ended(t) /\ ~Outlived(p, t)
<1> DEFINE t == s \o <<m>>
           last == Len(s) + 1
<1>1. /\ Len(s) \in Nat /\ DOMAIN s = 1 .. Len(s) /\ DOMAIN t = 1 .. Len(s) + 1
      /\ \A i \in 1 .. Len(s) : t[i] = s[i]
      /\ t[Len(s) + 1] = m
    BY Appended
<1> HIDE DEF t
<1>2. /\ \A i \in DOMAIN s : i \in DOMAIN t /\ t[i] = s[i] /\ i < last
      /\ \A i \in DOMAIN t : i \in DOMAIN s \/ i = last
      /\ last \in DOMAIN t /\ last \notin DOMAIN s
      /\ DOMAIN s \subseteq Nat /\ last \in Nat
      /\ t[last] = m
    BY <1>1
<1> HIDE DEF last
<1>3. Verdict(p, m) => m.type # "destroy"
    BY DEF Verdict
<1>4. ASSUME ~Verdict(p, m)
      PROVE  /\ Judged(p, t) <=> Judged(p, s)
             /\ OneVerdict(p, t) <=> OneVerdict(p, s)
             /\ Granted(p, t) <=> Granted(p, s)
    <2>1. Judged(p, t) <=> Judged(p, s)
        BY <1>2, <1>4 DEF Judged
    <2>2. OneVerdict(p, t) <=> OneVerdict(p, s)
        BY <1>2, <1>4 DEF OneVerdict
    <2>3. Granted(p, t) <=> Granted(p, s)
        BY <1>2, <1>4 DEF Granted
    <2> QED
        BY <2>1, <2>2, <2>3
<1>5. ASSUME m.type # "destroy"
      PROVE  Ended(t) <=> Ended(s)
    BY <1>2, <1>5 DEF Ended
<1>6. ASSUME ~Verdict(p, m), m.type # "destroy"
      PROVE  Outlived(p, t) <=> Outlived(p, s)
    BY <1>2, <1>6 DEF Outlived
<1>7. ASSUME Verdict(p, m), ~Judged(p, s)
      PROVE  /\ Judged(p, t) /\ OneVerdict(p, t)
             /\ Granted(p, t) <=> m.body.ok
             /\ m.body.ok \/ ~Outlived(p, t)
    <2>1. Judged(p, t) /\ OneVerdict(p, t)
        BY <1>2, <1>7 DEF Judged, OneVerdict
    <2>2. Granted(p, t) <=> m.body.ok
        BY <1>2, <1>7 DEF Judged, Granted
    <2>3. m.body.ok \/ ~Outlived(p, t)
        BY <1>2, <1>7 DEF Judged, Outlived
    <2> QED
        BY <2>1, <2>2, <2>3
<1>8. ASSUME m.type = "destroy"
      PROVE  Ended(t) /\ ~Outlived(p, t) /\ ~Verdict(p, m)
    <2>1. ~Verdict(p, m)
        BY <1>8 DEF Verdict
    <2>2. Ended(t)
        BY <1>2, <1>8 DEF Ended
    <2>3. ~Outlived(p, t)
        BY <1>2, <1>8, <2>1 DEF Outlived
    <2> QED
        BY <2>1, <2>2, <2>3
<1> QED
    BY <1>3, <1>4, <1>5, <1>6, <1>7, <1>8 DEF SameVerdicts, t

LEMMA VerdictsRead ==
    ASSUME NEW W, NEW s \in Seq(W), s # <<>>, NEW p
    PROVE  LET t == Tail(s)
               m == Head(s)
           IN  /\ ~Verdict(p, m) /\ m.type # "destroy" => SameVerdicts(p, s, t)
               /\ Verdict(p, m) /\ OneVerdict(p, s)
                    => /\ Judged(p, s) /\ ~Judged(p, t) /\ OneVerdict(p, t)
                       /\ Granted(p, s) <=> m.body.ok
                       /\ Ended(t) <=> Ended(s)
                       /\ m.body.ok /\ ~Outlived(p, s) => Ended(s)
               /\ m.type = "destroy" => /\ Ended(s)
                                        /\ Judged(p, t) <=> Judged(p, s)
                                        /\ OneVerdict(p, t) <=> OneVerdict(p, s)
<1> DEFINE t == Tail(s)  m == Head(s)
<1>1. /\ Len(s) \in Nat \ {0} /\ DOMAIN s = 1 .. Len(s) /\ DOMAIN t = 1 .. Len(s) - 1
      /\ \A i \in 1 .. Len(s) - 1 : t[i] = s[i + 1]
      /\ s[1] = m
    BY Beheaded
<1> HIDE DEF t, m
<1>2. \A i \in DOMAIN t : i \in Nat /\ i + 1 \in DOMAIN s /\ i + 1 # 1 /\ t[i] = s[i + 1]
    BY <1>1
<1>3. ASSUME NEW i \in DOMAIN s, i # 1
      PROVE  i - 1 \in DOMAIN t /\ t[i - 1] = s[i] /\ i > 1
    <2>1. i - 1 \in 1 .. Len(s) - 1 /\ (i - 1) + 1 = i /\ i > 1
        BY <1>1, <1>3
    <2> QED
        BY <1>1, <2>1
<1>4. DOMAIN s \subseteq Nat /\ 1 \in DOMAIN s
    BY <1>1
<1>5. /\ Judged(p, t) => Judged(p, s)
      /\ Granted(p, t) => Granted(p, s)
      /\ Ended(t) => Ended(s)
    BY <1>2 DEF Judged, Granted, Ended
<1>6. OneVerdict(p, s) => OneVerdict(p, t)
    <2> SUFFICES ASSUME OneVerdict(p, s), NEW i \in DOMAIN t, NEW j \in DOMAIN t,
                        Verdict(p, t[i]), Verdict(p, t[j])
                 PROVE  i = j
        BY DEF OneVerdict
    <2>1. i + 1 = j + 1
        BY <1>2 DEF OneVerdict
    <2> QED
        BY <1>2, <2>1
<1>7. ASSUME ~Verdict(p, m)
      PROVE  /\ Judged(p, s) => Judged(p, t)
             /\ Granted(p, s) => Granted(p, t)
             /\ OneVerdict(p, t) => OneVerdict(p, s)
    <2>1. Judged(p, s) => Judged(p, t)
        BY <1>1, <1>3, <1>7 DEF Judged
    <2>2. Granted(p, s) => Granted(p, t)
        BY <1>1, <1>3, <1>7 DEF Granted
    <2>3. ASSUME OneVerdict(p, t), NEW i \in DOMAIN s, NEW j \in DOMAIN s,
                 Verdict(p, s[i]), Verdict(p, s[j])
          PROVE  i = j
        <3>1. i - 1 \in DOMAIN t /\ t[i - 1] = s[i] /\ j - 1 \in DOMAIN t /\ t[j - 1] = s[j]
            BY <1>1, <1>3, <1>7, <2>3
        <3>2. i - 1 = j - 1
            BY <2>3, <3>1 DEF OneVerdict
        <3> QED
            BY <1>4, <3>2
    <2> QED
        BY <2>1, <2>2, <2>3 DEF OneVerdict
<1>8. ASSUME m.type # "destroy"
      PROVE  Ended(s) => Ended(t)
    BY <1>1, <1>3, <1>8 DEF Ended
<1>9. Outlived(p, t) => Outlived(p, s)
    <2> SUFFICES ASSUME NEW i \in DOMAIN t, Verdict(p, t[i]), t[i].body.ok,
                        \A j \in DOMAIN t : t[j].type = "destroy" => j < i
                 PROVE  Outlived(p, s)
        BY DEF Outlived
    <2>1. i + 1 \in DOMAIN s /\ s[i + 1] = t[i] /\ i \in Nat
        BY <1>2
    <2>2. ASSUME NEW j \in DOMAIN s, s[j].type = "destroy"
          PROVE  j < i + 1
        <3>1. CASE j = 1
            BY <1>2, <2>1, <3>1
        <3>2. CASE j # 1
            <4>1. j - 1 \in DOMAIN t /\ t[j - 1] = s[j] /\ j \in Nat
                BY <1>3, <1>4, <3>2
            <4>2. j - 1 < i
                BY <2>2, <4>1
            <4> QED
                BY <2>1, <4>1, <4>2
        <3> QED
            BY <3>1, <3>2
    <2>3. Verdict(p, s[i + 1]) /\ s[i + 1].body.ok
        BY <2>1
    <2> QED
        BY <2>1, <2>2, <2>3 DEF Outlived
<1>10. ASSUME ~Verdict(p, m), Outlived(p, s)
       PROVE  Outlived(p, t)
    <2>1. PICK i \in DOMAIN s : /\ Verdict(p, s[i]) /\ s[i].body.ok
                                /\ \A j \in DOMAIN s : s[j].type = "destroy" => j < i
        BY <1>10 DEF Outlived
    <2>2. i - 1 \in DOMAIN t /\ t[i - 1] = s[i] /\ i \in Nat
        BY <1>1, <1>3, <1>4, <1>10, <2>1
    <2>3. ASSUME NEW j \in DOMAIN t, t[j].type = "destroy"
          PROVE  j < i - 1
        <3>1. j + 1 < i /\ j \in Nat
            BY <1>2, <2>1, <2>3
        <3> QED
            BY <2>2, <3>1
    <2>4. Verdict(p, t[i - 1]) /\ t[i - 1].body.ok
        BY <2>1, <2>2
    <2> QED
        BY <2>2, <2>3, <2>4 DEF Outlived
<1>11. ASSUME Verdict(p, m), OneVerdict(p, s)
       PROVE  /\ Judged(p, s) /\ ~Judged(p, t)
              /\ Granted(p, s) <=> m.body.ok
              /\ m.body.ok /\ ~Outlived(p, s) => Ended(s)
    <2>1. Judged(p, s)
        BY <1>1, <1>4, <1>11 DEF Judged
    <2>2. \A i \in DOMAIN s : Verdict(p, s[i]) => i = 1
        BY <1>1, <1>4, <1>11 DEF OneVerdict
    <2>3. ~Judged(p, t)
        BY <1>2, <2>2 DEF Judged
    <2>4. Granted(p, s) <=> m.body.ok
        BY <1>1, <1>4, <1>11, <2>2 DEF Granted
    <2>5. ASSUME m.body.ok, ~Ended(s)
          PROVE  Outlived(p, s)
        BY <1>1, <1>4, <1>11, <2>5 DEF Outlived, Ended
    <2> QED
        BY <2>1, <2>3, <2>4, <2>5
<1>12. m.type = "destroy" => Ended(s) /\ ~Verdict(p, m)
    BY <1>1, <1>4 DEF Ended, Verdict
<1>13. Verdict(p, m) => m.type # "destroy"
    BY DEF Verdict
<1>14. ~Verdict(p, m) /\ m.type # "destroy" => SameVerdicts(p, s, t)
    BY <1>5, <1>6, <1>7, <1>8, <1>9, <1>10 DEF SameVerdicts
<1>15. Verdict(p, m) /\ OneVerdict(p, s)
         => /\ Judged(p, s) /\ ~Judged(p, t) /\ OneVerdict(p, t)
            /\ Granted(p, s) <=> m.body.ok
            /\ Ended(t) <=> Ended(s)
            /\ m.body.ok /\ ~Outlived(p, s) => Ended(s)
    BY <1>5, <1>6, <1>8, <1>11, <1>13
<1>16. m.type = "destroy" => /\ Ended(s)
                             /\ Judged(p, t) <=> Judged(p, s)
                             /\ OneVerdict(p, t) <=> OneVerdict(p, s)
    BY <1>5, <1>6, <1>7, <1>12
<1> QED
    BY <1>14, <1>15, <1>16 DEF t, m

LEMMA Implied ==
    ASSUME NEW p, NEW s
    PROVE  /\ Asking(p, s) => Asked(s)
           /\ Outlived(p, s) => Granted(p, s)
           /\ Granted(p, s) => Judged(p, s)
    BY DEF Asking, Asked, Outlived, Granted, Judged

LEMMA SaysNothing ==
    ASSUME NEW p, NEW s, s = <<>>
    PROVE  ~Asked(s) /\ OneAsk(s) /\ ~Leaving(p, s) /\ ~Judged(p, s) /\ OneVerdict(p, s) /\ ~Ended(s)
    BY DEF Asked, OneAsk, Leaving, Judged, OneVerdict, Ended

LEMMA SameAsOn ==
    ASSUME NEW p, NEW s, NEW t, NEW u
    PROVE  /\ SameAsks(p, s, s) /\ SameVerdicts(p, s, s)
           /\ SameAsks(p, s, t) /\ SameAsks(p, t, u) => SameAsks(p, s, u)
           /\ SameVerdicts(p, s, t) /\ SameVerdicts(p, t, u) => SameVerdicts(p, s, u)
    BY DEF SameAsks, SameVerdicts

(* What is held and seated.                                                *)
Holds(p, state) == \E n \in Names : State(p, n) = state
Idle(p) == \A n \in Names : State(p, n) = "none"
Seated(h, p) == \E n \in Names : State(h, n) = "hosting" /\ p \in InfosAt(h, n).roster
Awaits(p) == "waiting" \in Range(pending[p])

(* What the owner h and p know of the seat of p, and have yet to hear of it:  *)
(* p asks or is judged, never both; while the session is hosted p has a seat   *)
(* if it is in, or will hear that it is, and once it is over whoever is in     *)
(* will hear of that.                                                      *)
SeatOf(h, p) ==
    LET s == wire[<<p, h>>]
        r == wire[<<h, p>>]
    IN  /\ OneAsk(s) /\ OneVerdict(p, r) /\ ~(Asked(s) /\ Judged(p, r))
        /\ Asked(s) \/ Judged(p, r) => Awaits(p)
        /\ Leaving(p, s) => Idle(p)
        /\ Asking(p, s) => ~Holds(p, "joined")
        /\ h \in Hosts =>
             /\ ~Ended(r)
             /\ Asking(p, s) => Holds(p, "joining")
             /\ ~Asking(p, s) /\ ~Leaving(p, s) =>
                  /\ Holds(p, "joined") => Seated(h, p)
                  /\ Holds(p, "joining") => (Granted(p, r) <=> Seated(h, p))
                  /\ Idle(p) => ~Seated(h, p)
        /\ h \notin Hosts =>
             /\ Holds(p, "joined") => Ended(r)
             /\ Holds(p, "joining") => ~Outlived(p, r)

(* Two peers whose seats are what they made of them.                          *)
Fair(h, p) == ~astray /\ twice = {} /\ p # h /\ Connected(p, h) /\ p \notin byHand

(* O has the owner of the session.                                          *)
Seats(O) == \A h \in O, p \in Peers : Fair(h, p) => SeatOf(h, p)

(* Nobody has asked before there is a session.                               *)
Silent(s) == Lacks(s, "request") /\ Lacks(s, "response") /\ Lacks(s, "destroy")
Quiet(w) == \A pq \in Pairs : Connected(pq[1], pq[2]) => Silent(w[pq])
QuietBefore == spent["creates"] = 0 => Quiet(wire)

-----------------------------------------------------------------------------
(* What leaves a seat as it was.                                            *)

StatesSame(p) == \A n \in Names : State(p, n)' = State(p, n)

HostSame(h, p) == (h \in Hosts' <=> h \in Hosts) /\ (Seated(h, p)' <=> Seated(h, p))

StreamsSame(h, p) ==
    /\ SameAsks(p, wire[<<p, h>>], wire'[<<p, h>>])
    /\ SameVerdicts(p, wire[<<h, p>>], wire'[<<h, p>>])

LEMMA StatesHold ==
    ASSUME NEW p, StatesSame(p)
    PROVE  (\A state : Holds(p, state)' <=> Holds(p, state)) /\ (Idle(p)' <=> Idle(p))
    BY DEF StatesSame, Holds, Idle

LEMMA SeatKept ==
    ASSUME NEW h, NEW p, SeatOf(h, p), StatesSame(p), Awaits(p) => Awaits(p)',
           HostSame(h, p), StreamsSame(h, p)
    PROVE  SeatOf(h, p)'
<1>1. /\ Holds(p, "joined")' <=> Holds(p, "joined")
      /\ Holds(p, "joining")' <=> Holds(p, "joining")
      /\ Idle(p)' <=> Idle(p)
    BY StatesHold
<1> DEFINE s == wire[<<p, h>>]  r == wire[<<h, p>>]
           t == wire'[<<p, h>>]  u == wire'[<<h, p>>]
<1>2. /\ Asked(t) <=> Asked(s)
      /\ OneAsk(t) <=> OneAsk(s)
      /\ Asking(p, t) <=> Asking(p, s)
      /\ Leaving(p, t) <=> Leaving(p, s)
      /\ Judged(p, u) <=> Judged(p, r)
      /\ OneVerdict(p, u) <=> OneVerdict(p, r)
      /\ Granted(p, u) <=> Granted(p, r)
      /\ Ended(u) <=> Ended(r)
      /\ Outlived(p, u) <=> Outlived(p, r)
    BY DEF StreamsSame, SameAsks, SameVerdicts
<1> QED
    BY <1>1, <1>2 DEF SeatOf, HostSame

(* Who the owner is not holds the session once, and does not host it.          *)
LEMMA OneState ==
    ASSUME NEW O \in SUBSET Peers, EntriesOK(O), OneSession(O), JoinsOK, twice = {},
           NEW h \in O, NEW p \in Peers
    PROVE  /\ Idle(p) <=> Held(p) = {}
           /\ Held(p) # {} => /\ Held(p) = {ById(p)} /\ ById(p) \in Names
                              /\ State(p, ById(p)) # "none" /\ InfosAt(p, ById(p)).owner = h
                              /\ \A n \in Names : n # ById(p) => State(p, n) = "none"
           /\ p # h => \A n \in Names : State(p, n) \in {"none", "joining", "joined"}
           /\ p \in Hosts => Held(p) # {} /\ State(p, ById(p)) = "hosting"
<1>1. Idle(p) <=> Held(p) = {}
    BY DEF Idle, Held
<1>2. ASSUME Held(p) # {}
      PROVE  /\ Held(p) = {ById(p)} /\ ById(p) \in Names
             /\ State(p, ById(p)) # "none" /\ InfosAt(p, ById(p)).owner = h
             /\ \A n \in Names : n # ById(p) => State(p, n) = "none"
    <2>1. ById(p) \in Names /\ State(p, ById(p)) # "none" /\ ById(p) \in Held(p)
        BY <1>2, ByIdHeld DEF Held
    <2>2. \A n \in Held(p) : n = ById(p)
        BY <2>1 DEF JoinsOK
    <2>3. InfosAt(p, ById(p)).owner = h
        BY <2>1, EntryParts, OwnInfosParts DEF OneSession
    <2> QED
        BY <2>1, <2>2, <2>3 DEF Held
<1>3. ASSUME p # h, NEW n \in Names
      PROVE  State(p, n) \in {"none", "joining", "joined"}
    <2>1. State(p, n) = "hosting" => InfosAt(p, n).owner = p /\ InfosAt(p, n).owner \in O
        BY EntryParts, OwnInfosParts
    <2> QED
        BY <1>3, <2>1, EntryParts DEF OneSession, States
<1>4. p \in Hosts => Held(p) # {} /\ State(p, ById(p)) = "hosting"
    BY <1>2 DEF Hosts, Held
<1> QED
    BY <1>1, <1>2, <1>3, <1>4

(* What a message sent to some makes of a stream.                              *)
LEMMA SentExactly ==
    ASSUME NEW M, NEW w, Streams(w, M), NEW p, NEW to, NEW type, NEW body,
           [type |-> type, body |-> body] \in M, NEW pq \in Pairs
    PROVE  SendTo(w, p, to, type, body)[pq] =
             IF pq[1] = p /\ pq[2] \in to /\ pq \in up /\ Reads(pq[2], p)
             THEN w[pq] \o <<[type |-> type, body |-> body]>> ELSE w[pq]
<1> DEFINE ms == <<[type |-> type, body |-> body]>>
           x == SendTo(w, p, to, type, body)
<1>1. ms \in Seq(M)
    OBVIOUS
<1>2. pq = <<pq[1], pq[2]>>
    BY DEF Pairs
<1>3. x[pq] = IF pq[1] = p /\ pq[2] \in to THEN Posted(w, p, pq[2], ms)[pq] ELSE w[pq]
    BY DEF SendTo
<1> HIDE DEF x, ms
<1>4. Posted(w, p, pq[2], ms)[pq] = IF pq = <<p, pq[2]>> /\ pq \in up /\ Reads(pq[2], p)
                                    THEN w[pq] \o ms ELSE w[pq]
    BY <1>1, PostedSeq
<1>5. x[pq] = IF pq[1] = p /\ pq[2] \in to /\ pq \in up /\ Reads(pq[2], p)
              THEN w[pq] \o ms ELSE w[pq]
    BY <1>2, <1>3, <1>4
<1> QED
    BY <1>5 DEF x, ms

(* The two streams between the owner and p, of what is sent from w.            *)
LEMMA SentBetween ==
    ASSUME NEW M, NEW w, Streams(w, M), NEW a, NEW to, NEW type, NEW body,
           [type |-> type, body |-> body] \in M, NEW h \in Peers, NEW p \in Peers, p # h,
           a = p /\ h \in to => type # "request" /\ ~(type = "unregister" /\ body = p),
           a = h /\ p \in to => type # "destroy" /\ ~(type = "response" /\ body.player = p)
    PROVE  LET x == SendTo(w, a, to, type, body)
           IN  SameAsks(p, w[<<p, h>>], x[<<p, h>>]) /\ SameVerdicts(p, w[<<h, p>>], x[<<h, p>>])
<1> DEFINE ph == <<p, h>>  hp == <<h, p>>  x == SendTo(w, a, to, type, body)
           m == [type |-> type, body |-> body]  W == M \cup {Eof}
<1>1. ph \in Pairs /\ hp \in Pairs /\ ph[1] = p /\ ph[2] = h /\ hp[1] = h /\ hp[2] = p
    BY DEF Pairs
<1>2. \A pq \in Pairs :
        x[pq] = IF pq[1] = a /\ pq[2] \in to /\ pq \in up /\ Reads(pq[2], a)
                THEN w[pq] \o <<m>> ELSE w[pq]
    BY SentExactly
<1>3. w \in [Pairs -> Seq(W)] /\ m \in W /\ m.type = type /\ m.body = body
    BY DEF Streams
<1> HIDE DEF ph, hp, x, m, W
<1>4. SameAsks(p, w[ph], x[ph])
    <2>1. CASE x[ph] = w[ph]
        BY <2>1, SameAsOn
    <2>2. CASE x[ph] # w[ph]
        <3>1. a = p /\ h \in to /\ x[ph] = w[ph] \o <<m>>
            BY <1>1, <1>2, <2>2
        <3>2. m.type # "request" /\ ~Leave(p, m)
            BY <1>3, <3>1 DEF Leave
        <3>3. w[ph] \in Seq(W)
            BY <1>1, <1>3
        <3> QED
            BY <1>3, <3>1, <3>2, <3>3, AsksSent
    <2> QED
        BY <2>1, <2>2
<1>5. SameVerdicts(p, w[hp], x[hp])
    <2>1. CASE x[hp] = w[hp]
        BY <2>1, SameAsOn
    <2>2. CASE x[hp] # w[hp]
        <3>1. a = h /\ p \in to /\ x[hp] = w[hp] \o <<m>>
            BY <1>1, <1>2, <2>2
        <3>2. m.type # "destroy" /\ ~Verdict(p, m)
            BY <1>3, <3>1 DEF Verdict
        <3>3. w[hp] \in Seq(W)
            BY <1>1, <1>3
        <3> QED
            BY <1>3, <3>1, <3>2, <3>3, VerdictsSent
    <2> QED
        BY <2>1, <2>2
<1> QED
    BY <1>4, <1>5 DEF ph, hp, x

LEMMA StreamsKept ==
    ASSUME NEW h, NEW p, wire'[<<p, h>>] = wire[<<p, h>>], wire'[<<h, p>>] = wire[<<h, p>>]
    PROVE  StreamsSame(h, p)
    BY SameAsOn DEF StreamsSame

-----------------------------------------------------------------------------
(* Entries.                                                                *)

LEMMA EntrySame ==
    ASSUME NEW r, \A n \in Names : State(r, n)' = State(r, n) /\ InfosAt(r, n)' = InfosAt(r, n),
           r \in Peers
    PROVE  StatesSame(r) /\ \A p : HostSame(r, p)
    BY DEF StatesSame, HostSame, Hosts, Seated

(* Who is not at it keeps all it has.                                         *)
LEMMA OthersSame ==
    ASSUME NEW O, EntriesOK(O), NEW a \in Peers, NEW n \in Names,
           \/ Erase(a, n)
           \/ \E state, infos : Becomes(a, n, state, infos)
    PROVE  \A r \in Peers \ {a} : StatesSame(r) /\ \A p : HostSame(r, p)
<1>1. \A r \in Peers, m \in Names : r # a \/ m # n
        => State(r, m)' = State(r, m) /\ InfosAt(r, m)' = InfosAt(r, m)
    BY EntryWritten, EntryErased
<1> QED
    BY <1>1, EntrySame

(* A copy written over keeps its state, and the seats of whom it says so.       *)
LEMMA RosterWritten ==
    ASSUME NEW O, EntriesOK(O), NEW a \in Peers, NEW n \in Names, NEW infos,
           Becomes(a, n, State(a, n), infos)
    PROVE  /\ \A r \in Peers : StatesSame(r)
           /\ \A h \in Peers : \A p :
                \/ h # a
                \/ State(a, n) # "hosting"
                \/ p \in infos.roster <=> p \in InfosAt(a, n).roster
                => HostSame(h, p)
<1>1. /\ State(a, n)' = State(a, n) /\ InfosAt(a, n)' = infos
      /\ \A r \in Peers, m \in Names : r # a \/ m # n
           => State(r, m)' = State(r, m) /\ InfosAt(r, m)' = InfosAt(r, m)
    BY EntryWritten
<1>2. \A r \in Peers : StatesSame(r)
    BY <1>1 DEF StatesSame
<1>3. ASSUME NEW h \in Peers, NEW p,
             \/ h # a
             \/ State(a, n) # "hosting"
             \/ p \in infos.roster <=> p \in InfosAt(a, n).roster
      PROVE  HostSame(h, p)
    <2>1. h \in Hosts' <=> h \in Hosts
        BY <1>2 DEF StatesSame, Hosts
    <2>2. ASSUME NEW m \in Names
          PROVE  /\ State(h, m)' = State(h, m)
                 /\ State(h, m) = "hosting"
                      => (p \in InfosAt(h, m)'.roster <=> p \in InfosAt(h, m).roster)
        BY <1>1, <1>3
    <2> QED
        BY <2>1, <2>2 DEF HostSame, Seated
<1> QED
    BY <1>2, <1>3

LEMMA NoEntryWritten ==
    ASSUME UNCHANGED entry
    PROVE  \A r \in Peers : StatesSame(r) /\ \A p : HostSame(r, p)
    BY EntrySame DEF State, InfosAt

LEMMA RosterChanged ==
    ASSUME NEW O, NEW old \in OwnInfos(O), NEW m, NEW p, p # m
    PROVE  /\ p \in Seat(old, m).roster <=> p \in old.roster
           /\ p \in Unseat(old, m).roster <=> p \in old.roster
    BY DEF OwnInfos, Infos, Seat, Unseat

-----------------------------------------------------------------------------
(* The calls of the game.                                                  *)

LEMMA WriteSeats ==
    ASSUME NEW O \in SUBSET Peers, Typed(O), NEW h \in O, NEW p \in Peers, p # h, SeatOf(h, p),
           NEW a \in Peers, NEW n \in Names, NEW infos, Write(a, n, infos),
           infos \in OwnInfos(O), infos.roster = InfosAt(a, n).roster
    PROVE  SeatOf(h, p)'
<1>1. /\ Becomes(a, n, State(a, n), infos) /\ UNCHANGED pending
      /\ wire' = SendTo(wire, a, infos.roster \ {a}, "infos", infos)
    BY DEF Write, BroadcastSession, SendToMembers
<1>2. StatesSame(p) /\ HostSame(h, p)
    BY <1>1, RosterWritten DEF Typed
<1>3. [type |-> "infos", body |-> infos] \in Words(O) /\ Streams(wire, Words(O))
    BY WordsOf DEF Typed, LinkTyped
<1>4. StreamsSame(h, p)
    BY <1>1, <1>3, SentBetween DEF StreamsSame
<1> QED
    BY <1>1, <1>2, <1>4, SeatKept DEF Awaits

LEMMA WritesSeats ==
    ASSUME NEW O \in SUBSET Peers, Typed(O), NEW h \in O, NEW p \in Peers, p # h, SeatOf(h, p),
           NEW a \in Peers, NEW n \in Names,
           \/ \E settings \in Settings : UpdateSession(a, n, settings)
           \/ StartSession(a, n)
           \/ EndSession(a, n)
    PROVE  SeatOf(h, p)'
<1>1. State(a, n) # "none"
    BY DEF UpdateSession, StartSession, EndSession, Write
<1>2. InfosAt(a, n) \in OwnInfos(O)
    BY <1>1, EntryParts DEF Typed
<1>3. ASSUME NEW old \in OwnInfos(O), NEW settings \in Settings, NEW phase \in Phases
      PROVE  /\ [old EXCEPT !.settings = settings] \in OwnInfos(O)
             /\ [old EXCEPT !.settings = settings].roster = old.roster
             /\ [old EXCEPT !.phase = phase] \in OwnInfos(O)
             /\ [old EXCEPT !.phase = phase].roster = old.roster
    BY DEF OwnInfos, Infos
<1>4. PICK infos \in OwnInfos(O) : Write(a, n, infos) /\ infos.roster = InfosAt(a, n).roster
    <2>1. CASE \E settings \in Settings : UpdateSession(a, n, settings)
        <3>1. PICK settings \in Settings : UpdateSession(a, n, settings)
            BY <2>1
        <3>2. "pending" \in Phases
            BY DEF Phases
        <3>3. /\ [InfosAt(a, n) EXCEPT !.settings = settings] \in OwnInfos(O)
              /\ [InfosAt(a, n) EXCEPT !.settings = settings].roster = InfosAt(a, n).roster
            BY <1>2, <1>3, <3>2
        <3> QED
            BY <3>1, <3>3 DEF UpdateSession
    <2>2. CASE StartSession(a, n) \/ EndSession(a, n)
        <3>1. PICK phase \in Phases : Write(a, n, [InfosAt(a, n) EXCEPT !.phase = phase])
            BY <2>2 DEF StartSession, EndSession, Phases
        <3>2. InfosAt(a, n).settings \in Settings
            BY <1>2, OwnInfosParts
        <3>3. /\ [InfosAt(a, n) EXCEPT !.phase = phase] \in OwnInfos(O)
              /\ [InfosAt(a, n) EXCEPT !.phase = phase].roster = InfosAt(a, n).roster
            BY <1>2, <1>3, <3>2
        <3> QED
            BY <3>1, <3>3
    <2> QED
        BY <2>1, <2>2
<1> QED
    BY <1>4, WriteSeats

(* Whoever the host's game seats or unseats is seated by hand, and whoever      *)
(* unseats itself.                                                         *)
LEMMA ChangeSeatsSeats ==
    ASSUME NEW O \in SUBSET Peers, Typed(O), NEW h \in O, NEW p \in Peers,
           Fair(h, p)', SeatOf(h, p), NEW a \in Peers, NEW n \in Names, NEW m \in Peers,
           RegisterPlayers(a, n, m) \/ UnregisterPlayers(a, n, m)
    PROVE  SeatOf(h, p)'
<1>1. State(a, n) # "none" /\ p # h /\ p \notin byHand'
    BY DEF RegisterPlayers, UnregisterPlayers, ChangeSeats, Fair
<1>2. InfosAt(a, n) \in OwnInfos(O)
    BY <1>1, EntryParts DEF Typed
<1>3. PICK infos, type :
        /\ type \in {"register", "unregister"}
        /\ ChangeSeats(a, n, m, infos, type)
        /\ p # m => (p \in infos.roster <=> p \in InfosAt(a, n).roster)
    <2> DEFINE seated == Seat(InfosAt(a, n), m)  unseated == Unseat(InfosAt(a, n), m)
    <2>1. p # m => /\ p \in seated.roster <=> p \in InfosAt(a, n).roster
                   /\ p \in unseated.roster <=> p \in InfosAt(a, n).roster
        BY <1>2, RosterChanged
    <2>2. \/ ChangeSeats(a, n, m, seated, "register")
          \/ ChangeSeats(a, n, m, unseated, "unregister")
        BY DEF RegisterPlayers, UnregisterPlayers
    <2> HIDE DEF seated, unseated
    <2> QED
        BY <2>1, <2>2
<1>4. /\ Becomes(a, n, State(a, n), infos) /\ UNCHANGED pending
      /\ wire' = SendTo(wire, a, infos.roster \ {a}, type, m)
      /\ State(a, n) = "hosting" \/ m = a => m # p
    BY <1>1, <1>3 DEF ChangeSeats, SendToMembers
<1>5. StatesSame(p) /\ HostSame(h, p)
    BY <1>3, <1>4, RosterWritten DEF Typed
<1>6. [type |-> type, body |-> m] \in Words(O) /\ Streams(wire, Words(O))
    BY <1>3, WordsOf DEF Typed, LinkTyped
<1>7. /\ type # "request" /\ type # "destroy" /\ type # "response"
      /\ a = p => m # p
    BY <1>3, <1>4
<1>8. StreamsSame(h, p)
    BY <1>1, <1>4, <1>6, <1>7, SentBetween DEF StreamsSame
<1> QED
    BY <1>4, <1>5, <1>8, SeatKept DEF Awaits

(* Who joins waits for nothing else, so that there is nothing left of an        *)
(* earlier attempt.                                                        *)
LEMMA JoinSessionSeats ==
    ASSUME NEW O \in SUBSET Peers, Typed(O), JoinsOK, NEW h \in O, NEW p \in Peers,
           Fair(h, p)', SeatOf(h, p), NEW a \in Peers, NEW n \in Names, JoinSession(a, n)
    PROVE  SeatOf(h, p)'
<1>1. /\ Becomes(a, n, "joining", found[a]) /\ found[a] \in OwnInfos(O)
      /\ wire' = SendTo(wire, a, {found[a].owner}, "request", None)
      /\ pending[a] = <<>> /\ Held(a) = {} /\ UNCHANGED up
      /\ p # h /\ Connected(p, h)
    BY DEF Typed, FoundOK, JoinSession, Fair, GoesAstray, Connected
<1>2. found[a].owner = h
    BY <1>1, OwnInfosParts DEF Typed, OneSession
<1>3. [type |-> "request", body |-> None] \in Words(O) /\ Streams(wire, Words(O))
    BY WordsOf DEF Typed, LinkTyped
<1>4. \A r \in Peers \ {a} : StatesSame(r) /\ \A x : HostSame(r, x)
    BY <1>1, OthersSame DEF Typed
<1>5. PICK i \in 0 .. Len(pending[a]) :
        pending' = [pending EXCEPT ![a] = InsertAt(@, i + 1, "waiting")]
    BY DEF JoinSession
<1>6. pending \in [Peers -> Seq({"waiting", "answered"})]
    BY DEF JoinsOK
<1>7. CASE a # p
    <2>1. HostSame(h, p)
        <3>1. CASE a = h
            <4>1. \A x \in Names : State(h, x) = "none"
                BY <1>1, <3>1 DEF Held
            <4>2. \A x \in Names : State(h, x)' # "hosting"
                BY <1>1, <3>1, <4>1, EntryWritten DEF Typed
            <4> QED
                BY <4>1, <4>2 DEF HostSame, Hosts, Seated
        <3> QED
            BY <1>4, <3>1
    <2>2. StreamsSame(h, p)
        <3>1. ~(a = p /\ h \in {found[a].owner}) /\ ~(a = h /\ p \in {found[a].owner})
            BY <1>1, <1>2, <1>7
        <3> QED
            BY <1>1, <1>3, <3>1, SentBetween DEF StreamsSame
    <2>3. Awaits(p)' <=> Awaits(p)
        BY <1>5, <1>6, <1>7 DEF Awaits
    <2> QED
        BY <1>4, <1>7, <2>1, <2>2, <2>3, SeatKept
<1>8. CASE a = p
    <2>1. HostSame(h, p)
        BY <1>1, <1>4, <1>8
    <2> DEFINE ph == <<p, h>>  hp == <<h, p>>  m == [type |-> "request", body |-> None]
               W == Words(O) \cup {Eof}
    <2>2. /\ ph \in Pairs /\ hp \in Pairs /\ ph[1] = p /\ ph[2] = h /\ hp[1] = h /\ hp[2] = p
          /\ ph \in up /\ Reads(h, p)
        BY <1>1 DEF Pairs, Connected, Reads
    <2>3. wire \in [Pairs -> Seq(W)] /\ m \in W /\ m.type = "request"
        BY <1>3 DEF Streams
    <2>4. wire'[ph] = wire[ph] \o <<m>> /\ wire'[hp] = wire[hp]
        <3>1. ASSUME NEW pq \in Pairs
              PROVE  wire'[pq] = IF pq[1] = p /\ pq[2] \in {h} /\ pq \in up /\ Reads(pq[2], p)
                                 THEN wire[pq] \o <<m>> ELSE wire[pq]
            BY <1>1, <1>2, <1>3, <1>8, SentExactly
        <3> HIDE DEF ph, hp, m
        <3> QED
            BY <1>1, <2>2, <3>1
    <2> HIDE DEF ph, hp, m, W
    <2> DEFINE s == wire[ph]  t == wire'[ph]  r == wire[hp]
    <2>5. ~Awaits(p)
        BY <1>1, <1>8 DEF Awaits, Range
    <2>6. ~Asked(s) /\ ~Judged(p, r)
        BY <2>5 DEF SeatOf, ph, hp
    <2>7. s \in Seq(W) /\ t = s \o <<m>>
        BY <2>2, <2>3, <2>4
    <2> HIDE DEF s, t, r
    <2>8. Asked(t) /\ OneAsk(t) /\ Asking(p, t) /\ ~Leaving(p, t)
        BY <2>3, <2>6, <2>7, AsksSent
    <2>9. Awaits(p)'
        <3>1. "waiting" \in Range(InsertAt(pending[p], i + 1, "waiting"))
            <4> DEFINE Joins == {"waiting", "answered"}
            <4>1. pending[p] \in Seq(Joins) /\ "waiting" \in Joins /\ i \in 0 .. Len(pending[p])
                BY <1>6, <1>8
            <4> HIDE DEF Joins
            <4> QED
                BY <4>1, InsertKeeps
        <3>2. pending'[p] = InsertAt(pending[p], i + 1, "waiting")
            BY <1>5, <1>6, <1>8
        <3> QED
            BY <3>1, <3>2 DEF Awaits
    <2>10. Holds(p, "joining")' /\ ~Holds(p, "joined")'
        <3>1. \A x \in Names : State(p, x) = "none"
            BY <1>1, <1>8 DEF Held
        <3>2. State(p, n)' = "joining" /\ \A x \in Names : x # n => State(p, x)' = "none"
            BY <1>1, <1>8, <3>1, EntryWritten DEF Typed
        <3> QED
            BY <3>2 DEF Holds
    <2>11. OneVerdict(p, r) /\ (h \in Hosts => ~Ended(r))
        BY DEF SeatOf, r, hp
    <2>12. ~Outlived(p, r)
        BY <2>6, Implied
    <2>13. wire'[ph] = t /\ wire'[hp] = r
        BY <2>4 DEF t, r
    <2> QED
        BY <2>1, <2>6, <2>8, <2>9, <2>10, <2>11, <2>12, <2>13 DEF SeatOf, HostSame, ph, hp
<1> QED
    BY <1>7, <1>8

(* The host ends the session for everyone it has on its roster.                *)
LEMMA EndSeats ==
    ASSUME NEW O \in SUBSET Peers, Typed(O), JoinsOK, twice = {}, NEW h \in O, NEW p \in Peers,
           p # h, Connected(p, h), SeatOf(h, p), NEW n \in Names, State(h, n) = "hosting",
           Erase(h, n), UNCHANGED pending,
           wire' = SendTo(wire, h, InfosAt(h, n).roster \ {h}, "destroy", None)
    PROVE  SeatOf(h, p)'
<1>1. /\ Held(h) = {n} /\ h \in Hosts
      /\ \A x \in Names : x # n => State(h, x) = "none"
    BY OneState DEF Held, Typed, Hosts
<1>2. h \notin Hosts'
    <2>1. State(h, n)' = "none" /\ \A x \in Names : x # n => State(h, x)' = State(h, x)
        BY EntryErased DEF Typed
    <2> QED
        BY <1>1, <2>1 DEF Hosts
<1>3. Seated(h, p) <=> p \in InfosAt(h, n).roster
    BY <1>1 DEF Seated
<1>4. StatesSame(p)
    BY OthersSame DEF Typed
<1>5. /\ Holds(p, "joined")' <=> Holds(p, "joined")
      /\ Holds(p, "joining")' <=> Holds(p, "joining")
      /\ Idle(p)' <=> Idle(p)
    BY <1>4, StatesHold
<1> DEFINE ph == <<p, h>>  hp == <<h, p>>  m == [type |-> "destroy", body |-> None]
           W == Words(O) \cup {Eof}
<1>6. /\ ph \in Pairs /\ hp \in Pairs /\ ph[1] = p /\ ph[2] = h /\ hp[1] = h /\ hp[2] = p
      /\ hp \in up /\ Reads(p, h)
    BY DEF Pairs, Connected, Reads
<1>7. m \in Words(O) /\ Streams(wire, Words(O))
    BY WordsOf DEF Typed, LinkTyped
<1>8. wire'[ph] = wire[ph] /\ wire'[hp] = IF Seated(h, p) THEN wire[hp] \o <<m>> ELSE wire[hp]
    <2> DEFINE to == InfosAt(h, n).roster \ {h}
    <2>1. ASSUME NEW pq \in Pairs
          PROVE  wire'[pq] = IF pq[1] = h /\ pq[2] \in to /\ pq \in up /\ Reads(pq[2], h)
                             THEN wire[pq] \o <<m>> ELSE wire[pq]
        BY <1>7, SentExactly
    <2>2. p \in to <=> Seated(h, p)
        BY <1>3
    <2> HIDE DEF ph, hp, m, to
    <2> QED
        BY <1>6, <2>1, <2>2
<1>9. wire[hp] \in Seq(W) /\ m \in W /\ m.type = "destroy"
    BY <1>6, <1>7 DEF Streams
<1> HIDE DEF ph, hp, m, W
<1> DEFINE s == wire[ph]  r == wire[hp]  u == wire'[hp]
<1>10. /\ OneAsk(s) /\ OneVerdict(p, r) /\ ~(Asked(s) /\ Judged(p, r))
       /\ Asked(s) \/ Judged(p, r) => Awaits(p)
       /\ Leaving(p, s) => Idle(p)
       /\ Asking(p, s) => ~Holds(p, "joined")
       /\ ~Ended(r)
       /\ Asking(p, s) => Holds(p, "joining")
       /\ ~Asking(p, s) /\ ~Leaving(p, s) =>
            /\ Holds(p, "joined") => Seated(h, p)
            /\ Holds(p, "joining") => (Granted(p, r) <=> Seated(h, p))
            /\ Idle(p) => ~Seated(h, p)
    BY <1>1 DEF SeatOf, s, r, ph, hp
<1>11. /\ Judged(p, u) <=> Judged(p, r)
       /\ OneVerdict(p, u) <=> OneVerdict(p, r)
       /\ Seated(h, p) => Ended(u) /\ ~Outlived(p, u)
       /\ ~Seated(h, p) => (Outlived(p, u) <=> Outlived(p, r))
    <2>1. CASE Seated(h, p)
        <3>1. u = r \o <<m>>
            BY <1>8, <2>1
        <3> HIDE DEF u, r
        <3>2. r \in Seq(W)
            BY <1>9 DEF r
        <3> QED
            BY <1>9, <2>1, <3>1, <3>2, VerdictsSent
    <2>2. CASE ~Seated(h, p)
        BY <1>8, <2>2
    <2> QED
        BY <2>1, <2>2
<1>12. /\ Asking(p, s) => Asked(s)
       /\ Outlived(p, r) => Granted(p, r)
       /\ Granted(p, r) => Judged(p, r)
    BY Implied
<1>13. Holds(p, "joining") \/ Holds(p, "joined") => ~Idle(p)
    BY DEF Holds, Idle
<1>14. wire'[ph] = s
    BY <1>8
<1>15. Awaits(p)' <=> Awaits(p)
    BY DEF Awaits
<1> HIDE DEF s, r, u
<1>16. Holds(p, "joined") => Ended(u)
    BY <1>10, <1>11, <1>13
<1>17. Holds(p, "joining") => ~Outlived(p, u)
    BY <1>10, <1>11, <1>12, <1>13
<1> QED
    BY <1>2, <1>5, <1>10, <1>11, <1>14, <1>15, <1>16, <1>17 DEF SeatOf, u, ph, hp

(* Who leaves says so, behind whatever it has asked.                          *)
LEMMA LeaveSeats ==
    ASSUME NEW O \in SUBSET Peers, Typed(O), JoinsOK, twice = {}, NEW h \in O, NEW p \in Peers,
           p # h, Connected(p, h), SeatOf(h, p), NEW n \in Names, State(p, n) # "none",
           Erase(p, n), UNCHANGED pending, NEW to, h \in to,
           wire' = SendTo(wire, p, to, "unregister", p)
    PROVE  SeatOf(h, p)'
<1>1. Idle(p)' /\ ~Holds(p, "joined")' /\ ~Holds(p, "joining")'
    <2>1. \A x \in Names : x # n => State(p, x) = "none"
        BY OneState DEF Held, Typed
    <2>2. \A x \in Names : State(p, x)' = "none"
        BY <2>1, EntryErased DEF Typed
    <2> QED
        BY <2>2 DEF Idle, Holds
<1>2. HostSame(h, p)
    BY OthersSame DEF Typed
<1> DEFINE ph == <<p, h>>  hp == <<h, p>>  m == [type |-> "unregister", body |-> p]
           W == Words(O) \cup {Eof}
<1>3. /\ ph \in Pairs /\ hp \in Pairs /\ ph[1] = p /\ ph[2] = h /\ hp[1] = h /\ hp[2] = p
      /\ ph \in up /\ Reads(h, p)
    BY DEF Pairs, Connected, Reads
<1>4. m \in Words(O) /\ Streams(wire, Words(O))
    BY WordsOf DEF Typed, LinkTyped
<1>5. wire'[ph] = wire[ph] \o <<m>> /\ wire'[hp] = wire[hp]
    <2>1. ASSUME NEW pq \in Pairs
          PROVE  wire'[pq] = IF pq[1] = p /\ pq[2] \in to /\ pq \in up /\ Reads(pq[2], p)
                             THEN wire[pq] \o <<m>> ELSE wire[pq]
        BY <1>4, SentExactly
    <2> HIDE DEF ph, hp, m
    <2> QED
        BY <1>3, <2>1
<1>6. wire[ph] \in Seq(W) /\ m \in W /\ Leave(p, m)
    BY <1>3, <1>4 DEF Streams, Leave
<1> HIDE DEF ph, hp, m, W
<1> DEFINE s == wire[ph]  r == wire[hp]  t == wire'[ph]
<1>7. /\ OneAsk(s) /\ OneVerdict(p, r) /\ ~(Asked(s) /\ Judged(p, r))
      /\ Asked(s) \/ Judged(p, r) => Awaits(p)
      /\ h \in Hosts => ~Ended(r)
    BY DEF SeatOf, s, r, ph, hp
<1>8. /\ Asked(t) <=> Asked(s)
      /\ OneAsk(t) <=> OneAsk(s)
      /\ ~Asking(p, t) /\ Leaving(p, t)
    <2>1. t = s \o <<m>> /\ s \in Seq(W)
        BY <1>5, <1>6
    <2> HIDE DEF s, t
    <2> QED
        BY <1>6, <2>1, AsksSent
<1>9. wire'[hp] = r /\ (Awaits(p)' <=> Awaits(p))
    BY <1>5 DEF Awaits
<1> HIDE DEF s, r, t
<1> QED
    BY <1>1, <1>2, <1>7, <1>8, <1>9 DEF SeatOf, HostSame, t, ph, hp

LEMMA DestroySessionSeats ==
    ASSUME NEW O \in SUBSET Peers, Typed(O), JoinsOK, NEW h \in O, NEW p \in Peers,
           Fair(h, p)', SeatOf(h, p), NEW a \in Peers, NEW n \in Names, DestroySession(a, n)
    PROVE  SeatOf(h, p)'
<1>1. /\ State(a, n) # "none" /\ Erase(a, n) /\ UNCHANGED pending
      /\ IF State(a, n) = "hosting"
         THEN wire' = SendTo(wire, a, InfosAt(a, n).roster \ {a}, "destroy", None)
         ELSE /\ wire' = SendTo(wire, a, InfosAt(a, n).roster \ {a}, "unregister", a)
              /\ InfosAt(a, n).owner \in InfosAt(a, n).roster
      /\ p # h /\ Connected(p, h) /\ twice = {}
    BY DEF DestroySession, SendToMembers, GoesAstray, Fair, Connected
<1>2. InfosAt(a, n).owner = h /\ (State(a, n) = "hosting" => a = h)
    BY <1>1, EntryParts, OwnInfosParts DEF Typed, OneSession
<1>3. \A r \in Peers \ {a} : StatesSame(r) /\ \A x : HostSame(r, x)
    BY <1>1, OthersSame DEF Typed
<1>4. CASE State(a, n) = "hosting"
    BY <1>1, <1>2, <1>4, EndSeats
<1>5. CASE a = p
    <2> DEFINE to == InfosAt(p, n).roster \ {p}
    <2>1. h \in to /\ wire' = SendTo(wire, p, to, "unregister", p)
        BY <1>1, <1>2, <1>5
    <2> HIDE DEF to
    <2> QED
        BY <1>1, <1>5, <2>1, LeaveSeats
<1>6. CASE a # p /\ State(a, n) # "hosting"
    <2>1. HostSame(h, p)
        <3>1. CASE a = h
            <4>1. \A x \in Names : x # n => State(h, x) = "none"
                BY <1>1, <3>1, OneState DEF Held, Typed
            <4>2. \A x \in Names : State(h, x)' = "none"
                BY <1>1, <3>1, <4>1, EntryErased DEF Typed
            <4> QED
                BY <1>6, <3>1, <4>1, <4>2 DEF HostSame, Hosts, Seated
        <3> QED
            BY <1>3, <3>1
    <2>2. [type |-> "unregister", body |-> a] \in Words(O) /\ Streams(wire, Words(O))
        BY WordsOf DEF Typed, LinkTyped
    <2>3. StreamsSame(h, p)
        BY <1>1, <1>6, <2>2, SentBetween DEF StreamsSame
    <2> QED
        BY <1>1, <1>3, <1>6, <2>1, <2>3, SeatKept DEF Awaits
<1> QED
    BY <1>4, <1>5, <1>6

LEMMA SearchFindSeats ==
    ASSUME NEW O \in SUBSET Peers, Typed(O), NEW h \in O, NEW p \in Peers, p # h, SeatOf(h, p),
           NEW a \in Peers, NEW target \in Peers \cup {None}, SearchFind(a, target)
    PROVE  SeatOf(h, p)'
<1> DEFINE asked == {q \in Peers : <<a, q>> \in up /\ target \in {None, q}}
           query == [id |-> spent.searches + 1, target |-> target]
<1>1. wire' = SendTo(wire, a, asked, "search", query) /\ UNCHANGED <<entry, pending>>
    BY DEF SearchFind
<1>2. spent.searches + 1 \in Nat
    BY DEF Typed, SpentOK, Kinds
<1>3. [type |-> "search", body |-> query] \in Words(O) /\ Streams(wire, Words(O))
    BY <1>2, WordsOf DEF Typed, LinkTyped
<1> HIDE DEF asked, query
<1>4. StreamsSame(h, p)
    BY <1>1, <1>3, SentBetween DEF StreamsSame
<1>5. StatesSame(p) /\ HostSame(h, p)
    BY <1>1, NoEntryWritten
<1> QED
    BY <1>1, <1>4, <1>5, SeatKept DEF Awaits

-----------------------------------------------------------------------------
(* The tick.                                                               *)

LEMMA QuietSeats ==
    ASSUME NEW h \in Peers, NEW p \in Peers, SeatOf(h, p), UNCHANGED <<entry, pending, wire>>
    PROVE  SeatOf(h, p)'
<1>1. StatesSame(p) /\ HostSame(h, p) /\ StreamsSame(h, p)
    BY NoEntryWritten, StreamsKept
<1> QED
    BY <1>1, SeatKept DEF Awaits

LEMMA JoinAnsweredSeats ==
    ASSUME JoinsOK, NEW h \in Peers, NEW p \in Peers, SeatOf(h, p), NEW a \in Peers,
           NEW i, JoinAnswered(a, i)
    PROVE  SeatOf(h, p)'
<1>1. /\ UNCHANGED <<entry, wire>> /\ i \in DOMAIN pending[a] /\ pending[a][i] = "answered"
      /\ pending' = [pending EXCEPT ![a] = RemoveAt(@, i)]
    BY DEF JoinAnswered, linkVars
<1>2. /\ \A r \in Peers \ {a} : pending'[r] = pending[r]
      /\ \A j \in DOMAIN pending[a] : j # i => pending[a][j] \in Range(pending'[a])
    BY <1>1, PendingRemoved
<1>3. Awaits(p) => Awaits(p)'
    BY <1>1, <1>2 DEF Awaits, Range
<1>4. StatesSame(p) /\ HostSame(h, p) /\ StreamsSame(h, p)
    BY <1>1, NoEntryWritten, StreamsKept
<1> QED
    BY <1>3, <1>4, SeatKept

(* A join is given up while nothing of it is under way, or goes astray.        *)
LEMMA JoinTimedOutSeats ==
    ASSUME NEW O \in SUBSET Peers, Typed(O), JoinsOK, NEW h \in O, NEW p \in Peers,
           Fair(h, p)', SeatOf(h, p), NEW a \in Peers, NEW i, JoinTimedOut(a, i)
    PROVE  SeatOf(h, p)'
<1>1. /\ UNCHANGED wire /\ i \in DOMAIN pending[a] /\ pending[a][i] = "waiting"
      /\ pending' = [pending EXCEPT ![a] = RemoveAt(@, i)]
      /\ IF Held(a) # {} /\ State(a, ById(a)) = "joining" THEN Erase(a, ById(a)) ELSE UNCHANGED entry
      /\ \A pq \in Pairs : a \in {pq[1], pq[2]} => wire[pq] = <<>>
      /\ p # h /\ twice = {}
    BY DEF JoinTimedOut, linkVars, GoesAstray, Fair
<1>2. \A r \in Peers \ {a} : pending'[r] = pending[r]
    BY <1>1, PendingRemoved
<1>3. \A r \in Peers \ {a} : StatesSame(r) /\ \A x : HostSame(r, x)
    BY <1>1, ByIdHeld, OthersSame, NoEntryWritten DEF Typed
<1>4. CASE a # p
    <2>1. HostSame(h, p)
        <3>1. CASE a = h /\ Erase(h, ById(h)) /\ Held(h) # {} /\ State(h, ById(h)) = "joining"
            <4>1. ById(h) \in Names /\ \A x \in Names : x # ById(h) => State(h, x) = "none"
                BY <1>1, <3>1, OneState DEF Typed
            <4>2. \A x \in Names : State(h, x)' = "none" /\ State(h, x) # "hosting"
                <5>1. PICK n : n = ById(h)
                    OBVIOUS
                <5> QED
                    BY <3>1, <4>1, <5>1, EntryErased DEF Typed
            <4> QED
                BY <4>2 DEF HostSame, Hosts, Seated
        <3>2. CASE UNCHANGED entry
            BY <3>2, NoEntryWritten
        <3> QED
            BY <1>1, <1>3, <3>1, <3>2
    <2>2. StatesSame(p) /\ StreamsSame(h, p) /\ (Awaits(p)' <=> Awaits(p))
        BY <1>1, <1>2, <1>3, <1>4, StreamsKept DEF Awaits
    <2> QED
        BY <2>1, <2>2, SeatKept
<1>5. CASE a = p
    <2> DEFINE ph == <<p, h>>  hp == <<h, p>>
    <2>1. ph \in Pairs /\ hp \in Pairs /\ ph[1] = p /\ hp[2] = p
        BY <1>1 DEF Pairs
    <2> HIDE DEF ph, hp
    <2> DEFINE s == wire[ph]  r == wire[hp]
    <2>2. s = <<>> /\ r = <<>> /\ wire'[ph] = s /\ wire'[hp] = r
        BY <1>1, <1>5, <2>1
    <2> HIDE DEF s, r
    <2>3. /\ ~Asked(s) /\ OneAsk(s) /\ ~Leaving(p, s) /\ ~Asking(p, s)
          /\ ~Judged(p, r) /\ OneVerdict(p, r) /\ ~Ended(r) /\ ~Granted(p, r) /\ ~Outlived(p, r)
        BY <2>2, SaysNothing, Implied
    <2>4. /\ h \in Hosts => /\ Holds(p, "joined") => Seated(h, p)
                            /\ Holds(p, "joining") => ~Seated(h, p)
                            /\ Idle(p) => ~Seated(h, p)
          /\ h \notin Hosts => ~Holds(p, "joined")
        BY <2>3 DEF SeatOf, s, r, ph, hp
    <2>5. HostSame(h, p)
        BY <1>1, <1>3, <1>5
    <2>6. \/ StatesSame(p)
          \/ Holds(p, "joining") /\ Idle(p)'
        <3>1. CASE Held(p) # {} /\ State(p, ById(p)) = "joining"
            <4>1. PICK n : n = ById(p)
                OBVIOUS
            <4>2. /\ n \in Names /\ State(p, n) = "joining" /\ Erase(p, n)
                  /\ \A x \in Names : x # n => State(p, x) = "none"
                BY <1>1, <1>5, <3>1, <4>1, OneState DEF Typed
            <4>3. \A x \in Names : State(p, x)' = "none"
                BY <4>2, EntryErased DEF Typed
            <4> QED
                BY <4>2, <4>3 DEF Holds, Idle
        <3>2. CASE ~(Held(p) # {} /\ State(p, ById(p)) = "joining")
            BY <1>1, <1>5, <3>2, NoEntryWritten
        <3> QED
            BY <3>1, <3>2
    <2>7. /\ Holds(p, "joined")' => Holds(p, "joined")
          /\ Holds(p, "joining")' => Holds(p, "joining")
          /\ Idle(p)' => Idle(p) \/ Holds(p, "joining")
        BY <2>6, StatesHold DEF Holds, Idle
    <2> QED
        BY <2>2, <2>3, <2>4, <2>5, <2>7 DEF SeatOf, HostSame, ph, hp
<1> QED
    BY <1>4, <1>5

-----------------------------------------------------------------------------
(* The messages.                                                           *)

(* w is the wire once a has m, from b: the head of the stream, or something    *)
(* that was read before b was dropped.                                      *)
Read(w, a, b, m) ==
    \A pq \in Pairs :
        IF pq = <<b, a>> /\ <<a, b>> \in up
        THEN wire[pq] # <<>> /\ m = Head(wire[pq]) /\ w[pq] = Tail(wire[pq])
        ELSE w[pq] = wire[pq]

(* Only a verdict on p is about its seat, of all that is sent on a message.     *)
LEMMA SaidOnMessage ==
    ASSUME NEW O \in SUBSET Peers, EntriesOK(O), NEW h \in Peers, NEW p \in Peers, p # h,
           NEW a \in Peers, NEW b \in Peers \ {a}, NEW m \in Words(O), NEW w, Streams(w, Words(O)),
           OnNetworkMessage(a, b, m, w), ~(a = h /\ b = p /\ m.type = "request")
    PROVE  /\ SameAsks(p, w[<<p, h>>], wire'[<<p, h>>])
           /\ SameVerdicts(p, w[<<h, p>>], wire'[<<h, p>>])
<1>1. CASE m.type = "search"
    <2>1. OnSearch(a, b, m.body, w) /\ m.body \in [id : Nat, target : Peers \cup {None}]
        BY <1>1 DEF OnNetworkMessage, Words
    <2> DEFINE answer == [id |-> m.body.id, sessions |-> Hosted(a, m.body.target)]
    <2>2. wire' = SendTo(w, a, {b}, "found", answer)
        BY <2>1 DEF OnSearch
    <2>3. [type |-> "found", body |-> answer] \in Words(O)
        BY <2>1, HostedOK, WordsOf
    <2> HIDE DEF answer
    <2> QED
        BY <2>2, <2>3, SentBetween
<1>2. CASE m.type = "request"
    <2>1. PICK n : n = ById(a)
        OBVIOUS
    <2> DEFINE seated == Seat(InfosAt(a, n), b)
               admits == /\ Held(a) # {} /\ State(a, n) = "hosting"
                         /\ <<a, b>> \in up
                         /\ \/ b \in InfosAt(a, n).roster
                            \/ Cardinality(InfosAt(a, n).roster) < InfosAt(a, n).settings.room
               verdict == [player |-> b, ok |-> admits]
               told == SendTo(w, a, {b}, "response", verdict)
               others == SendTo(told, a, InfosAt(a, n).roster \ {a, b}, "response", verdict)
    <2>2. IF admits THEN wire' = SendTo(others, a, seated.roster \ {a}, "infos", seated)
          ELSE wire' = told
        BY <1>2, <2>1 DEF OnNetworkMessage, OnRequest, BroadcastSession, SendToMembers
    <2>3. [type |-> "response", body |-> verdict] \in Words(O) /\ verdict.player = b
        <3>1. admits \in BOOLEAN
            OBVIOUS
        <3> HIDE DEF admits
        <3> QED
            BY <3>1, WordsOf
    <2>4. admits => seated \in OwnInfos(O)
        BY <2>1, ByIdHeld, EntryParts, RosterOK
    <2> HIDE DEF admits, verdict, seated
    <2>5. a = h => verdict.player # p
        BY <1>2, <2>3
    <2>6. /\ SameAsks(p, w[<<p, h>>], told[<<p, h>>])
          /\ SameVerdicts(p, w[<<h, p>>], told[<<h, p>>])
          /\ Streams(told, Words(O))
        BY <2>3, <2>5, SentBetween, SendToOK
    <2> HIDE DEF told
    <2>7. /\ SameAsks(p, told[<<p, h>>], others[<<p, h>>])
          /\ SameVerdicts(p, told[<<h, p>>], others[<<h, p>>])
          /\ Streams(others, Words(O))
        BY <2>3, <2>5, <2>6, SentBetween, SendToOK
    <2> HIDE DEF others
    <2>8. CASE admits
        <3>1. [type |-> "infos", body |-> seated] \in Words(O)
            BY <2>4, <2>8, WordsOf
        <3>2. /\ SameAsks(p, others[<<p, h>>], wire'[<<p, h>>])
              /\ SameVerdicts(p, others[<<h, p>>], wire'[<<h, p>>])
            BY <2>2, <2>7, <2>8, <3>1, SentBetween
        <3> QED
            BY <2>6, <2>7, <3>2, SameAsOn
    <2>9. CASE ~admits
        BY <2>2, <2>6, <2>9
    <2> QED
        BY <2>8, <2>9
<1>3. CASE m.type \notin {"search", "request"}
    <2>1. wire' = w
        BY <1>3 DEF OnNetworkMessage, OnFound, OnResponse, OnInfos, OnDestroy, OnRegister, OnUnregister
    <2> QED
        BY <2>1, SameAsOn
<1> QED
    BY <1>1, <1>2, <1>3

(* Only what p and the owner say to each other changes what either holds of    *)
(* the seat of p.                                                          *)
LEMMA HeldOnMessage ==
    ASSUME NEW O \in SUBSET Peers, EntriesOK(O), OneSession(O), JoinsOK, twice = {},
           NEW h \in O, NEW p \in Peers, p # h,
           NEW a \in Peers, NEW b \in Peers \ {a}, NEW m, NEW w,
           OnNetworkMessage(a, b, m, w),
           a = h /\ b = p => m.type \notin {"request", "unregister"},
           a = p /\ b = h => m.type \notin {"response", "destroy"}
    PROVE  StatesSame(p) /\ HostSame(h, p) /\ (Awaits(p)' <=> Awaits(p))
<1>0. PICK n : n = ById(a)
    OBVIOUS
<1>1. Held(a) # {} => /\ n \in Names /\ State(a, n) # "none" /\ InfosAt(a, n).owner = h
                      /\ InfosAt(a, n) \in OwnInfos(O)
                      /\ State(a, n) = "hosting" => a = h
    BY <1>0, OneState, EntryParts
<1>2. CASE UNCHANGED <<entry, pending>>
    BY <1>2, NoEntryWritten DEF Awaits
<1>3. ASSUME UNCHANGED pending, n \in Names, NEW infos, Becomes(a, n, State(a, n), infos),
             a # h \/ (p \in infos.roster <=> p \in InfosAt(a, n).roster)
      PROVE  StatesSame(p) /\ HostSame(h, p) /\ (Awaits(p)' <=> Awaits(p))
    BY <1>3, RosterWritten DEF Awaits
<1>4. CASE m.type \in {"search", "found"}
    BY <1>2, <1>4 DEF OnNetworkMessage, OnSearch, OnFound
<1>5. CASE m.type = "request"
    <2>1. OnRequest(a, b, w)
        BY <1>5 DEF OnNetworkMessage
    <2>2. CASE ~UNCHANGED entry
        <3> DEFINE seated == Seat(InfosAt(a, n), b)
        <3>1. /\ UNCHANGED pending /\ Held(a) # {} /\ State(a, n) = "hosting"
              /\ Becomes(a, n, State(a, n), seated)
            BY <1>0, <2>1, <2>2 DEF OnRequest
        <3>2. a = h /\ b # p
            BY <1>1, <1>5, <3>1
        <3>3. p \in seated.roster <=> p \in InfosAt(a, n).roster
            BY <1>1, <3>1, <3>2, RosterChanged
        <3> HIDE DEF seated
        <3> QED
            BY <1>1, <1>3, <3>1, <3>3
    <2> QED
        BY <1>2, <2>1, <2>2 DEF OnRequest
<1>6. CASE m.type = "response"
    <2>1. OnResponse(a, b, m.body, w)
        BY <1>6 DEF OnNetworkMessage
    <2>2. CASE ~UNCHANGED <<entry, pending>>
        <3>1. /\ Held(a) # {} /\ InfosAt(a, n).owner = b
              /\ \/ Erase(a, n) \/ (\E state, infos : Becomes(a, n, state, infos)) \/ UNCHANGED entry
              /\ UNCHANGED pending \/ pending' = [pending EXCEPT ![a][1] = "answered"]
            BY <1>0, <2>1, <2>2 DEF OnResponse, OnVerdict
        <3>2. a # h /\ a # p
            BY <1>1, <1>6, <3>1
        <3>3. StatesSame(p) /\ HostSame(h, p)
            BY <1>1, <3>1, <3>2, OthersSame, NoEntryWritten
        <3>4. pending'[p] = pending[p]
            BY <3>1, <3>2 DEF JoinsOK
        <3> QED
            BY <3>3, <3>4 DEF Awaits
    <2> QED
        BY <1>2, <2>2
<1>7. CASE m.type = "infos"
    <2>1. OnInfos(a, b, m.body, w)
        BY <1>7 DEF OnNetworkMessage
    <2>2. CASE ~UNCHANGED entry
        <3>1. /\ UNCHANGED pending /\ Held(a) # {} /\ InfosAt(a, n).owner = b
              /\ Becomes(a, n, State(a, n), m.body)
            BY <1>0, <2>1, <2>2 DEF OnInfos
        <3> QED
            BY <1>1, <1>3, <3>1
    <2> QED
        BY <1>2, <2>1, <2>2 DEF OnInfos
<1>8. CASE m.type = "destroy"
    <2>1. OnDestroy(a, b, w)
        BY <1>8 DEF OnNetworkMessage
    <2>2. CASE ~UNCHANGED entry
        <3> DEFINE its == {x \in Held(a) : State(a, x) # "hosting" /\ InfosAt(a, x).owner = b}
        <3>1. its # {} /\ Erase(a, Min(its)) /\ UNCHANGED pending
            BY <2>1, <2>2 DEF OnDestroy
        <3>2. its \in SUBSET Nat /\ its \subseteq Names
            BY SessionsAssumption DEF Held
        <3>3. PICK x \in its : x = Min(its)
            <4> HIDE DEF its
            <4> QED
                BY <3>1, <3>2, MinOf
        <3>4. Held(a) # {} /\ InfosAt(a, x).owner = b /\ x \in Names /\ x \in Held(a)
            BY <3>2
        <3>5. InfosAt(a, x).owner = h
            BY <3>4, OneState
        <3>6. a # h /\ a # p
            BY <1>8, <3>4, <3>5
        <3>7. StatesSame(p) /\ HostSame(h, p)
            BY <3>1, <3>3, <3>4, <3>6, OthersSame
        <3> QED
            BY <3>1, <3>7 DEF Awaits
    <2> QED
        BY <1>2, <2>1, <2>2 DEF OnDestroy
<1>9. CASE m.type = "register"
    <2>1. OnRegister(a, b, m.body, w)
        BY <1>9 DEF OnNetworkMessage
    <2>2. CASE ~UNCHANGED entry
        <3>1. /\ UNCHANGED pending /\ Held(a) # {} /\ InfosAt(a, n).owner = b
              /\ Becomes(a, n, State(a, n), Seat(InfosAt(a, n), m.body))
            BY <1>0, <2>1, <2>2 DEF OnRegister
        <3> QED
            BY <1>1, <1>3, <3>1
    <2> QED
        BY <1>2, <2>1, <2>2 DEF OnRegister
<1>10. CASE m.type = "unregister"
    <2>1. OnUnregister(a, b, m.body, w)
        BY <1>10 DEF OnNetworkMessage
    <2>2. CASE ~UNCHANGED entry
        <3> DEFINE unseated == Unseat(InfosAt(a, n), m.body)
        <3>1. /\ UNCHANGED pending /\ Held(a) # {} /\ b \in {InfosAt(a, n).owner, m.body}
              /\ Becomes(a, n, State(a, n), unseated)
            BY <1>0, <2>1, <2>2 DEF OnUnregister
        <3>2. a = h => m.body # p
            BY <1>1, <1>10, <3>1
        <3>3. a # h \/ (p \in unseated.roster <=> p \in InfosAt(a, n).roster)
            BY <1>1, <3>1, <3>2, RosterChanged
        <3> HIDE DEF unseated
        <3> QED
            BY <1>1, <1>3, <3>1, <3>3
    <2> QED
        BY <1>2, <2>1, <2>2 DEF OnUnregister
<1> QED
    BY <1>4, <1>5, <1>6, <1>7, <1>8, <1>9, <1>10 DEF OnNetworkMessage

(* Streams when the two have nothing to say to each other of the seat.         *)
LEMMA ReadBetween ==
    ASSUME NEW O \in SUBSET Peers, Streams(wire, Words(O)), NEW h \in Peers, NEW p \in Peers, p # h,
           NEW a \in Peers, NEW b \in Peers \ {a}, NEW m, NEW w, Read(w, a, b, m),
           a = h /\ b = p => m.type # "request" /\ ~Leave(p, m),
           a = p /\ b = h => m.type # "destroy" /\ ~Verdict(p, m)
    PROVE  /\ SameAsks(p, wire[<<p, h>>], w[<<p, h>>])
           /\ SameVerdicts(p, wire[<<h, p>>], w[<<h, p>>])
<1> DEFINE ph == <<p, h>>  hp == <<h, p>>  ba == <<b, a>>  W == Words(O) \cup {Eof}
<1>1. /\ ph \in Pairs /\ hp \in Pairs
      /\ ph = ba => a = h /\ b = p
      /\ hp = ba => a = p /\ b = h
    BY DEF Pairs
<1>2. \A pq \in Pairs : \/ w[pq] = wire[pq]
                        \/ pq = ba /\ wire[pq] # <<>> /\ m = Head(wire[pq]) /\ w[pq] = Tail(wire[pq])
    BY DEF Read
<1>3. \A pq \in Pairs : wire[pq] \in Seq(W)
    BY DEF Streams
<1> HIDE DEF ph, hp, ba, W
<1>4. SameAsks(p, wire[ph], w[ph])
    <2>1. CASE w[ph] = wire[ph]
        BY <2>1, SameAsOn
    <2>2. CASE w[ph] # wire[ph]
        <3>1. /\ a = h /\ b = p
              /\ wire[ph] # <<>> /\ m = Head(wire[ph]) /\ w[ph] = Tail(wire[ph])
            BY <1>1, <1>2, <2>2
        <3>2. m.type # "request" /\ ~Leave(p, m)
            BY <3>1
        <3>3. wire[ph] \in Seq(W)
            BY <1>1, <1>3
        <3> QED
            BY <3>1, <3>2, <3>3, AsksRead
    <2> QED
        BY <2>1, <2>2
<1>5. SameVerdicts(p, wire[hp], w[hp])
    <2>1. CASE w[hp] = wire[hp]
        BY <2>1, SameAsOn
    <2>2. CASE w[hp] # wire[hp]
        <3>1. /\ a = p /\ b = h
              /\ wire[hp] # <<>> /\ m = Head(wire[hp]) /\ w[hp] = Tail(wire[hp])
            BY <1>1, <1>2, <2>2
        <3>2. m.type # "destroy" /\ ~Verdict(p, m)
            BY <3>1
        <3>3. wire[hp] \in Seq(W)
            BY <1>1, <1>3
        <3> QED
            BY <3>1, <3>2, <3>3, VerdictsRead
    <2> QED
        BY <2>1, <2>2
<1> QED
    BY <1>4, <1>5 DEF ph, hp

(* What is read of the seat.                                                *)
LEMMA AskRead ==
    ASSUME NEW O \in SUBSET Peers, Streams(wire, Words(O)), NEW h \in Peers, NEW p \in Peers, p # h,
           <<h, p>> \in up, NEW m, NEW w, Read(w, h, p, m)
    PROVE  LET s == wire[<<p, h>>]
               t == w[<<p, h>>]
           IN  /\ w[<<h, p>>] = wire[<<h, p>>]
               /\ m.type = "request" /\ OneAsk(s)
                    => /\ Asked(s) /\ ~Asked(t) /\ OneAsk(t) /\ ~Asking(p, t)
                       /\ Leaving(p, t) <=> Leaving(p, s)
                       /\ Asking(p, s) \/ Leaving(p, s)
               /\ Leave(p, m) /\ OneAsk(s)
                    => /\ Asked(t) <=> Asked(s)
                       /\ OneAsk(t)
                       /\ Asking(p, t) <=> Asking(p, s)
                       /\ Leaving(p, t) => Leaving(p, s)
                       /\ Asking(p, s) \/ Leaving(p, s)
<1> DEFINE ph == <<p, h>>  hp == <<h, p>>  W == Words(O) \cup {Eof}
<1>1. /\ ph \in Pairs /\ hp \in Pairs /\ ph # hp /\ wire[ph] \in Seq(W)
    BY DEF Pairs, Streams
<1>2. /\ wire[ph] # <<>> /\ m = Head(wire[ph]) /\ w[ph] = Tail(wire[ph])
      /\ w[hp] = wire[hp]
    BY <1>1 DEF Read
<1> DEFINE s == wire[ph]  t == w[ph]
<1>3. s \in Seq(W) /\ s # <<>> /\ m = Head(s) /\ t = Tail(s)
    BY <1>1, <1>2
<1> HIDE DEF s, t, W, ph, hp
<1>4. /\ m.type = "request" /\ OneAsk(s)
           => /\ Asked(s) /\ ~Asked(t) /\ OneAsk(t) /\ ~Asking(p, t)
              /\ Leaving(p, t) <=> Leaving(p, s)
              /\ Asking(p, s) \/ Leaving(p, s)
      /\ Leave(p, m) /\ OneAsk(s)
           => /\ Asked(t) <=> Asked(s)
              /\ OneAsk(t)
              /\ Asking(p, t) <=> Asking(p, s)
              /\ Leaving(p, t) => Leaving(p, s)
              /\ Asking(p, s) \/ Leaving(p, s)
    BY <1>3, AsksRead
<1> QED
    BY <1>2, <1>4 DEF s, t, ph, hp

LEMMA VerdictRead ==
    ASSUME NEW O \in SUBSET Peers, Streams(wire, Words(O)), NEW h \in Peers, NEW p \in Peers, p # h,
           <<p, h>> \in up, NEW m, NEW w, Read(w, p, h, m)
    PROVE  LET s == wire[<<h, p>>]
               t == w[<<h, p>>]
           IN  /\ w[<<p, h>>] = wire[<<p, h>>]
               /\ Verdict(p, m) /\ OneVerdict(p, s)
                    => /\ Judged(p, s) /\ ~Judged(p, t) /\ OneVerdict(p, t)
                       /\ Granted(p, s) <=> m.body.ok
                       /\ Ended(t) <=> Ended(s)
                       /\ m.body.ok /\ ~Outlived(p, s) => Ended(s)
               /\ m.type = "destroy" => /\ Ended(s)
                                        /\ Judged(p, t) <=> Judged(p, s)
                                        /\ OneVerdict(p, t) <=> OneVerdict(p, s)
<1> DEFINE ph == <<p, h>>  hp == <<h, p>>  W == Words(O) \cup {Eof}
<1>1. /\ ph \in Pairs /\ hp \in Pairs /\ ph # hp /\ wire[hp] \in Seq(W)
    BY DEF Pairs, Streams
<1>2. /\ wire[hp] # <<>> /\ m = Head(wire[hp]) /\ w[hp] = Tail(wire[hp])
      /\ w[ph] = wire[ph]
    BY <1>1 DEF Read
<1> DEFINE s == wire[hp]  t == w[hp]
<1>3. s \in Seq(W) /\ s # <<>> /\ m = Head(s) /\ t = Tail(s)
    BY <1>1, <1>2
<1> HIDE DEF s, t, W, ph, hp
<1>4. /\ Verdict(p, m) /\ OneVerdict(p, s)
           => /\ Judged(p, s) /\ ~Judged(p, t) /\ OneVerdict(p, t)
              /\ Granted(p, s) <=> m.body.ok
              /\ Ended(t) <=> Ended(s)
              /\ m.body.ok /\ ~Outlived(p, s) => Ended(s)
      /\ m.type = "destroy" => /\ Ended(s)
                               /\ Judged(p, t) <=> Judged(p, s)
                               /\ OneVerdict(p, t) <=> OneVerdict(p, s)
    BY <1>3, VerdictsRead
<1> QED
    BY <1>2, <1>4 DEF s, t, ph, hp

(* The host seats whom it grants a seat, and nobody it refuses has one.         *)
LEMMA RequestSeats ==
    ASSUME NEW O \in SUBSET Peers, Typed(O), JoinsOK, twice = {}, NEW h \in O, NEW p \in Peers,
           p # h, Connected(p, h), SeatOf(h, p), NEW m, m.type = "request", NEW w,
           Streams(w, Words(O)), Read(w, h, p, m), OnRequest(h, p, w)
    PROVE  SeatOf(h, p)'
<1>0. PICK n : n = ById(h)
    OBVIOUS
<1> DEFINE seated == Seat(InfosAt(h, n), p)
           admits == /\ Held(h) # {} /\ State(h, n) = "hosting"
                     /\ <<h, p>> \in up
                     /\ \/ p \in InfosAt(h, n).roster
                        \/ Cardinality(InfosAt(h, n).roster) < InfosAt(h, n).settings.room
           verdict == [player |-> p, ok |-> admits]
           told == SendTo(w, h, {p}, "response", verdict)
           others == SendTo(told, h, InfosAt(h, n).roster \ {h, p}, "response", verdict)
           m1 == [type |-> "response", body |-> verdict]
           W == Words(O) \cup {Eof}
           ph == <<p, h>>  hp == <<h, p>>
<1>1. /\ UNCHANGED pending
      /\ IF admits THEN /\ Becomes(h, n, "hosting", seated)
                        /\ wire' = SendTo(others, h, seated.roster \ {h}, "infos", seated)
         ELSE wire' = told /\ UNCHANGED entry
    BY <1>0 DEF OnRequest, BroadcastSession, SendToMembers
<1>2. m1 \in Words(O) /\ m1 \in W /\ Verdict(p, m1) /\ (m1.body.ok <=> admits)
    <2>1. admits \in BOOLEAN
        OBVIOUS
    <2> HIDE DEF admits
    <2>2. m1 \in Words(O)
        BY <2>1, WordsOf
    <2> QED
        BY <2>1, <2>2 DEF Verdict
<1>3. /\ ph \in Pairs /\ hp \in Pairs /\ ph[1] = p /\ ph[2] = h /\ hp[1] = h /\ hp[2] = p
      /\ hp \in up /\ Reads(p, h)
    BY DEF Pairs, Connected, Reads
<1>4. told[hp] = w[hp] \o <<m1>> /\ told[ph] = w[ph] /\ Streams(told, Words(O))
    <2> HIDE DEF admits, verdict
    <2>1. ASSUME NEW pq \in Pairs
          PROVE  told[pq] = IF pq[1] = h /\ pq[2] \in {p} /\ pq \in up /\ Reads(pq[2], h)
                            THEN w[pq] \o <<m1>> ELSE w[pq]
        BY <1>2, SentExactly
    <2>2. Streams(told, Words(O))
        BY <1>2, SendToOK
    <2> HIDE DEF ph, hp, m1, told
    <2> QED
        BY <1>3, <2>1, <2>2
<1>5. admits => seated \in OwnInfos(O) /\ n \in Names
    BY <1>0, ByIdHeld, EntryParts, RosterOK DEF Typed
<1>6. admits <=> Seated(h, p)'
    <2>1. CASE admits
        <3>1. State(h, n)' = "hosting" /\ InfosAt(h, n)' = seated
            BY <1>1, <1>5, <2>1, EntryWritten DEF Typed
        <3>2. p \in seated.roster
            BY <1>5, <2>1, EntryParts, OwnInfosParts DEF Seat, Typed, OwnInfos, Infos
        <3> QED
            BY <1>5, <2>1, <3>1, <3>2 DEF Seated
    <2>2. CASE ~admits
        <3>1. ASSUME Seated(h, p)
              PROVE  FALSE
            <4>1. PICK x \in Names : State(h, x) = "hosting" /\ p \in InfosAt(h, x).roster
                BY <3>1 DEF Seated
            <4>2. x \in Held(h) /\ x = n
                BY <1>0, <4>1, OneState DEF Held, Typed
            <4> QED
                BY <2>2, <4>1, <4>2 DEF Connected
        <3>2. Seated(h, p)' <=> Seated(h, p)
            BY <1>1, <2>2 DEF Seated, State, InfosAt
        <3> QED
            BY <2>2, <3>1, <3>2
    <2> QED
        BY <2>1, <2>2
<1>7. /\ \A r \in Peers : StatesSame(r)
      /\ h \in Hosts' <=> h \in Hosts
      /\ admits => h \in Hosts
    <2>1. \A r \in Peers : StatesSame(r)
        <3>1. CASE admits
            BY <1>1, <1>5, <3>1, RosterWritten DEF Typed
        <3>2. CASE ~admits
            BY <1>1, <3>2, NoEntryWritten
        <3> QED
            BY <3>1, <3>2
    <2> QED
        BY <1>5, <2>1 DEF StatesSame, Hosts
<1> HIDE DEF admits, seated, verdict, told
<1>8. /\ SameAsks(p, told[ph], wire'[ph])
      /\ SameVerdicts(p, told[hp], wire'[hp])
    <2>1. CASE admits
        <3>1. /\ SameAsks(p, told[<<p, h>>], others[<<p, h>>])
              /\ SameVerdicts(p, told[<<h, p>>], others[<<h, p>>])
              /\ Streams(others, Words(O))
            BY <1>2, <1>4, SentBetween, SendToOK
        <3> HIDE DEF others
        <3>2. [type |-> "infos", body |-> seated] \in Words(O)
            BY <1>5, <2>1, WordsOf
        <3>3. /\ SameAsks(p, others[<<p, h>>], wire'[<<p, h>>])
              /\ SameVerdicts(p, others[<<h, p>>], wire'[<<h, p>>])
            BY <1>1, <2>1, <3>1, <3>2, SentBetween
        <3> QED
            BY <3>1, <3>3, SameAsOn
    <2>2. CASE ~admits
        BY <1>1, <2>2, SameAsOn
    <2> QED
        BY <2>1, <2>2
<1> DEFINE s == wire[ph]  t == wire'[ph]  t0 == w[ph]  r == wire[hp]  u == wire'[hp]  u0 == told[hp]
<1>9. OneAsk(s) /\ OneVerdict(p, r) /\ ~(Asked(s) /\ Judged(p, r))
    BY DEF SeatOf, s, r, ph, hp
<1>10. /\ w[hp] = r
       /\ Asked(s) /\ ~Asked(t0) /\ OneAsk(t0) /\ ~Asking(p, t0)
       /\ Leaving(p, t0) <=> Leaving(p, s)
       /\ Asking(p, s) \/ Leaving(p, s)
    BY <1>9, AskRead DEF s, r, t0, ph, hp, Typed, LinkTyped, Connected
<1> HIDE DEF ph, hp, m1
<1>11. r \in Seq(W) /\ u0 = r \o <<m1>> /\ m1 \in W /\ t0 = told[ph]
    <2>1. wire[hp] \in Seq(W)
        BY <1>3 DEF Typed, LinkTyped, Streams
    <2> QED
        BY <1>2, <1>4, <1>10, <2>1
<1> HIDE DEF s, t, t0, r, u, u0, W
<1>12. /\ Judged(p, u0) /\ OneVerdict(p, u0)
       /\ Granted(p, u0) <=> m1.body.ok
       /\ Ended(u0) <=> Ended(r)
       /\ m1.body.ok \/ ~Outlived(p, u0)
    BY <1>2, <1>9, <1>10, <1>11, VerdictsSent
<1>13. /\ ~Asked(t) /\ OneAsk(t) /\ ~Asking(p, t)
       /\ Leaving(p, t) <=> Leaving(p, s)
       /\ Judged(p, u) /\ OneVerdict(p, u)
       /\ Granted(p, u) <=> admits
       /\ Ended(u) <=> Ended(r)
       /\ admits \/ ~Outlived(p, u)
    BY <1>2, <1>8, <1>10, <1>11, <1>12 DEF SameAsks, SameVerdicts, t, u, u0
<1>14. /\ Asked(s) => Awaits(p)
       /\ Leaving(p, s) => Idle(p)
       /\ Asking(p, s) => ~Holds(p, "joined")
       /\ h \in Hosts => ~Ended(r) /\ (Asking(p, s) => Holds(p, "joining"))
       /\ h \notin Hosts => (Holds(p, "joined") => Ended(r))
    BY DEF SeatOf, s, r, ph, hp
<1>15. /\ Holds(p, "joined")' <=> Holds(p, "joined")
       /\ Holds(p, "joining")' <=> Holds(p, "joining")
       /\ Idle(p)' <=> Idle(p)
       /\ Awaits(p)' <=> Awaits(p)
    BY <1>1, <1>7, StatesHold DEF Awaits
<1>16. Holds(p, "joining") => ~Idle(p)
    BY DEF Holds, Idle
<1> QED
    BY <1>6, <1>7, <1>10, <1>13, <1>14, <1>15, <1>16 DEF SeatOf, t, u, ph, hp

(* The host unseats who leaves.                                             *)
LEMMA UnregisterSeats ==
    ASSUME NEW O \in SUBSET Peers, Typed(O), JoinsOK, twice = {}, NEW h \in O, NEW p \in Peers,
           p # h, Connected(p, h), SeatOf(h, p), NEW m, Leave(p, m), NEW w,
           Read(w, h, p, m), OnUnregister(h, p, m.body, w)
    PROVE  SeatOf(h, p)'
<1>0. PICK n : n = ById(h)
    OBVIOUS
<1>1. m.body = p /\ wire' = w /\ UNCHANGED pending
    BY DEF Leave, OnUnregister
<1>2. Held(h) # {} => /\ n \in Names /\ InfosAt(h, n).owner = h /\ InfosAt(h, n) \in OwnInfos(O)
                      /\ \A x \in Names : x # n => State(h, x) = "none"
    BY <1>0, OneState, EntryParts DEF Typed
<1>3. (\A r \in Peers : StatesSame(r)) /\ (h \in Hosts' => ~Seated(h, p)')
    <2> DEFINE unseated == Unseat(InfosAt(h, n), p)
    <2>1. CASE Held(h) # {}
        <3>1. Becomes(h, n, State(h, n), unseated)
            BY <1>0, <1>1, <1>2, <2>1 DEF OnUnregister
        <3>2. p \notin unseated.roster
            BY <1>2, <2>1 DEF Unseat, OwnInfos, Infos
        <3> HIDE DEF unseated
        <3>3. /\ InfosAt(h, n)' = unseated
              /\ \A x \in Names : x # n => State(h, x)' = "none"
            BY <1>2, <2>1, <3>1, EntryWritten DEF Typed
        <3>4. ~Seated(h, p)'
            BY <3>2, <3>3 DEF Seated
        <3> QED
            BY <1>2, <2>1, <3>1, <3>4, RosterWritten DEF Typed
    <2>2. CASE Held(h) = {}
        <3>1. UNCHANGED entry
            BY <2>2 DEF OnUnregister
        <3> QED
            BY <2>2, <3>1, NoEntryWritten DEF Hosts, Held, State
    <2> QED
        BY <2>1, <2>2
<1>4. h \in Hosts' <=> h \in Hosts
    BY <1>3 DEF StatesSame, Hosts
<1> DEFINE ph == <<p, h>>  hp == <<h, p>>
           s == wire[ph]  t == wire'[ph]  r == wire[hp]
<1>5. OneAsk(s) /\ OneVerdict(p, r) /\ ~(Asked(s) /\ Judged(p, r))
    BY DEF SeatOf
<1>6. /\ wire'[hp] = r
      /\ Asked(t) <=> Asked(s)
      /\ OneAsk(t)
      /\ Asking(p, t) <=> Asking(p, s)
      /\ Leaving(p, t) => Leaving(p, s)
      /\ Asking(p, s) \/ Leaving(p, s)
    BY <1>1, <1>5, AskRead DEF Typed, LinkTyped, Connected
<1>7. /\ Asked(s) \/ Judged(p, r) => Awaits(p)
      /\ Leaving(p, s) => Idle(p)
      /\ Asking(p, s) => ~Holds(p, "joined")
      /\ h \in Hosts => ~Ended(r) /\ (Asking(p, s) => Holds(p, "joining"))
      /\ h \notin Hosts => /\ Holds(p, "joined") => Ended(r)
                           /\ Holds(p, "joining") => ~Outlived(p, r)
    BY DEF SeatOf
<1> HIDE DEF s, t, r, ph, hp
<1>8. /\ Holds(p, "joined")' <=> Holds(p, "joined")
      /\ Holds(p, "joining")' <=> Holds(p, "joining")
      /\ Idle(p)' <=> Idle(p)
      /\ Awaits(p)' <=> Awaits(p)
    BY <1>1, <1>3, StatesHold DEF Awaits
<1>9. Holds(p, "joining") \/ Holds(p, "joined") => ~Idle(p)
    BY DEF Holds, Idle
<1> QED
    BY <1>3, <1>4, <1>5, <1>6, <1>7, <1>8, <1>9 DEF SeatOf, t, ph, hp

(* Who hears the verdict it waits for is in if the host has it on its roster.   *)
LEMMA VerdictSeats ==
    ASSUME NEW O \in SUBSET Peers, Typed(O), JoinsOK, twice = {}, NEW h \in O, NEW p \in Peers,
           p # h, Connected(p, h), SeatOf(h, p), NEW m \in Words(O), Verdict(p, m), NEW w,
           Read(w, p, h, m), OnResponse(p, h, m.body, w)
    PROVE  SeatOf(h, p)'
<1>0. PICK n : n = ById(p)
    OBVIOUS
<1>1. m.body.player = p /\ m.body.ok \in BOOLEAN /\ wire' = w
    BY DEF Verdict, OnResponse, Words
<1>2. /\ Idle(p) <=> Held(p) = {}
      /\ Held(p) # {} => /\ n \in Names /\ State(p, n) \in {"joining", "joined"}
                         /\ InfosAt(p, n).owner = h
                         /\ \A x \in Names : x # n => State(p, x) = "none"
    BY <1>0, OneState DEF Typed
<1> DEFINE ph == <<p, h>>  hp == <<h, p>>
           s == wire[ph]  r == wire[hp]  u == wire'[hp]
<1>3. OneAsk(s) /\ OneVerdict(p, r) /\ ~(Asked(s) /\ Judged(p, r))
    BY DEF SeatOf
<1>4. /\ wire'[ph] = s
      /\ Judged(p, r) /\ ~Judged(p, u) /\ OneVerdict(p, u)
      /\ Granted(p, r) <=> m.body.ok
      /\ Ended(u) <=> Ended(r)
      /\ m.body.ok /\ ~Outlived(p, r) => Ended(r)
    BY <1>1, <1>3, VerdictRead DEF Typed, LinkTyped, Connected
<1>5. ~Asked(s) /\ ~Asking(p, s) /\ ~Outlived(p, u)
    BY <1>3, <1>4, Implied
<1>6. /\ Judged(p, r) => Awaits(p)
      /\ Leaving(p, s) => Idle(p)
      /\ h \in Hosts =>
           /\ ~Ended(r)
           /\ ~Asking(p, s) /\ ~Leaving(p, s) =>
                /\ Holds(p, "joined") => Seated(h, p)
                /\ Holds(p, "joining") => (Granted(p, r) <=> Seated(h, p))
                /\ Idle(p) => ~Seated(h, p)
      /\ h \notin Hosts => /\ Holds(p, "joined") => Ended(r)
                           /\ Holds(p, "joining") => ~Outlived(p, r)
    BY DEF SeatOf
<1> HIDE DEF s, r, u, ph, hp
<1>7. pending[p] # <<>>
    BY <1>4, <1>6 DEF Awaits, Range
<1>8. HostSame(h, p)
    <2>1. \/ Erase(p, n) /\ n \in Names
          \/ (\E state, infos : Becomes(p, n, state, infos)) /\ n \in Names
          \/ UNCHANGED entry
        BY <1>0, <1>2 DEF OnResponse, OnVerdict
    <2> QED
        BY <2>1, OthersSame, NoEntryWritten DEF Typed
<1>9. CASE Held(p) = {}
    <2>1. UNCHANGED entry
        BY <1>9 DEF OnResponse
    <2>2. /\ Idle(p) /\ ~Holds(p, "joined") /\ ~Holds(p, "joining")
          /\ Idle(p)' /\ ~Holds(p, "joined")' /\ ~Holds(p, "joining")'
        <3>1. \A x \in Names : State(p, x) = "none" /\ State(p, x)' = "none"
            BY <1>9, <2>1 DEF Held, State
        <3> QED
            BY <3>1 DEF Idle, Holds
    <2> QED
        BY <1>3, <1>4, <1>5, <1>6, <1>8, <2>2 DEF SeatOf, HostSame, u, ph, hp
<1>10. CASE Held(p) # {}
    <2>1. OnVerdict(p, n, m.body.ok)
        BY <1>0, <1>1, <1>2, <1>7, <1>10 DEF OnResponse
    <2>2. ~Idle(p) /\ ~Leaving(p, s)
        BY <1>2, <1>6, <1>10
    <2>3. Holds(p, State(p, n))
        BY <1>2, <1>10 DEF Holds
    <2>4. \/ m.body.ok /\ Holds(p, "joined")' /\ ~Holds(p, "joining")' /\ ~Idle(p)'
          \/ /\ ~m.body.ok /\ State(p, n) = "joining"
             /\ Idle(p)' /\ ~Holds(p, "joined")' /\ ~Holds(p, "joining")'
          \/ /\ ~m.body.ok /\ State(p, n) = "joined"
             /\ Holds(p, "joined")' /\ ~Holds(p, "joining")' /\ ~Idle(p)'
        <3>1. CASE m.body.ok
            <4>1. State(p, n)' = "joined" /\ \A x \in Names : x # n => State(p, x)' = "none"
                BY <1>2, <1>10, <2>1, <3>1, EntryWritten DEF OnVerdict, Typed
            <4> QED
                BY <1>2, <1>10, <3>1, <4>1 DEF Holds, Idle
        <3>2. CASE ~m.body.ok /\ State(p, n) = "joining"
            <4>1. \A x \in Names : State(p, x)' = "none"
                BY <1>2, <1>10, <2>1, <3>2, EntryErased DEF OnVerdict, Typed
            <4> QED
                BY <3>2, <4>1 DEF Holds, Idle
        <3>3. CASE ~m.body.ok /\ State(p, n) = "joined"
            <4>1. UNCHANGED entry
                BY <2>1, <3>3 DEF OnVerdict
            <4>2. State(p, n)' = "joined" /\ \A x \in Names : x # n => State(p, x)' = "none"
                BY <1>2, <1>10, <3>3, <4>1 DEF State
            <4> QED
                BY <1>2, <1>10, <3>3, <4>2 DEF Holds, Idle
        <3> QED
            BY <1>1, <1>2, <1>10, <3>1, <3>2, <3>3
    <2>5. /\ h \in Hosts => /\ Holds(p, "joined")' => Seated(h, p)
                            /\ Idle(p)' => ~Seated(h, p)
          /\ h \notin Hosts => (Holds(p, "joined")' => Ended(r))
        BY <1>2, <1>4, <1>5, <1>6, <1>10, <2>2, <2>3, <2>4
    <2>6. ~Holds(p, "joining")'
        BY <2>4
    <2> QED
        BY <1>3, <1>4, <1>5, <1>6, <1>8, <2>2, <2>5, <2>6 DEF SeatOf, HostSame, u, ph, hp
<1> QED
    BY <1>9, <1>10

(* Who hears that the session is over holds it no more.                        *)
LEMMA DestroyedSeats ==
    ASSUME NEW O \in SUBSET Peers, Typed(O), JoinsOK, twice = {}, NEW h \in O, NEW p \in Peers,
           p # h, Connected(p, h), SeatOf(h, p), NEW m, m.type = "destroy", NEW w,
           Read(w, p, h, m), OnDestroy(p, h, w)
    PROVE  SeatOf(h, p)'
<1>0. PICK n : n = ById(p)
    OBVIOUS
<1>1. wire' = w /\ UNCHANGED pending
    BY DEF OnDestroy
<1>2. Held(p) # {} => /\ Held(p) = {n} /\ n \in Names /\ State(p, n) \in {"joining", "joined"}
                      /\ InfosAt(p, n).owner = h
                      /\ \A x \in Names : x # n => State(p, x) = "none"
    BY <1>0, OneState DEF Typed
<1> DEFINE its == {x \in Held(p) : State(p, x) # "hosting" /\ InfosAt(p, x).owner = h}
<1>3. its = Held(p)
    BY <1>2
<1>4. /\ Idle(p)' /\ ~Holds(p, "joined")' /\ ~Holds(p, "joining")'
      /\ HostSame(h, p)
    <2>1. CASE Held(p) = {}
        <3>1. UNCHANGED entry
            BY <1>3, <2>1 DEF OnDestroy
        <3>2. \A x \in Names : State(p, x)' = "none"
            BY <2>1, <3>1 DEF Held, State
        <3> QED
            BY <3>1, <3>2, NoEntryWritten DEF Idle, Holds
    <2>2. CASE Held(p) # {}
        <3>1. Erase(p, Min(Held(p)))
            BY <1>3, <2>2 DEF OnDestroy
        <3>2. Min(Held(p)) = n
            BY <1>0 DEF ById
        <3>3. Erase(p, n)
            BY <3>1, <3>2
        <3>4. \A x \in Names : State(p, x)' = "none"
            BY <1>2, <2>2, <3>3, EntryErased DEF Typed
        <3> QED
            BY <1>2, <2>2, <3>3, <3>4, OthersSame DEF Idle, Holds, Typed
    <2> QED
        BY <2>1, <2>2
<1> DEFINE ph == <<p, h>>  hp == <<h, p>>
           s == wire[ph]  r == wire[hp]  u == wire'[hp]
<1>5. /\ wire'[ph] = s
      /\ Ended(r)
      /\ Judged(p, u) <=> Judged(p, r)
      /\ OneVerdict(p, u) <=> OneVerdict(p, r)
    BY <1>1, VerdictRead DEF Typed, LinkTyped, Connected
<1>6. /\ OneAsk(s) /\ OneVerdict(p, r) /\ ~(Asked(s) /\ Judged(p, r))
      /\ Asked(s) \/ Judged(p, r) => Awaits(p)
      /\ h \notin Hosts
    BY <1>5 DEF SeatOf
<1> HIDE DEF s, r, u, ph, hp
<1>7. Awaits(p)' <=> Awaits(p)
    BY <1>1 DEF Awaits
<1> QED
    BY <1>4, <1>5, <1>6, <1>7 DEF SeatOf, HostSame, u, ph, hp

(* Any message, between any two.                                             *)
LEMMA MessageSeats ==
    ASSUME NEW O \in SUBSET Peers, Typed(O), JoinsOK, twice = {}, NEW h \in O, NEW p \in Peers,
           p # h, Connected(p, h), SeatOf(h, p),
           NEW a \in Peers, NEW b \in Peers \ {a}, NEW m \in Words(O), NEW w,
           Streams(w, Words(O)), Read(w, a, b, m), OnNetworkMessage(a, b, m, w)
    PROVE  SeatOf(h, p)'
<1>1. CASE a = h /\ b = p /\ m.type = "request"
    BY <1>1, RequestSeats DEF OnNetworkMessage
<1>2. CASE a = h /\ b = p /\ Leave(p, m)
    BY <1>2, UnregisterSeats DEF OnNetworkMessage, Leave
<1>3. CASE a = p /\ b = h /\ Verdict(p, m)
    BY <1>3, VerdictSeats DEF OnNetworkMessage, Verdict
<1>4. CASE a = p /\ b = h /\ m.type = "destroy"
    BY <1>4, DestroyedSeats DEF OnNetworkMessage
<1>5. CASE /\ a = h /\ b = p => m.type # "request" /\ ~Leave(p, m)
           /\ a = p /\ b = h => m.type # "destroy" /\ ~Verdict(p, m)
    <2>1. /\ SameAsks(p, wire[<<p, h>>], w[<<p, h>>])
          /\ SameVerdicts(p, wire[<<h, p>>], w[<<h, p>>])
        BY <1>5, ReadBetween DEF Typed, LinkTyped
    <2>2. /\ SameAsks(p, w[<<p, h>>], wire'[<<p, h>>])
          /\ SameVerdicts(p, w[<<h, p>>], wire'[<<h, p>>])
        BY <1>5, SaidOnMessage DEF Typed
    <2>3. StreamsSame(h, p)
        BY <2>1, <2>2, SameAsOn DEF StreamsSame
    <2>4. CASE ~(a = h /\ b = p /\ m.type = "unregister") /\ ~(a = p /\ b = h /\ m.type = "response")
        <3>1. StatesSame(p) /\ HostSame(h, p) /\ (Awaits(p)' <=> Awaits(p))
            BY <1>5, <2>4, HeldOnMessage DEF Typed
        <3> QED
            BY <2>3, <3>1, SeatKept
    <2>5. CASE a = h /\ b = p /\ m.type = "unregister"
        <3>1. OnUnregister(h, p, m.body, w) /\ m.body # p
            BY <1>5, <2>5 DEF OnNetworkMessage, Leave
        <3>2. Held(h) # {} => InfosAt(h, ById(h)).owner = h
            BY OneState DEF Typed
        <3>3. UNCHANGED <<entry, pending>>
            BY <3>1, <3>2 DEF OnUnregister
        <3> QED
            BY <2>3, <3>3, NoEntryWritten, SeatKept DEF Awaits
    <2>6. CASE a = p /\ b = h /\ m.type = "response"
        <3>1. OnResponse(p, h, m.body, w) /\ m.body.player # p
            BY <1>5, <2>6 DEF OnNetworkMessage, Verdict
        <3>2. UNCHANGED pending
            BY <3>1 DEF OnResponse
        <3>3. PICK n : n = ById(p)
            OBVIOUS
        <3>4. \/ UNCHANGED entry
              \/ n \in Names /\ \E infos : Becomes(p, n, State(p, n), infos)
            BY <3>1, <3>3, ByIdHeld DEF OnResponse
        <3>5. StatesSame(p) /\ HostSame(h, p)
            BY <3>4, NoEntryWritten, RosterWritten DEF Typed
        <3> QED
            BY <2>3, <3>2, <3>5, SeatKept DEF Awaits
    <2> QED
        BY <2>4, <2>5, <2>6
<1> QED
    BY <1>1, <1>2, <1>3, <1>4, <1>5

LEMMA DeliverSeats ==
    ASSUME NEW O \in SUBSET Peers, Typed(O), JoinsOK, twice = {}, NEW h \in O, NEW p \in Peers,
           p # h, Connected(p, h), SeatOf(h, p), NEW a \in Peers, NEW b \in Peers \ {a}, Deliver(a, b)
    PROVE  SeatOf(h, p)'
<1> DEFINE m == Head(wire[<<b, a>>])
           w == [wire EXCEPT ![<<b, a>>] = Tail(@)]
           ba == <<b, a>>
<1>1. LinkTyped(Words(O)) /\ wire[<<b, a>>] # <<>> /\ m # Eof
    BY DEF Typed, Deliver
<1>2. /\ m \in Words(O) /\ Streams(w, Words(O))
      /\ \A pq \in Pairs \ {<<b, a>>} : w[pq] = wire[pq]
    BY <1>1, ReadOK
<1>3. OnNetworkMessage(a, b, m, w) /\ <<a, b>> \in up
    BY DEF Deliver
<1>4. ba \in Pairs /\ w[ba] = Tail(wire[ba]) /\ wire[ba] # <<>> /\ m = Head(wire[ba])
    BY <1>1 DEF Pairs, LinkTyped, Streams
<1>5. Read(w, a, b, m)
    <2> SUFFICES ASSUME NEW pq \in Pairs
                 PROVE  IF pq = ba /\ <<a, b>> \in up
                        THEN wire[pq] # <<>> /\ m = Head(wire[pq]) /\ w[pq] = Tail(wire[pq])
                        ELSE w[pq] = wire[pq]
        BY DEF Read
    <2> HIDE DEF m, w, ba
    <2>1. CASE pq = ba
        BY <1>3, <1>4, <2>1
    <2>2. CASE pq # ba
        BY <1>2, <2>2 DEF ba
    <2> QED
        BY <2>1, <2>2
<1> HIDE DEF m, w
<1> QED
    BY <1>2, <1>3, <1>5, MessageSeats

LEMMA DeliverLateSeats ==
    ASSUME NEW O \in SUBSET Peers, Typed(O), JoinsOK, LateApart, twice = {}, NEW h \in O,
           NEW p \in Peers, p # h, Connected(p, h), SeatOf(h, p), NEW a \in Peers, DeliverLate(a)
    PROVE  SeatOf(h, p)'
<1> DEFINE b == Head(late[a]).from
           m == Head(late[a]).msg
<1>1. LinkTyped(Words(O)) /\ late[a] # <<>> /\ Streams(wire, Words(O))
    BY DEF Typed, LinkTyped, DeliverLate
<1>2. b \in Peers \ {a} /\ m \in Words(O)
    BY <1>1, ReadLateOK
<1>3. OnNetworkMessage(a, b, m, wire)
    BY DEF DeliverLate
<1>4. <<a, b>> \notin up
    <2>1. Head(late[a]) = late[a][1] /\ 1 \in DOMAIN late[a]
        BY <1>1, HeadTailProperties, LenProperties DEF LinkTyped
    <2> QED
        BY <2>1 DEF LateApart
<1> HIDE DEF b, m
<1>5. Read(wire, a, b, m)
    BY <1>4 DEF Read
<1> QED
    BY <1>1, <1>2, <1>3, <1>5, MessageSeats

(* Who drops somebody else unseats only that one.                             *)
LEMMA LoseOrBreakSeats ==
    ASSUME NEW O \in SUBSET Peers, Typed(O), NEW h \in O, NEW p \in Peers, p # h,
           Connected(p, h)', SeatOf(h, p), NEW a \in Peers, NEW b \in Peers \ {a}, NEW n,
           OnPeerDisconnected(a, b, n)
    PROVE  SeatOf(h, p)'
<1>1. DropPeer(a, b, n, wire) /\ UNCHANGED pending
    BY DEF OnPeerDisconnected
<1>2. /\ up' = up \ {<<a, b>>}
      /\ \A pq \in Pairs : {pq[1], pq[2]} # {a, b} => wire'[pq] = wire[pq]
    <2>1. Streams(wire, Words(O)) /\ b \in Peers
        BY DEF Typed, LinkTyped
    <2> QED
        BY <1>1, <2>1, DropElsewhere
<1>3. {h, p} # {a, b}
    BY <1>2 DEF Connected
<1>4. StreamsSame(h, p)
    <2> DEFINE hp == <<h, p>>  ph == <<p, h>>
    <2>1. hp \in Pairs /\ ph \in Pairs /\ hp[1] = h /\ hp[2] = p /\ ph[1] = p /\ ph[2] = h
        BY DEF Pairs
    <2> HIDE DEF hp, ph
    <2>2. wire'[hp] = wire[hp] /\ wire'[ph] = wire[ph]
        BY <1>2, <1>3, <2>1
    <2> QED
        BY <2>2, SameAsOn DEF StreamsSame, hp, ph
<1>5. ASSUME NEW r \in Peers, NEW x \in Names
      PROVE  /\ State(r, x)' = State(r, x)
             /\ InfosAt(r, x)' = IF r = a THEN Unseat(InfosAt(r, x), b) ELSE InfosAt(r, x)
    BY DEF OnPeerDisconnected, State, InfosAt, Typed, EntriesOK
<1>6. StatesSame(p) /\ HostSame(h, p)
    <2>1. ASSUME NEW x \in Names
          PROVE  p \in InfosAt(h, x)'.roster <=> p \in InfosAt(h, x).roster
        <3>1. CASE h = a
            <4>1. p # b
                BY <1>3, <3>1
            <4>2. InfosAt(h, x) \in Infos \cup {NoInfos}
                BY EntryParts, OwnInfosParts DEF Typed
            <4>3. \A infos \in Infos \cup {NoInfos} : Unseat(infos, b).roster = infos.roster \ {b}
                BY DEF Infos, NoInfos, Unseat
            <4> QED
                BY <1>5, <3>1, <4>1, <4>2, <4>3
        <3>2. CASE h # a
            BY <1>5, <3>2
        <3> QED
            BY <3>1, <3>2
    <2> QED
        BY <1>5, <2>1 DEF StatesSame, HostSame, Hosts, Seated
<1> QED
    BY <1>1, <1>4, <1>6, SeatKept DEF Awaits

(* Who is gone is nobody's connection.                                        *)
LEMMA CrashSeats ==
    ASSUME NEW O \in SUBSET Peers, Typed(O), JoinsOK, NEW h \in O, NEW p \in Peers, p # h,
           Connected(p, h)', SeatOf(h, p), NEW a \in Peers, Crash(a)
    PROVE  SeatOf(h, p)'
<1>1. /\ up' = {pq \in up : pq[1] # a}
      /\ \A pq \in Pairs : a \notin {pq[1], pq[2]} => wire'[pq] = wire[pq]
    BY VanishElsewhere DEF Crash
<1> DEFINE hp == <<h, p>>  ph == <<p, h>>
<1>2. hp \in Pairs /\ ph \in Pairs /\ hp[1] = h /\ hp[2] = p /\ ph[1] = p /\ ph[2] = h
    BY DEF Pairs
<1>3. h # a /\ p # a
    BY <1>1, <1>2 DEF Connected
<1> HIDE DEF hp, ph
<1>4. wire'[hp] = wire[hp] /\ wire'[ph] = wire[ph]
    BY <1>1, <1>2, <1>3
<1>5. StreamsSame(h, p)
    BY <1>4, SameAsOn DEF StreamsSame, hp, ph
<1>6. entry'[h] = entry[h] /\ entry'[p] = entry[p] /\ pending'[p] = pending[p]
    BY <1>3 DEF Crash, Typed, EntriesOK, JoinsOK
<1>7. StatesSame(p) /\ HostSame(h, p)
    BY <1>6 DEF StatesSame, HostSame, Hosts, Seated, State, InfosAt
<1> QED
    BY <1>5, <1>6, <1>7, SeatKept DEF Awaits

-----------------------------------------------------------------------------
(* Before there is a session.                                               *)

LEMMA SilentSent ==
    ASSUME NEW W, NEW s \in Seq(W), NEW m \in W, Silent(s),
           m.type \notin {"request", "response", "destroy"}
    PROVE  Silent(s \o <<m>>)
<1> DEFINE l == s \o <<m>>
<1>1. /\ Len(s) \in Nat /\ DOMAIN s = 1 .. Len(s) /\ DOMAIN l = 1 .. Len(s) + 1
      /\ \A i \in 1 .. Len(s) : l[i] = s[i]
      /\ l[Len(s) + 1] = m
    BY Appended
<1> HIDE DEF l
<1>2. \A i \in DOMAIN l : i \in DOMAIN s \/ i = Len(s) + 1
    BY <1>1
<1>3. ASSUME NEW t, Lacks(s, t), m.type # t
      PROVE  Lacks(l, t)
    BY <1>1, <1>2, <1>3 DEF Lacks
<1>4. Silent(l)
    BY <1>3 DEF Silent
<1> QED
    BY <1>4 DEF l

LEMMA SilentRead ==
    ASSUME NEW W, NEW s \in Seq(W), s # <<>>, Silent(s)
    PROVE  Silent(Tail(s)) /\ Head(s).type \notin {"request", "response", "destroy"}
<1> DEFINE l == Tail(s)  m == Head(s)
<1>1. /\ Len(s) \in Nat \ {0} /\ DOMAIN s = 1 .. Len(s) /\ DOMAIN l = 1 .. Len(s) - 1
      /\ \A i \in 1 .. Len(s) - 1 : l[i] = s[i + 1]
      /\ s[1] = m
    BY Beheaded
<1> HIDE DEF l, m
<1>2. ASSUME NEW t, Lacks(s, t)
      PROVE  Lacks(l, t) /\ m.type # t
    <2>1. 1 \in DOMAIN s /\ \A i \in DOMAIN l : i + 1 \in DOMAIN s /\ l[i] = s[i + 1]
        BY <1>1
    <2> QED
        BY <1>1, <1>2, <2>1 DEF Lacks
<1>3. Silent(l) /\ m.type \notin {"request", "response", "destroy"}
    BY <1>2 DEF Silent
<1> QED
    BY <1>3 DEF l, m

LEMMA QuietSent ==
    ASSUME NEW M, NEW w, Streams(w, M), Quiet(w), NEW p \in Peers, NEW to, NEW type, NEW body,
           [type |-> type, body |-> body] \in M,
           \/ type \notin {"request", "response", "destroy"}
           \/ \A q \in to : ~Connected(p, q)
    PROVE  Quiet(SendTo(w, p, to, type, body))
<1> DEFINE m == [type |-> type, body |-> body]
           x == SendTo(w, p, to, type, body)
           W == M \cup {Eof}
<1>1. \A pq \in Pairs :
        x[pq] = IF pq[1] = p /\ pq[2] \in to /\ pq \in up /\ Reads(pq[2], p)
                THEN w[pq] \o <<m>> ELSE w[pq]
    BY SentExactly
<1>2. w \in [Pairs -> Seq(W)] /\ m \in W /\ m.type = type
    BY DEF Streams
<1> HIDE DEF x, m, W
<1>3. ASSUME NEW pq \in Pairs, Connected(pq[1], pq[2])
      PROVE  Silent(x[pq])
    <2>1. Silent(w[pq]) /\ w[pq] \in Seq(W)
        BY <1>2, <1>3 DEF Quiet
    <2>2. CASE pq[1] = p /\ pq[2] \in to
        <3>1. m.type \notin {"request", "response", "destroy"}
            BY <1>2, <1>3, <2>2
        <3>2. Silent(w[pq] \o <<m>>)
            BY <1>2, <2>1, <3>1, SilentSent
        <3> QED
            BY <1>1, <2>1, <3>2
    <2>3. CASE ~(pq[1] = p /\ pq[2] \in to)
        BY <1>1, <2>1, <2>3
    <2> QED
        BY <2>2, <2>3
<1>4. Quiet(x)
    BY <1>3 DEF Quiet
<1> QED
    BY <1>4 DEF x

LEMMA NothingYet ==
    ASSUME NEW O \in SUBSET Peers, Typed(O), spent["creates"] = 0
    PROVE  /\ O = {}
           /\ \A p \in Peers, n \in Names : State(p, n) = "none"
           /\ \A p \in Peers : Held(p) = {} /\ found[p] = NoInfos
<1>1. O = {}
    BY DEF Typed, OneSession
<1>2. OwnInfos(O) = {}
    BY <1>1 DEF OwnInfos
<1>3. \A p \in Peers, n \in Names : State(p, n) = "none"
    BY <1>2, EntryParts DEF Typed
<1>4. \A p \in Peers : found[p] = NoInfos
    BY <1>2 DEF Typed, FoundOK
<1> QED
    BY <1>1, <1>3, <1>4 DEF Held

LEMMA QuietSame ==
    ASSUME QuietBefore, UNCHANGED <<up, wire>>, spent'["creates"] = 0 => spent["creates"] = 0
    PROVE  QuietBefore'
    BY DEF QuietBefore, Quiet, Connected

LEMMA QuietGame ==
    ASSUME NEW O \in SUBSET Peers, Typed(O), QuietBefore, NEW p \in Peers, Game(p)
    PROVE  QuietBefore'
<1> SUFFICES ASSUME spent'["creates"] = 0 PROVE Quiet(wire)'
    BY DEF QuietBefore
<1>1. SpentOK
    BY DEF Typed
<1>2. ASSUME NEW n \in Names, NEW settings \in Settings, CreateSession(p, n, settings)
      PROVE  FALSE
    <2>1. Spend("creates") /\ "creates" \in Kinds
        BY <1>2 DEF CreateSession, Kinds
    <2>2. spent'["creates"] = 1
        BY <1>1, <2>1, SpendOK
    <2> QED
        BY <2>2
<1>3. spent["creates"] = 0 /\ UNCHANGED up
    <2>1. UNCHANGED up
        BY <1>2 DEF Game, UpdateSession, StartSession, EndSession, Write, RegisterPlayers,
           UnregisterPlayers, ChangeSeats, JoinSession, DestroySession, SearchFind,
           SearchCopyResult, SearchRelease, linkVars
    <2>2. \/ \E kind \in Kinds : kind # "creates" /\ Spend(kind)
          \/ UNCHANGED spent
        BY <1>2 DEF Game, UpdateSession, StartSession, EndSession, Write, RegisterPlayers,
           UnregisterPlayers, ChangeSeats, JoinSession, DestroySession, SearchFind,
           SearchCopyResult, SearchRelease, Kinds
    <2> QED
        BY <1>1, <2>1, <2>2, SpendOK
<1>4. Quiet(wire)
    BY <1>3 DEF QuietBefore
<1>5. Quiet(wire')
    <2>1. \A n \in Names : State(p, n) = "none" /\ found[p] = NoInfos
        BY <1>3, NothingYet
    <2>2. CASE SearchCopyResult(p) \/ SearchRelease(p)
        BY <1>4, <2>2 DEF SearchCopyResult, SearchRelease, linkVars
    <2>3. ASSUME NEW target \in Peers \cup {None}, SearchFind(p, target)
          PROVE  Quiet(wire')
        <3> DEFINE asked == {q \in Peers : <<p, q>> \in up /\ target \in {None, q}}
                   query == [id |-> spent.searches + 1, target |-> target]
        <3>1. wire' = SendTo(wire, p, asked, "search", query)
            BY <2>3 DEF SearchFind
        <3>2. spent.searches + 1 \in Nat
            BY <1>1 DEF SpentOK, Kinds
        <3>3. [type |-> "search", body |-> query] \in Words(O) /\ Streams(wire, Words(O))
            BY <3>2, WordsOf DEF Typed, LinkTyped
        <3> HIDE DEF asked, query
        <3> QED
            BY <1>4, <3>1, <3>3, QuietSent
    <2> QED
        BY <1>2, <2>1, <2>2, <2>3 DEF Game, UpdateSession, StartSession, EndSession, Write,
           RegisterPlayers, UnregisterPlayers, ChangeSeats, JoinSession, DestroySession
<1> QED
    BY <1>3, <1>5 DEF Quiet, Connected

LEMMA QuietTick ==
    ASSUME NEW O \in SUBSET Peers, Typed(O), QuietBefore, NEW p \in Peers, Tick(p)
    PROVE  QuietBefore'
<1>1. UNCHANGED <<up, wire>>
    BY DEF Tick, SearchOver, JoinAnswered, JoinTimedOut, linkVars
<1>2. spent'["creates"] = spent["creates"]
    BY SpendOK DEF Typed, Tick, SearchOver, JoinAnswered, JoinTimedOut, Kinds
<1> QED
    BY <1>1, <1>2, QuietSame

(* Who asks before there is a session is told so, which matters to nobody it is *)
(* still connected to.                                                      *)
LEMMA QuietMessage ==
    ASSUME NEW O \in SUBSET Peers, Typed(O), spent["creates"] = 0,
           NEW p \in Peers, NEW q \in Peers \ {p}, NEW m \in Words(O), NEW w, Streams(w, Words(O)),
           Quiet(w), m.type = "request" => ~Connected(p, q), OnNetworkMessage(p, q, m, w)
    PROVE  Quiet(wire')
<1>1. Held(p) = {}
    BY NothingYet
<1>2. CASE m.type = "search"
    <2>1. OnSearch(p, q, m.body, w) /\ m.body \in [id : Nat, target : Peers \cup {None}]
        BY <1>2 DEF OnNetworkMessage, Words
    <2> DEFINE answer == [id |-> m.body.id, sessions |-> Hosted(p, m.body.target)]
    <2>2. wire' = SendTo(w, p, {q}, "found", answer)
        BY <2>1 DEF OnSearch
    <2>3. [type |-> "found", body |-> answer] \in Words(O)
        BY <2>1, HostedOK, WordsOf DEF Typed
    <2> HIDE DEF answer
    <2> QED
        BY <2>2, <2>3, QuietSent
<1>3. CASE m.type = "request"
    <2> DEFINE verdict == [player |-> q, ok |-> FALSE]
    <2>1. wire' = SendTo(w, p, {q}, "response", verdict)
        BY <1>1, <1>3 DEF OnNetworkMessage, OnRequest
    <2>2. [type |-> "response", body |-> verdict] \in Words(O)
        BY WordsOf
    <2> HIDE DEF verdict
    <2> QED
        BY <1>3, <2>1, <2>2, QuietSent
<1>4. CASE m.type \notin {"search", "request"}
    <2>1. wire' = w
        BY <1>4 DEF OnNetworkMessage, OnFound, OnResponse, OnInfos, OnDestroy, OnRegister, OnUnregister
    <2> QED
        BY <2>1
<1> QED
    BY <1>2, <1>3, <1>4

LEMMA QuietDeliver ==
    ASSUME NEW O \in SUBSET Peers, Typed(O), QuietBefore, NEW p \in Peers, NEW q \in Peers \ {p},
           Deliver(p, q)
    PROVE  QuietBefore'
<1> DEFINE m == Head(wire[<<q, p>>])
           w == [wire EXCEPT ![<<q, p>>] = Tail(@)]
           qp == <<q, p>>
<1>1. LinkTyped(Words(O)) /\ wire[<<q, p>>] # <<>> /\ m # Eof
    BY DEF Typed, Deliver
<1>2. /\ m \in Words(O) /\ Streams(w, Words(O))
      /\ \A pq \in Pairs \ {<<q, p>>} : w[pq] = wire[pq]
    BY <1>1, ReadOK
<1>3. OnNetworkMessage(p, q, m, w) /\ UNCHANGED <<up, spent>>
    BY DEF Deliver, OnNetworkMessage
<1>4. qp \in Pairs /\ w[qp] = Tail(wire[qp]) /\ wire[qp] # <<>> /\ m = Head(wire[qp])
      /\ qp[1] = q /\ qp[2] = p /\ wire[qp] \in Seq(Words(O) \cup {Eof})
    BY <1>1 DEF Pairs, LinkTyped, Streams
<1> SUFFICES ASSUME spent["creates"] = 0 PROVE Quiet(wire')
    BY <1>3 DEF QuietBefore, Quiet, Connected
<1>5. Quiet(wire)
    BY DEF QuietBefore
<1> HIDE DEF m, w
<1>6. Connected(q, p) => Silent(wire[qp])
    BY <1>4, <1>5 DEF Quiet
<1>7. Connected(p, q) <=> Connected(q, p)
    BY DEF Connected
<1>8. Connected(q, p) => Silent(w[qp]) /\ m.type # "request"
    BY <1>4, <1>6, SilentRead
<1>9. Quiet(w)
    <2> SUFFICES ASSUME NEW pq \in Pairs, Connected(pq[1], pq[2]) PROVE Silent(w[pq])
        BY DEF Quiet
    <2>1. CASE pq = qp
        BY <1>4, <1>8, <2>1
    <2>2. CASE pq # qp
        BY <1>2, <1>5, <2>2 DEF Quiet
    <2> QED
        BY <2>1, <2>2
<1> QED
    BY <1>2, <1>3, <1>7, <1>8, <1>9, QuietMessage

LEMMA QuietLate ==
    ASSUME NEW O \in SUBSET Peers, Typed(O), LateApart, QuietBefore, NEW p \in Peers, DeliverLate(p)
    PROVE  QuietBefore'
<1> DEFINE q == Head(late[p]).from
           m == Head(late[p]).msg
<1>1. LinkTyped(Words(O)) /\ late[p] # <<>> /\ Streams(wire, Words(O))
    BY DEF Typed, LinkTyped, DeliverLate
<1>2. q \in Peers \ {p} /\ m \in Words(O)
    BY <1>1, ReadLateOK
<1>3. OnNetworkMessage(p, q, m, wire) /\ UNCHANGED <<up, spent>>
    BY DEF DeliverLate, OnNetworkMessage
<1>4. ~Connected(p, q)
    <2>1. Head(late[p]) = late[p][1] /\ 1 \in DOMAIN late[p]
        BY <1>1, HeadTailProperties, LenProperties DEF LinkTyped
    <2> QED
        BY <2>1 DEF LateApart, Connected
<1> HIDE DEF q, m
<1> SUFFICES ASSUME spent["creates"] = 0 PROVE Quiet(wire')
    BY <1>3 DEF QuietBefore, Quiet, Connected
<1> QED
    BY <1>1, <1>2, <1>3, <1>4, QuietMessage DEF QuietBefore

LEMMA QuietMesh ==
    ASSUME NEW O \in SUBSET Peers, Typed(O), LateApart, QuietBefore, NEW p \in Peers, Mesh(p)
    PROVE  QuietBefore'
<1>1. ASSUME NEW q \in Peers \ {p}, NEW n, Lose(p, q, n) \/ Break(p, q, n)
      PROVE  QuietBefore'
    <2>1. DropPeer(p, q, n, wire) /\ spent'["creates"] = spent["creates"]
        BY <1>1, SpendOK DEF Lose, Break, OnPeerDisconnected, Typed, Kinds
    <2>2. /\ up' = up \ {<<p, q>>}
          /\ \A pq \in Pairs : {pq[1], pq[2]} # {p, q} => wire'[pq] = wire[pq]
        <3>1. Streams(wire, Words(O)) /\ q \in Peers
            BY DEF Typed, LinkTyped
        <3> QED
            BY <2>1, <3>1, DropElsewhere
    <2>3. ASSUME NEW pq \in Pairs, Connected(pq[1], pq[2])'
          PROVE  Connected(pq[1], pq[2]) /\ wire'[pq] = wire[pq]
        <3>1. PICK x, y : x = pq[1] /\ y = pq[2]
            OBVIOUS
        <3>2. {<<x, y>>, <<y, x>>} \subseteq up'
            BY <2>3, <3>1 DEF Connected
        <3>3. {x, y} # {p, q}
            BY <2>2, <3>2
        <3> QED
            BY <2>2, <3>1, <3>2, <3>3 DEF Connected
    <2> QED
        BY <2>1, <2>3 DEF QuietBefore, Quiet
<1>2. CASE Crash(p)
    <2>1. spent'["creates"] = spent["creates"]
        BY <1>2, SpendOK DEF Crash, Typed, Kinds
    <2>2. /\ up' = {pq \in up : pq[1] # p}
          /\ \A pq \in Pairs : p \notin {pq[1], pq[2]} => wire'[pq] = wire[pq]
        BY <1>2, VanishElsewhere DEF Crash
    <2>3. ASSUME NEW pq \in Pairs, Connected(pq[1], pq[2])'
          PROVE  Connected(pq[1], pq[2]) /\ wire'[pq] = wire[pq]
        <3>1. PICK x, y : x = pq[1] /\ y = pq[2]
            OBVIOUS
        <3>2. {<<x, y>>, <<y, x>>} \subseteq up'
            BY <2>3, <3>1 DEF Connected
        <3>3. x # p /\ y # p /\ {<<x, y>>, <<y, x>>} \subseteq up
            BY <2>2, <3>2
        <3> QED
            BY <2>2, <3>1, <3>3 DEF Connected
    <2> QED
        BY <2>1, <2>3 DEF QuietBefore, Quiet
<1> QED
    BY <1>1, <1>2, QuietDeliver, QuietLate DEF Mesh

(* The host that creates the session is the only one in it.                    *)
LEMMA CreateSeats ==
    ASSUME NEW O \in SUBSET Peers, Typed(O), QuietBefore, NEW a \in Peers, NEW n \in Names,
           NEW settings \in Settings, CreateSession(a, n, settings)
    PROVE  Seats({a})'
<1> DEFINE infos == [owner |-> a, roster |-> {a}, settings |-> settings, phase |-> "pending"]
<1>1. spent["creates"] = 0
    BY SpendOK DEF Typed, CreateSession, Kinds
<1>2. \A r \in Peers, m \in Names : State(r, m) = "none"
    BY <1>1, NothingYet
<1>3. Becomes(a, n, "hosting", infos) /\ infos.roster = {a} /\ UNCHANGED <<up, wire>>
    BY DEF CreateSession, linkVars
<1> HIDE DEF infos
<1>4. /\ State(a, n)' = "hosting" /\ InfosAt(a, n)' = infos
      /\ \A r \in Peers, m \in Names : r # a \/ m # n => State(r, m)' = "none"
    BY <1>2, <1>3, EntryWritten DEF Typed
<1>5. ASSUME NEW p \in Peers, Fair(a, p)'
      PROVE  SeatOf(a, p)'
    <2> DEFINE ap == <<a, p>>  pa == <<p, a>>
    <2>1. p # a /\ Connected(p, a) /\ Connected(a, p)
        BY <1>3, <1>5 DEF Fair, Connected
    <2>2. ap \in Pairs /\ pa \in Pairs /\ ap[1] = a /\ ap[2] = p /\ pa[1] = p /\ pa[2] = a
        BY <2>1 DEF Pairs
    <2> HIDE DEF ap, pa
    <2>3. Silent(wire[ap]) /\ Silent(wire[pa]) /\ wire'[ap] = wire[ap] /\ wire'[pa] = wire[pa]
        BY <1>1, <1>3, <2>1, <2>2 DEF QuietBefore, Quiet
    <2> DEFINE s == wire'[pa]  r == wire'[ap]
    <2>4. /\ ~Asked(s) /\ OneAsk(s) /\ ~Asking(p, s)
          /\ ~Judged(p, r) /\ OneVerdict(p, r) /\ ~Ended(r)
        <3>1. Silent(s) /\ Silent(r)
            BY <2>3
        <3> HIDE DEF s, r
        <3> QED
            BY <3>1 DEF Silent, Lacks, Asked, OneAsk, Asking, Judged, OneVerdict, Ended, Verdict
    <2>5. /\ Idle(p)' /\ ~Holds(p, "joined")' /\ ~Holds(p, "joining")'
          /\ a \in Hosts' /\ ~Seated(a, p)'
        <3>1. Idle(p)' /\ ~Holds(p, "joined")' /\ ~Holds(p, "joining")'
            BY <1>4, <2>1 DEF Idle, Holds
        <3>2. a \in Hosts'
            BY <1>4 DEF Hosts
        <3>3. \A m \in Names : State(a, m)' = "hosting" => p \notin InfosAt(a, m)'.roster
            BY <1>3, <1>4, <2>1
        <3> QED
            BY <3>1, <3>2, <3>3 DEF Seated
    <2> HIDE DEF s, r
    <2> QED
        BY <2>4, <2>5 DEF SeatOf, s, r, ap, pa
<1> QED
    BY <1>5 DEF Seats

-----------------------------------------------------------------------------
(* The invariant.                                                          *)

Forth == Onwards /\ (astray => astray')

LEMMA FairBefore ==
    ASSUME Forth, NEW h, NEW p, Fair(h, p)'
    PROVE  Fair(h, p) /\ Connected(p, h) /\ Connected(p, h)' /\ p # h /\ twice = {} /\ ~astray'
           /\ twice' = {}
    BY DEF Forth, Onwards, Fair, Connected

LEMMA ForthSame ==
    ASSUME UNCHANGED <<twice, byHand, astray>>, up' \subseteq up
    PROVE  Forth
    BY DEF Forth, Onwards

LEMMA GameForth ==
    ASSUME NEW p, Game(p)
    PROVE  Forth
<1>1. UNCHANGED up
    BY DEF Game, CreateSession, UpdateSession, StartSession, EndSession, Write, RegisterPlayers,
       UnregisterPlayers, ChangeSeats, JoinSession, DestroySession, SearchFind, SearchCopyResult,
       SearchRelease, linkVars
<1>2. twice \subseteq twice'
    <2>1. ASSUME NEW n \in Names, JoinSession(p, n)
          PROVE  twice \subseteq twice'
        BY <2>1 DEF JoinSession
    <2>2. CASE ~\E n \in Names : JoinSession(p, n)
        BY <2>2 DEF Game, CreateSession, UpdateSession, StartSession, EndSession, Write,
           RegisterPlayers, UnregisterPlayers, ChangeSeats, DestroySession, SearchFind,
           SearchCopyResult, SearchRelease, history
    <2> QED
        BY <2>1, <2>2
<1>3. byHand \subseteq byHand'
    <2>1. ASSUME NEW n \in Names, NEW m \in Peers, RegisterPlayers(p, n, m) \/ UnregisterPlayers(p, n, m)
          PROVE  byHand \subseteq byHand'
        BY <2>1 DEF RegisterPlayers, UnregisterPlayers, ChangeSeats
    <2>2. CASE ~\E n \in Names, m \in Peers : RegisterPlayers(p, n, m) \/ UnregisterPlayers(p, n, m)
        BY <2>2 DEF Game, CreateSession, UpdateSession, StartSession, EndSession, Write,
           JoinSession, DestroySession, SearchFind, SearchCopyResult, SearchRelease, history
    <2> QED
        BY <2>1, <2>2
<1>4. astray => astray'
    <2>1. CASE \E n \in Names : JoinSession(p, n) \/ DestroySession(p, n)
        BY <2>1 DEF JoinSession, DestroySession, GoesAstray
    <2>2. CASE ~\E n \in Names : JoinSession(p, n) \/ DestroySession(p, n)
        BY <2>2 DEF Game, CreateSession, UpdateSession, StartSession, EndSession, Write,
           RegisterPlayers, UnregisterPlayers, ChangeSeats, SearchFind, SearchCopyResult,
           SearchRelease, history
    <2> QED
        BY <2>1, <2>2
<1> QED
    BY <1>1, <1>2, <1>3, <1>4 DEF Forth, Onwards

LEMMA TickForth ==
    ASSUME NEW p, Tick(p)
    PROVE  Forth
<1>1. UNCHANGED <<twice, byHand, up>>
    BY DEF Tick, SearchOver, JoinAnswered, JoinTimedOut, linkVars, history
<1>2. UNCHANGED astray \/ \E when : GoesAstray(when)
    BY DEF Tick, SearchOver, JoinAnswered, JoinTimedOut, history
<1>3. astray => astray'
    BY <1>2 DEF GoesAstray
<1> QED
    BY <1>1, <1>3 DEF Forth, Onwards

LEMMA MeshForth ==
    ASSUME NEW p, Mesh(p)
    PROVE  Forth
<1>1. UNCHANGED <<twice, byHand, astray>>
    BY DEF Mesh, Deliver, DeliverLate, OnNetworkMessage, Lose, Break, OnPeerDisconnected, Crash,
       history
<1>2. CASE \/ DeliverLate(p)
           \/ \E q \in Peers \ {p} : Deliver(p, q)
    BY <1>1, <1>2, ForthSame DEF Deliver, DeliverLate
<1>3. ASSUME NEW q, NEW n, DropPeer(p, q, n, wire)
      PROVE  Forth
    BY <1>1, <1>3, ForthSame DEF DropPeer
<1>4. CASE Crash(p)
    BY <1>1, <1>4, ForthSame DEF Crash, Vanish
<1> QED
    BY <1>2, <1>3, <1>4 DEF Mesh, Lose, Break, OnPeerDisconnected

LEMMA GameSeats ==
    ASSUME NEW O \in SUBSET Peers, Typed(O), JoinsOK, Seats(O), NEW a \in Peers, Game(a),
           ~\E n \in Names, settings \in Settings : CreateSession(a, n, settings)
    PROVE  Seats(O)'
<1> SUFFICES ASSUME NEW h \in O, NEW p \in Peers, Fair(h, p)' PROVE SeatOf(h, p)'
    BY DEF Seats
<1>1. Fair(h, p) /\ p # h
    BY GameForth, FairBefore
<1>2. SeatOf(h, p) /\ h \in Peers
    BY <1>1 DEF Seats
<1>3. CASE SearchCopyResult(a) \/ SearchRelease(a)
    <2>1. UNCHANGED <<entry, pending, wire>>
        BY <1>3 DEF SearchCopyResult, SearchRelease, linkVars
    <2> QED
        BY <1>2, <2>1, QuietSeats
<1>4. CASE ~(SearchCopyResult(a) \/ SearchRelease(a))
    BY <1>1, <1>2, <1>4, WritesSeats, ChangeSeatsSeats, JoinSessionSeats, DestroySessionSeats,
       SearchFindSeats DEF Game
<1> QED
    BY <1>3, <1>4

LEMMA TickSeats ==
    ASSUME NEW O \in SUBSET Peers, Typed(O), JoinsOK, Seats(O), NEW a \in Peers, Tick(a)
    PROVE  Seats(O)'
<1> SUFFICES ASSUME NEW h \in O, NEW p \in Peers, Fair(h, p)' PROVE SeatOf(h, p)'
    BY DEF Seats
<1>1. Fair(h, p) /\ p # h
    BY TickForth, FairBefore
<1>2. SeatOf(h, p) /\ h \in Peers
    BY <1>1 DEF Seats
<1>3. CASE SearchOver(a)
    <2>1. UNCHANGED <<entry, pending, wire>>
        BY <1>3 DEF SearchOver, linkVars
    <2> QED
        BY <1>2, <2>1, QuietSeats
<1>4. CASE \E i \in DOMAIN pending[a] : JoinAnswered(a, i) \/ JoinTimedOut(a, i)
    BY <1>2, <1>4, JoinAnsweredSeats, JoinTimedOutSeats
<1> QED
    BY <1>3, <1>4 DEF Tick

LEMMA MeshSeats ==
    ASSUME NEW O \in SUBSET Peers, Typed(O), JoinsOK, LateApart, Seats(O), NEW a \in Peers, Mesh(a)
    PROVE  Seats(O)'
<1> SUFFICES ASSUME NEW h \in O, NEW p \in Peers, Fair(h, p)' PROVE SeatOf(h, p)'
    BY DEF Seats
<1>1. Fair(h, p) /\ p # h /\ Connected(p, h) /\ Connected(p, h)' /\ twice = {}
    BY MeshForth, FairBefore
<1>2. SeatOf(h, p) /\ h \in Peers
    BY <1>1 DEF Seats
<1>3. ASSUME NEW b \in Peers \ {a}, NEW n, Lose(a, b, n) \/ Break(a, b, n)
      PROVE  SeatOf(h, p)'
    <2>1. OnPeerDisconnected(a, b, n)
        BY <1>3 DEF Lose, Break
    <2> QED
        BY <1>1, <1>2, <2>1, LoseOrBreakSeats
<1>4. CASE Crash(a)
    BY <1>1, <1>2, <1>4, CrashSeats
<1>5. CASE DeliverLate(a)
    BY <1>1, <1>2, <1>5, DeliverLateSeats
<1>6. ASSUME NEW b \in Peers \ {a}, Deliver(a, b)
      PROVE  SeatOf(h, p)'
    BY <1>1, <1>2, <1>6, DeliverSeats
<1> QED
    BY <1>3, <1>4, <1>5, <1>6 DEF Mesh

SeatsOK ==
    /\ WordsOK
    /\ QuietBefore
    /\ \E O \in SUBSET Peers : Typed(O) /\ Seats(O)

LEMMA SeatsInit == Init => SeatsOK
<1> SUFFICES ASSUME Init PROVE SeatsOK
    OBVIOUS
<1>1. WordsOK
    BY WordsInit
<1>2. PICK O \in SUBSET Peers : Typed(O)
    BY <1>1 DEF WordsOK, IInv
<1>3. \A pq \in Pairs : wire[pq] = <<>>
    BY DEF Init, LinkInitMet
<1>4. QuietBefore
    <2>1. \A s : s = <<>> => Silent(s)
        BY DEF Silent, Lacks
    <2> QED
        BY <1>3, <2>1 DEF QuietBefore, Quiet
<1>5. PICK formed \in Formed \cup {<<Min(Names), NoInfos>>} :
        entry = [p \in Peers |-> [n \in Names |->
                      IF n # formed[1] \/ p \notin formed[2].roster THEN Absent
                      ELSE [state |-> IF p = formed[2].owner THEN "hosting" ELSE "joined",
                            infos |-> formed[2]]]]
    BY DEF Init
<1> DEFINE infos == formed[2]  x == formed[1]
<1>6. ASSUME infos = NoInfos
      PROVE  \A h \in Peers, p \in Peers : ~Holds(p, "joined") /\ ~Holds(p, "joining")
                                           /\ Idle(p) /\ h \notin Hosts
    <2>1. infos.roster = {}
        BY <1>6, NoInfosIsNone
    <2>2. \A p \in Peers, n \in Names : State(p, n) = "none"
        BY <1>5, <2>1, AbsentOK DEF State
    <2> QED
        BY <2>2 DEF Holds, Idle, Hosts
<1>7. ASSUME infos # NoInfos, NEW h \in O, NEW p \in Peers, p # h
      PROVE  /\ h \in Hosts /\ ~Holds(p, "joining")
             /\ Holds(p, "joined") <=> Seated(h, p)
             /\ Idle(p) => ~Seated(h, p)
    <2>1. x \in Names /\ infos \in Infos /\ infos.owner \in infos.roster
        BY <1>7, SessionsAssumption
    <2>2. infos.owner \in Peers
        BY <2>1 DEF Infos
    <2> HIDE DEF infos, x
    <2>3. ASSUME NEW q \in Peers, NEW n \in Names
          PROVE  /\ n # x \/ q \notin infos.roster => State(q, n) = "none"
                 /\ n = x /\ q \in infos.roster
                      => /\ State(q, n) = IF q = infos.owner THEN "hosting" ELSE "joined"
                         /\ InfosAt(q, n) = infos
        <3>1. CASE n # x \/ q \notin infos.roster
            <4>1. entry[q][n] = Absent
                BY <1>5, <3>1 DEF infos, x
            <4> QED
                BY <3>1, <4>1, AbsentOK DEF State
        <3>2. CASE n = x /\ q \in infos.roster
            <4>1. entry[q][n] = [state |-> IF q = infos.owner THEN "hosting" ELSE "joined",
                                 infos |-> infos]
                BY <1>5, <3>2 DEF infos, x
            <4> QED
                BY <3>2, <4>1 DEF State, InfosAt
        <3> QED
            BY <3>1, <3>2
    <2>4. State(infos.owner, x) = "hosting" /\ InfosAt(infos.owner, x) = infos
        BY <2>1, <2>2, <2>3
    <2>5. infos.owner = h
        BY <1>2, <2>1, <2>2, <2>4, EntryParts, OwnInfosParts DEF Typed, OneSession
    <2>6. \A n \in Names : n # x => State(h, n) = "none" /\ State(p, n) = "none"
        BY <2>3
    <2>7. State(p, x) = IF p \in infos.roster THEN "joined" ELSE "none"
        BY <1>7, <2>1, <2>3, <2>5
    <2>8. h \in Hosts
        BY <2>1, <2>2, <2>4, <2>5 DEF Hosts
    <2>9. Seated(h, p) <=> p \in infos.roster
        BY <2>1, <2>4, <2>5, <2>6 DEF Seated
    <2>10. /\ ~Holds(p, "joining")
           /\ Holds(p, "joined") <=> p \in infos.roster
           /\ Idle(p) => p \notin infos.roster
        BY <2>1, <2>6, <2>7 DEF Holds, Idle
    <2> QED
        BY <2>8, <2>9, <2>10
<1>8. ASSUME NEW h \in O, NEW p \in Peers, p # h
      PROVE  SeatOf(h, p)
    <2> DEFINE hp == <<h, p>>  ph == <<p, h>>
    <2>1. hp \in Pairs /\ ph \in Pairs
        BY <1>8 DEF Pairs
    <2> HIDE DEF hp, ph
    <2>2. /\ ~Asked(wire[ph]) /\ OneAsk(wire[ph]) /\ ~Leaving(p, wire[ph])
          /\ ~Judged(p, wire[hp]) /\ OneVerdict(p, wire[hp]) /\ ~Ended(wire[hp])
        BY <1>3, <2>1, SaysNothing
    <2>3. ~Asking(p, wire[ph]) /\ ~Outlived(p, wire[hp])
        BY <2>2, Implied
    <2>4. /\ ~Holds(p, "joining")
          /\ h \in Hosts => /\ Holds(p, "joined") => Seated(h, p)
                            /\ Idle(p) => ~Seated(h, p)
          /\ h \notin Hosts => ~Holds(p, "joined")
        BY <1>6, <1>7, <1>8
    <2> QED
        BY <2>2, <2>3, <2>4 DEF SeatOf, hp, ph
<1>9. Seats(O)
    BY <1>8 DEF Seats, Fair
<1> QED
    BY <1>1, <1>2, <1>4, <1>9 DEF SeatsOK

LEMMA SeatsInductive == SeatsOK /\ [Next]_vars => SeatsOK'
<1> SUFFICES ASSUME SeatsOK, [Next]_vars PROVE SeatsOK'
    OBVIOUS
<1>1. WordsOK'
    BY WordsInductive DEF SeatsOK
<1>2. PICK O \in SUBSET Peers : Typed(O) /\ Seats(O)
    BY DEF SeatsOK
<1>3. JoinsOK /\ AskedWillAnswer /\ LateApart /\ QuietBefore
    BY DEF SeatsOK, WordsOK, IInv
<1>4. CASE UNCHANGED vars
    <2>1. UNCHANGED <<entry, pending, wire, up, spent, twice, byHand, astray>>
        BY <1>4 DEF vars, history, linkVars
    <2>2. QuietBefore'
        BY <1>3, <2>1, QuietSame
    <2>3. Typed(O)'
        BY <1>2, <1>4, TypedSame
    <2>4. Seats(O)'
        <3> SUFFICES ASSUME NEW h \in O, NEW p \in Peers, Fair(h, p)' PROVE SeatOf(h, p)'
            BY DEF Seats
        <3>1. SeatOf(h, p) /\ h \in Peers
            BY <1>2, <2>1, ForthSame, FairBefore DEF Seats
        <3> QED
            BY <2>1, <3>1, QuietSeats
    <2> QED
        BY <1>1, <2>2, <2>3, <2>4 DEF SeatsOK
<1>5. ASSUME NEW a \in Peers, Game(a)
      PROVE  SeatsOK'
    <2>1. QuietBefore'
        BY <1>2, <1>3, <1>5, QuietGame
    <2>2. ASSUME NEW n \in Names, NEW settings \in Settings, CreateSession(a, n, settings)
          PROVE  SeatsOK'
        <3>1. Typed({a})' /\ Seats({a})'
            BY <1>2, <1>3, <2>2, CreateSessionOK, CreateSeats
        <3> QED
            BY <1>1, <2>1, <3>1 DEF SeatsOK
    <2>3. CASE ~\E n \in Names, settings \in Settings : CreateSession(a, n, settings)
        <3>1. Typed(O)' /\ Seats(O)'
            BY <1>2, <1>3, <1>5, <2>3, GameKeeps, GameSeats
        <3> QED
            BY <1>1, <2>1, <3>1 DEF SeatsOK
    <2> QED
        BY <2>2, <2>3
<1>6. ASSUME NEW a \in Peers, Tick(a) \/ Mesh(a)
      PROVE  SeatsOK'
    <2>1. QuietBefore'
        BY <1>2, <1>3, <1>6, QuietTick, QuietMesh
    <2>2. Typed(O)' /\ Seats(O)'
        BY <1>2, <1>3, <1>6, TickOK, MeshOK, TickSeats, MeshSeats
    <2> QED
        BY <1>1, <2>1, <2>2 DEF SeatsOK
<1> QED
    BY <1>4, <1>5, <1>6 DEF Next

LEMMA SeatsInvariance == Spec => []SeatsOK
    BY SeatsInit, SeatsInductive, PTL DEF Spec

(* Once nothing is under way, the host has on its roster exactly those who are  *)
(* in its session, and nobody it still knows is in one that it ended, whatever *)
(* was refused, late, lost or crossed, unless a game seated or unseated by     *)
(* hand or a seat went astray (session_join_request, session_join_response,   *)
(* destroy_session, session_destroy).                                        *)
THEOREM SeatsAgreeHolds == Spec => []SeatsAgree
<1>1. SeatsOK => SeatsAgree
    <2> SUFFICES ASSUME SeatsOK, Settled, ~astray, twice = {}, NEW p \in Peers \ byHand,
                        NEW h \in Peers, p # h, Connected(p, h)
                 PROVE  /\ \A n \in Names : State(p, n) = "joined" /\ InfosAt(p, n).owner = h
                              => h \in Hosts /\ p \in HostInfos(h).roster
                        /\ h \in Hosts /\ p \in HostInfos(h).roster
                              => \E n \in Names : State(p, n) = "joined"
        BY DEF SeatsAgree
    <2>1. PICK O \in SUBSET Peers : Typed(O) /\ Seats(O)
        BY DEF SeatsOK
    <2>2. JoinsOK
        BY DEF SeatsOK, WordsOK, IInv
    <2> DEFINE hp == <<h, p>>  ph == <<p, h>>
    <2>3. hp \in Pairs /\ ph \in Pairs
        BY DEF Pairs
    <2> HIDE DEF hp, ph
    <2>4. /\ ~Asked(wire[ph]) /\ ~Leaving(p, wire[ph]) /\ ~Asking(p, wire[ph])
          /\ ~Judged(p, wire[hp]) /\ ~Ended(wire[hp])
        BY <2>3, SaysNothing, Implied DEF Settled
    <2>5. ~Holds(p, "joining")
        BY DEF Settled, Holds
    <2>6. h \in O => /\ h \in Hosts => /\ Holds(p, "joined") => Seated(h, p)
                                       /\ Idle(p) => ~Seated(h, p)
                     /\ h \notin Hosts => ~Holds(p, "joined")
        BY <2>1, <2>4 DEF Seats, Fair, SeatOf, hp, ph
    <2>7. h \in Hosts => h \in O
        <3> SUFFICES ASSUME NEW x \in Names, State(h, x) = "hosting" PROVE h \in O
            BY DEF Hosts
        <3> QED
            BY <2>1, EntryParts, OwnInfosParts DEF Typed
    <2>8. h \in Hosts => (p \in HostInfos(h).roster <=> Seated(h, p))
        <3> SUFFICES ASSUME h \in Hosts
                     PROVE  p \in HostInfos(h).roster <=> Seated(h, p)
            OBVIOUS
        <3>1. PICK x \in Names : State(h, x) = "hosting" /\ HostInfos(h) = InfosAt(h, x)
            BY DEF Hosts, HostInfos
        <3>2. \A y \in Names : State(h, y) = "hosting" => y = x
            BY <2>2, <3>1 DEF JoinsOK, Held
        <3> QED
            BY <3>1, <3>2 DEF Seated
    <2>9. ASSUME NEW n \in Names, State(p, n) = "joined", InfosAt(p, n).owner = h
          PROVE  h \in Hosts /\ p \in HostInfos(h).roster
        <3>1. h \in O /\ Holds(p, "joined")
            BY <2>1, <2>9, EntryParts, OwnInfosParts DEF Typed, Holds
        <3> QED
            BY <2>6, <2>8, <3>1
    <2>10. ASSUME h \in Hosts, p \in HostInfos(h).roster
           PROVE  \E n \in Names : State(p, n) = "joined"
        <3>1. ~Idle(p) /\ h \in O
            BY <2>6, <2>7, <2>8, <2>10
        <3>2. PICK n \in Names : State(p, n) # "none"
            BY <3>1 DEF Idle
        <3>3. State(p, n) \in {"none", "joining", "joined"}
            BY <2>1, <2>2, <3>1, OneState DEF Typed
        <3> QED
            BY <2>5, <3>2, <3>3 DEF Holds
    <2> QED
        BY <2>9, <2>10
<1> QED
    BY <1>1, SeatsInvariance, PTL
=============================================================================
