---------------------------- MODULE LobbyProofs ----------------------------
(***************************************************************************)
(* What Lobby promises, for any set of peers and any bounds: whatever is   *)
(* lost or crossed, the types, that a host owns its lobby and sits in it,  *)
(* and that a join under way is waited for; and as long as nothing goes    *)
(* astray, that one peer hosts, that all come to agree, and that nobody's  *)
(* last update is lost.                                                    *)
(***************************************************************************)
EXTENDS Lobby, MeshLinkProofs, FiniteSetTheorems

-----------------------------------------------------------------------------
(* The inductive invariant.                                                *)

LobbyInfos ==
    [owner : Peers \cup {None}, roster : UNION {[S -> SUBSET Nat] : S \in SUBSET Peers},
     room : Nat, migrate : BOOLEAN]

(* What is broadcast names an owner that is on the roster.                   *)
SeatedInfos == {infos \in LobbyInfos : infos.owner \in Members(infos)}

Words ==
    [type : {"request", "response"}, body : BOOLEAN]
        \cup [type : {"infos"}, body : SeatedInfos]
        \cup [type : {"update"}, body : SUBSET Nat]
        \cup [type : {"leave", "destroy"}, body : {None}]

(* A host is the owner, and an owner has a seat: also one that hosts no more. *)
EntryOK(p, e) ==
    /\ e \in [state : States, infos : LobbyInfos]
    /\ e.state = "none" => e.infos = NoInfos
    /\ e.state \in {"joined", "hosting"} => e.infos.owner # None
    /\ e.state = "hosting" => e.infos.owner = p
    /\ e.state # "none" /\ e.infos.owner = p => p \in Members(e.infos)

EntriesOK ==
    /\ DOMAIN entry = Peers
    /\ \A p \in Peers : EntryOK(p, entry[p])

DetailsOK == details \in [Peers -> LobbyInfos]

JoinsOK ==
    /\ pending \in [Peers -> Seq({"waiting", "answered"})]
    /\ JoiningIsPending

HistoryOK ==
    /\ spent \in [Kinds -> Nat]
    /\ newest \in [Peers -> Nat]
    /\ \A p \in Peers : newest[p] <= spent["updates"]

IInv == LinkTyped(Words) /\ EntriesOK /\ DetailsOK /\ JoinsOK /\ HistoryOK

-----------------------------------------------------------------------------
(* The roster.                                                             *)

LEMMA InfosSet ==
    ASSUME NEW infos
    PROVE  IsInfos(infos) <=> infos \in LobbyInfos
    BY DEF IsInfos, LobbyInfos, Members

LEMMA InfosParts ==
    ASSUME NEW infos \in LobbyInfos
    PROVE  /\ infos.owner \in Peers \cup {None}
           /\ Members(infos) \subseteq Peers
           /\ infos.roster \in [Members(infos) -> SUBSET Nat]
    BY DEF LobbyInfos, Members

LEMMA SeatOK ==
    ASSUME NEW infos \in LobbyInfos, NEW m \in Peers, NEW attributes \in SUBSET Nat
    PROVE  /\ Seat(infos, m, attributes) \in LobbyInfos
           /\ Members(Seat(infos, m, attributes)) = Members(infos) \cup {m}
           /\ Seat(infos, m, attributes).owner = infos.owner
<1> DEFINE S == Members(infos) \cup {m}
           r == [x \in S |-> IF x = m THEN attributes ELSE infos.roster[x]]
<1>1. r \in [S -> SUBSET Nat] /\ S \subseteq Peers
    BY InfosParts
<1>2. Seat(infos, m, attributes) = [infos EXCEPT !.roster = r]
    BY DEF Seat
<1>3. r \in UNION {[T -> SUBSET Nat] : T \in SUBSET Peers}
    BY <1>1
<1> HIDE DEF r
<1>4. /\ [infos EXCEPT !.roster = r] \in LobbyInfos
      /\ [infos EXCEPT !.roster = r].roster = r
      /\ [infos EXCEPT !.roster = r].owner = infos.owner
    BY <1>3 DEF LobbyInfos
<1>5. DOMAIN r = S
    BY <1>1
<1> QED
    BY <1>2, <1>4, <1>5 DEF Members

LEMMA UnseatOK ==
    ASSUME NEW infos \in LobbyInfos, NEW m
    PROVE  /\ Unseat(infos, m) \in LobbyInfos
           /\ Members(Unseat(infos, m)) = Members(infos) \ {m}
           /\ Unseat(infos, m).owner = infos.owner
<1> DEFINE S == Members(infos) \ {m}
           r == [x \in S |-> infos.roster[x]]
<1>1. r \in [S -> SUBSET Nat] /\ S \subseteq Peers
    BY InfosParts
<1>2. Unseat(infos, m) = [infos EXCEPT !.roster = r]
    BY DEF Unseat, Restrict
<1>3. r \in UNION {[T -> SUBSET Nat] : T \in SUBSET Peers}
    BY <1>1
<1> HIDE DEF r
<1>4. /\ [infos EXCEPT !.roster = r] \in LobbyInfos
      /\ [infos EXCEPT !.roster = r].roster = r
      /\ [infos EXCEPT !.roster = r].owner = infos.owner
    BY <1>3 DEF LobbyInfos
<1>5. DOMAIN r = S
    BY <1>1
<1> QED
    BY <1>2, <1>4, <1>5 DEF Members

LEMMA OwnedBy ==
    ASSUME NEW infos \in LobbyInfos, NEW o \in Peers \cup {None}
    PROVE  /\ [infos EXCEPT !.owner = o] \in LobbyInfos
           /\ Members([infos EXCEPT !.owner = o]) = Members(infos)
           /\ [infos EXCEPT !.owner = o].owner = o
    BY DEF LobbyInfos, Members

LEMMA RoomOK ==
    ASSUME NEW infos \in LobbyInfos, NEW n \in Nat
    PROVE  /\ [infos EXCEPT !.room = n] \in LobbyInfos
           /\ Members([infos EXCEPT !.room = n]) = Members(infos)
           /\ [infos EXCEPT !.room = n].owner = infos.owner
    BY DEF LobbyInfos, Members

(* The heir is one of those who stay.                                        *)
LEMMA HeirStays ==
    ASSUME NEW infos \in LobbyInfos, NEW leaving
    PROVE  ElectOwner(infos, leaving) \in (Members(infos) \ {leaving}) \cup {None}
<1>1. Members(infos) \ {leaving} \in SUBSET Nat
    BY InfosParts, LobbyAssumption
<1> QED
    BY <1>1, MinOf DEF ElectOwner

LEMMA NoInfosOK == NoInfos \in LobbyInfos /\ Members(NoInfos) = {} /\ NoInfos.owner = None
<1>1. [m \in {} |-> {}] \in [{} -> SUBSET Nat]
    OBVIOUS
<1>2. [m \in {} |-> {}] \in UNION {[S -> SUBSET Nat] : S \in SUBSET Peers}
    BY <1>1
<1>3. DOMAIN [m \in {} |-> {}] = {}
    OBVIOUS
<1> QED
    BY <1>2, <1>3 DEF NoInfos, LobbyInfos, Members

-----------------------------------------------------------------------------
(* The streams.                                                            *)

LEMMA SendToOK ==
    ASSUME NEW w, Streams(w, Words), NEW p, NEW to, NEW type, NEW body,
           [type |-> type, body |-> body] \in Words
    PROVE  Streams(SendTo(w, p, to, type, body), Words)
<1> DEFINE m == [type |-> type, body |-> body]
           W == Words \cup {Eof}
<1>1. <<m>> \in Seq(W)
    OBVIOUS
<1> HIDE DEF m
<1>2. ASSUME NEW pq \in Pairs
      PROVE  SendTo(w, p, to, type, body)[pq] \in Seq(W)
    <2>1. w[pq] \in Seq(W)
        BY DEF Streams
    <2>2. w[pq] \o <<m>> \in Seq(W)
        BY <1>1, <2>1, ConcatProperties
    <2>3. CASE pq[1] = p /\ pq[2] \in to
        <3>1. pq = <<p, pq[2]>>
            BY <2>3 DEF Pairs
        <3>2. SendTo(w, p, to, type, body)[pq] = Posted(w, p, pq[2], <<m>>)[pq]
            BY <2>3 DEF SendTo, m
        <3>3. Posted(w, p, pq[2], <<m>>)[pq] \in {w[pq], w[pq] \o <<m>>}
            BY <3>1 DEF Posted, Streams
        <3> QED
            BY <2>1, <2>2, <3>2, <3>3
    <2>4. CASE ~(pq[1] = p /\ pq[2] \in to)
        BY <2>1, <2>4 DEF SendTo
    <2> QED
        BY <2>3, <2>4
<1>3. SendTo(w, p, to, type, body) = [pq \in Pairs |-> SendTo(w, p, to, type, body)[pq]]
    BY DEF SendTo
<1> QED
    BY <1>2, <1>3 DEF Streams

LEMMA BroadcastOK ==
    ASSUME NEW w, Streams(w, Words), NEW p, NEW infos \in SeatedInfos
    PROVE  Streams(BroadcastLobby(w, p, infos), Words)
<1>1. [type |-> "infos", body |-> infos] \in Words
    BY DEF Words
<1> QED
    BY <1>1, SendToOK DEF BroadcastLobby

LEMMA WordsOf ==
    /\ \A b \in BOOLEAN : /\ [type |-> "request", body |-> b] \in Words
                          /\ [type |-> "response", body |-> b] \in Words
    /\ \A a \in SUBSET Nat : [type |-> "update", body |-> a] \in Words
    /\ [type |-> "leave", body |-> None] \in Words
    /\ [type |-> "destroy", body |-> None] \in Words
    BY DEF Words

LEMMA EntryParts ==
    ASSUME EntriesOK, NEW p \in Peers
    PROVE  /\ State(p) \in States /\ Infos(p) \in LobbyInfos
           /\ entry[p] = [state |-> State(p), infos |-> Infos(p)]
           /\ EntryOK(p, [state |-> State(p), infos |-> Infos(p)])
           /\ State(p) = "hosting" => Infos(p).owner = p
           /\ State(p) # "none" /\ Infos(p).owner = p => Infos(p) \in SeatedInfos
    BY DEF EntriesOK, EntryOK, State, Infos, SeatedInfos

LEMMA EntryOf ==
    ASSUME NEW p \in Peers, NEW state \in States, NEW infos \in LobbyInfos,
           state = "none" => infos = NoInfos,
           state \in {"joined", "hosting"} => infos.owner # None,
           state = "hosting" => infos.owner = p,
           state # "none" /\ infos.owner = p => p \in Members(infos)
    PROVE  EntryOK(p, [state |-> state, infos |-> infos])
    BY DEF EntryOK

LEMMA AbsentOK ==
    ASSUME NEW p \in Peers
    PROVE  EntryOK(p, Absent)
    BY NoInfosOK DEF EntryOK, Absent, States

LEMMA Becoming ==
    ASSUME EntriesOK, NEW p \in Peers, NEW state, NEW infos,
           EntryOK(p, [state |-> state, infos |-> infos]), Becomes(p, state, infos)
    PROVE  /\ EntriesOK'
           /\ entry'[p].state = state
           /\ \A r \in Peers \ {p} : entry'[r] = entry[r]
    BY DEF EntriesOK, Becomes

LEMMA Erasing ==
    ASSUME EntriesOK, NEW p \in Peers, Erase(p)
    PROVE  /\ EntriesOK'
           /\ entry'[p].state = "none"
           /\ \A r \in Peers \ {p} : entry'[r] = entry[r]
<1>1. Absent.state = "none"
    BY DEF Absent
<1> QED
    BY <1>1, AbsentOK DEF EntriesOK, Erase

(* Whoever is joining was joining before, and waits as it did.                *)
LEMMA JoinsKept ==
    ASSUME JoinsOK, UNCHANGED pending,
           \A r \in Peers : entry'[r].state = "joining" => entry[r].state = "joining"
    PROVE  JoinsOK'
    BY DEF JoinsOK, JoiningIsPending, State

LEMMA JoinsKeptBy ==
    ASSUME JoinsOK, NEW p \in Peers, UNCHANGED pending,
           entry'[p].state = "joining" => entry[p].state = "joining",
           \A r \in Peers \ {p} : entry'[r] = entry[r]
    PROVE  JoinsOK'
    BY JoinsKept

LEMMA JoinsSame ==
    ASSUME JoinsOK, UNCHANGED <<entry, pending>>
    PROVE  JoinsOK'
    BY JoinsKept

LEMMA SpendOK ==
    ASSUME HistoryOK, NEW kind \in Kinds, Spend(kind)
    PROVE  /\ spent' \in [Kinds -> Nat]
           /\ spent["updates"] \in Nat /\ spent'["updates"] \in Nat
           /\ spent'["updates"] >= spent["updates"]
           /\ kind = "updates" => spent'["updates"] = spent["updates"] + 1
<1>1. "updates" \in Kinds
    BY DEF Kinds
<1> QED
    BY <1>1 DEF HistoryOK, Spend

LEMMA HistoryKept ==
    ASSUME HistoryOK, NEW kind \in Kinds, Spend(kind), UNCHANGED newest
    PROVE  HistoryOK'
    BY SpendOK DEF HistoryOK

LEMMA HistoryReset ==
    ASSUME HistoryOK, NEW kind \in Kinds, Spend(kind), NEW p \in Peers,
           newest' = [newest EXCEPT ![p] = 0]
    PROVE  HistoryOK'
    BY SpendOK DEF HistoryOK

LEMMA HistoryRecorded ==
    ASSUME HistoryOK, Spend("updates"), NEW p \in Peers, RecordUpdate(p)
    PROVE  HistoryOK'
<1>1. "updates" \in Kinds
    BY DEF Kinds
<1> QED
    BY <1>1, SpendOK DEF HistoryOK, RecordUpdate

LEMMA CreateLobbyOK ==
    ASSUME IInv, NEW p \in Peers, NEW room \in Rooms, NEW migrate \in Migrations,
           CreateLobby(p, room, migrate)
    PROVE  IInv'
<1> DEFINE infos == [owner |-> p, roster |-> [m \in {p} |-> {}], room |-> room,
                     migrate |-> migrate]
<1>1. infos \in LobbyInfos /\ infos.owner = p /\ Members(infos) = {p}
    <2>1. [m \in {p} |-> {}] \in [{p} -> SUBSET Nat] /\ {p} \in SUBSET Peers
        OBVIOUS
    <2>2. [m \in {p} |-> {}] \in UNION {[S -> SUBSET Nat] : S \in SUBSET Peers}
        BY <2>1
    <2>3. DOMAIN [m \in {p} |-> {}] = {p}
        OBVIOUS
    <2> QED
        BY <2>2, <2>3, LobbyAssumption DEF LobbyInfos, Members
<1>2. Becomes(p, "hosting", infos)
    BY DEF CreateLobby
<1> HIDE DEF infos
<1>3. EntryOK(p, [state |-> "hosting", infos |-> infos])
    BY <1>1, LobbyAssumption DEF EntryOK, States
<1>4. /\ EntriesOK'
      /\ entry'[p].state = "hosting"
      /\ \A r \in Peers \ {p} : entry'[r] = entry[r]
    BY <1>2, <1>3, Becoming DEF IInv
<1>5. JoinsOK'
    BY <1>4, JoinsKeptBy DEF IInv, CreateLobby
<1>6. HistoryOK'
    BY HistoryKept DEF IInv, CreateLobby, Kinds
<1>7. LinkTyped(Words)' /\ DetailsOK'
    BY LinkSame DEF IInv, CreateLobby, DetailsOK
<1> QED
    BY <1>4, <1>5, <1>6, <1>7 DEF IInv

LEMMA FindLobbyOK ==
    ASSUME IInv, NEW p \in Peers, NEW h \in Peers, FindLobby(p, h)
    PROVE  IInv'
<1>1. DetailsOK'
    BY EntryParts DEF IInv, FindLobby, DetailsOK
<1>2. EntriesOK' /\ JoinsOK'
    BY JoinsSame DEF IInv, FindLobby, EntriesOK
<1>3. HistoryOK'
    BY HistoryKept DEF IInv, FindLobby, Kinds
<1>4. LinkTyped(Words)'
    BY LinkSame DEF IInv, FindLobby
<1> QED
    BY <1>1, <1>2, <1>3, <1>4 DEF IInv

(* Whoever begins to join waits; the others wait as they did.                 *)
LEMMA AwaitJoinOK ==
    ASSUME JoinsOK, NEW p \in Peers, AwaitJoin(p),
           \A r \in Peers \ {p} : entry'[r] = entry[r]
    PROVE  JoinsOK'
<1> DEFINE M == {"waiting", "answered"}
<1>1. PICK i \in 0 .. Len(pending[p]) :
        pending' = [pending EXCEPT ![p] = InsertAt(@, i + 1, "waiting")]
    BY DEF AwaitJoin
<1>2. pending[p] \in Seq(M)
    BY DEF JoinsOK
<1> DEFINE before == SubSeq(pending[p], 1, i)
           after == SubSeq(pending[p], i + 1, Len(pending[p]))
           queue == before \o <<"waiting">> \o after
<1>3. before \in Seq(M) /\ Len(before) = i
    BY <1>2
<1>4. after \in Seq(M)
    BY <1>2
<1>5. pending' = [pending EXCEPT ![p] = queue]
    BY <1>1, <1>2, LenProperties DEF InsertAt
<1> HIDE DEF before, after
<1>6. before \o <<"waiting">> \in Seq(M) /\ Len(before \o <<"waiting">>) = i + 1
      /\ (before \o <<"waiting">>)[i + 1] = "waiting"
    BY <1>3
<1>7. queue \in Seq(M) /\ i + 1 \in 1 .. Len(queue) /\ queue[i + 1] = "waiting"
    BY <1>4, <1>6, ConcatProperties, LenProperties
<1> HIDE DEF queue
<1>8. "waiting" \in Range(queue)
    BY <1>7, LenProperties DEF Range
<1>9. pending'[p] = queue /\ \A r \in Peers \ {p} : pending'[r] = pending[r]
    BY <1>5 DEF JoinsOK
<1>10. pending' \in [Peers -> Seq(M)]
    BY <1>5, <1>7 DEF JoinsOK
<1>11. JoiningIsPending'
    BY <1>8, <1>9 DEF JoinsOK, JoiningIsPending, State
<1> QED
    BY <1>10, <1>11 DEF JoinsOK

LEMMA JoinLobbyOK ==
    ASSUME IInv, NEW p \in Peers, JoinLobby(p)
    PROVE  IInv'
<1>1. details[p] \in LobbyInfos /\ details[p].owner # p
    BY DEF IInv, DetailsOK, LinkTyped, JoinLobby, Pairs
<1>2. EntryOK(p, [state |-> "joining", infos |-> details[p]])
    BY <1>1 DEF EntryOK, States
<1>3. EntriesOK' /\ \A r \in Peers \ {p} : entry'[r] = entry[r]
    BY <1>2, Becoming DEF IInv, JoinLobby
<1>4. JoinsOK'
    BY <1>3, AwaitJoinOK DEF IInv, JoinLobby
<1>5. HistoryOK'
    BY HistoryReset DEF IInv, JoinLobby, AwaitJoin, Kinds
<1>6. Streams(wire', Words)
    BY SendToOK, WordsOf DEF IInv, LinkTyped, JoinLobby
<1>7. LinkTyped(Words)' /\ DetailsOK'
    BY <1>6, LinkSent DEF IInv, JoinLobby, DetailsOK
<1> QED
    BY <1>3, <1>4, <1>5, <1>7 DEF IInv

LEMMA JoinLobbyByIdOK ==
    ASSUME IInv, NEW p \in Peers, JoinLobbyById(p)
    PROVE  IInv'
<1>1. EntryOK(p, [state |-> "joining", infos |-> NoInfos])
    BY NoInfosOK, LobbyAssumption DEF EntryOK, States
<1>2. EntriesOK' /\ \A r \in Peers \ {p} : entry'[r] = entry[r]
    BY <1>1, Becoming DEF IInv, JoinLobbyById
<1>3. JoinsOK'
    BY <1>2, AwaitJoinOK DEF IInv, JoinLobbyById
<1>4. HistoryOK'
    BY HistoryReset DEF IInv, JoinLobbyById, AwaitJoin, Kinds
<1>5. Streams(wire', Words)
    BY SendToOK, WordsOf DEF IInv, LinkTyped, JoinLobbyById
<1>6. LinkTyped(Words)' /\ DetailsOK'
    BY <1>5, LinkSent DEF IInv, JoinLobbyById, DetailsOK
<1> QED
    BY <1>2, <1>3, <1>4, <1>6 DEF IInv

(* The heir that is broadcast has a seat in what is broadcast.                *)
LEMMA CloseHostedOK ==
    ASSUME IInv, NEW p \in Peers, State(p) # "none", CloseHostedLobby(p)
    PROVE  Streams(wire', Words)
<1> DEFINE heir == ElectOwner(Infos(p), p)
           left == Unseat(Infos(p), p)
           passed == [left EXCEPT !.owner = heir]
<1>1. Infos(p) \in LobbyInfos
    BY EntryParts DEF IInv
<1>2. heir \in (Members(Infos(p)) \ {p}) \cup {None}
    BY <1>1, HeirStays
<1>3. left \in LobbyInfos /\ Members(left) = Members(Infos(p)) \ {p}
    BY <1>1, UnseatOK
<1>4. wire' = IF heir = None
              THEN SendTo(wire, p, Members(Infos(p)) \ {p}, "destroy", None)
              ELSE BroadcastLobby(wire, p, passed)
    BY DEF CloseHostedLobby
<1>5. Streams(wire, Words)
    BY DEF IInv, LinkTyped
<1> HIDE DEF heir, left
<1>6. CASE heir = None
    BY <1>4, <1>5, <1>6, SendToOK, WordsOf
<1>7. CASE heir # None
    <2>1. heir \in Members(left) /\ heir \in Peers
        BY <1>2, <1>3, <1>7, InfosParts
    <2>2. passed \in SeatedInfos
        BY <1>3, <2>1, OwnedBy DEF SeatedInfos
    <2> HIDE DEF passed
    <2> QED
        BY <1>4, <1>5, <1>7, <2>2, BroadcastOK
<1> QED
    BY <1>6, <1>7

LEMMA LeaveLobbyOK ==
    ASSUME IInv, NEW p \in Peers, LeaveLobby(p)
    PROVE  IInv'
<1>1. /\ EntriesOK'
      /\ entry'[p].state = "none"
      /\ \A r \in Peers \ {p} : entry'[r] = entry[r]
    BY Erasing DEF IInv, LeaveLobby
<1>2. JoinsOK'
    BY <1>1, JoinsKeptBy DEF IInv, LeaveLobby
<1>3. HistoryOK'
    BY HistoryKept DEF IInv, LeaveLobby, Kinds
<1>4. Streams(wire', Words)
    <2>1. CASE State(p) = "hosting"
        BY <2>1, CloseHostedOK DEF LeaveLobby
    <2>2. CASE State(p) # "hosting"
        BY <2>2, SendToOK, WordsOf DEF LeaveLobby, IInv, LinkTyped
    <2> QED
        BY <2>1, <2>2
<1>5. LinkTyped(Words)' /\ DetailsOK'
    BY <1>4, LinkSent DEF IInv, LeaveLobby, DetailsOK
<1> QED
    BY <1>1, <1>2, <1>3, <1>5 DEF IInv

LEMMA UpdatedOK ==
    ASSUME IInv, NEW p \in Peers
    PROVE  /\ Updated(p) \in LobbyInfos
           /\ Members(Updated(p)) = Members(Infos(p))
           /\ Updated(p).owner = Infos(p).owner
           /\ OwnAttributes(Updated(p), p) \in SUBSET Nat
<1>1. Infos(p) \in LobbyInfos
    BY EntryParts DEF IInv
<1>2. spent["updates"] + 1 \in Nat
    BY DEF IInv, HistoryOK, Kinds
<1>3. CASE p \in Members(Infos(p))
    <2>1. Infos(p).roster[p] \cup {spent["updates"] + 1} \in SUBSET Nat
        BY <1>1, <1>2, <1>3, InfosParts
    <2>2. /\ Updated(p) \in LobbyInfos
          /\ Members(Updated(p)) = Members(Infos(p)) \cup {p}
          /\ Updated(p).owner = Infos(p).owner
        BY <1>1, <1>3, <2>1, SeatOK DEF Updated
    <2> QED
        BY <1>3, <2>2, InfosParts DEF OwnAttributes
<1>4. CASE p \notin Members(Infos(p))
    BY <1>1, <1>4 DEF Updated, OwnAttributes
<1> QED
    BY <1>3, <1>4

LEMMA UpdateLobbyOK ==
    ASSUME IInv, NEW p \in Peers, NEW room \in Rooms, UpdateLobby(p, room)
    PROVE  IInv'
<1> DEFINE infos == [Updated(p) EXCEPT !.room = room]
<1>1. /\ infos \in LobbyInfos
      /\ Members(infos) = Members(Infos(p))
      /\ infos.owner = Infos(p).owner
    BY UpdatedOK, RoomOK, LobbyAssumption
<1>2. /\ Becomes(p, State(p), infos)
      /\ wire' = BroadcastLobby(wire, p, infos)
      /\ State(p) # "none" /\ Infos(p).owner = p
    BY DEF UpdateLobby
<1> HIDE DEF infos
<1>3. EntryOK(p, [state |-> State(p), infos |-> infos]) /\ infos \in SeatedInfos
    <2>1. Infos(p) \in SeatedInfos /\ State(p) \in States
        BY <1>2, EntryParts DEF IInv
    <2>2. p \in Members(infos) /\ infos.owner = p
        BY <1>1, <1>2, <2>1 DEF SeatedInfos
    <2>3. EntryOK(p, [state |-> State(p), infos |-> infos])
        BY <1>1, <1>2, <2>1, <2>2, EntryOf, LobbyAssumption
    <2> QED
        BY <1>1, <2>2, <2>3 DEF SeatedInfos
<1>4. /\ EntriesOK'
      /\ entry'[p].state = State(p)
      /\ \A r \in Peers \ {p} : entry'[r] = entry[r]
    BY <1>2, <1>3, Becoming DEF IInv
<1>5. JoinsOK'
    BY <1>4, JoinsKeptBy DEF IInv, UpdateLobby, State
<1>6. HistoryOK'
    BY HistoryRecorded DEF IInv, UpdateLobby
<1>7. Streams(wire', Words)
    BY <1>2, <1>3, BroadcastOK DEF IInv, LinkTyped
<1>8. LinkTyped(Words)' /\ DetailsOK'
    BY <1>7, LinkSent DEF IInv, UpdateLobby, DetailsOK
<1> QED
    BY <1>4, <1>5, <1>6, <1>8 DEF IInv

LEMMA UpdateMemberOK ==
    ASSUME IInv, NEW p \in Peers, UpdateMember(p)
    PROVE  IInv'
<1>1. EntryOK(p, [state |-> State(p), infos |-> Updated(p)])
    BY UpdatedOK, EntryParts, NoInfosOK DEF IInv, UpdateMember, EntryOK
<1>2. /\ EntriesOK'
      /\ entry'[p].state = State(p)
      /\ \A r \in Peers \ {p} : entry'[r] = entry[r]
    BY <1>1, Becoming DEF IInv, UpdateMember
<1>3. JoinsOK'
    BY <1>2, JoinsKeptBy DEF IInv, UpdateMember, State
<1>4. HistoryOK'
    BY HistoryRecorded DEF IInv, UpdateMember
<1>5. Streams(wire', Words)
    BY UpdatedOK, SendToOK, WordsOf DEF IInv, LinkTyped, UpdateMember
<1>6. LinkTyped(Words)' /\ DetailsOK'
    BY <1>5, LinkSent DEF IInv, UpdateMember, DetailsOK
<1> QED
    BY <1>2, <1>3, <1>4, <1>6 DEF IInv

LEMMA PromoteMemberOK ==
    ASSUME IInv, NEW p \in Peers, NEW m \in Peers, PromoteMember(p, m)
    PROVE  IInv'
<1> DEFINE infos == [Infos(p) EXCEPT !.owner = m]
<1>1. infos \in LobbyInfos /\ Members(infos) = Members(Infos(p)) /\ infos.owner = m
    BY EntryParts, OwnedBy DEF IInv
<1>2. /\ Becomes(p, "joined", infos)
      /\ wire' = BroadcastLobby(wire, p, infos)
      /\ m \in Members(infos)
    BY DEF PromoteMember
<1> HIDE DEF infos
<1>3. EntryOK(p, [state |-> "joined", infos |-> infos]) /\ infos \in SeatedInfos
    BY <1>1, <1>2, EntryOf, LobbyAssumption DEF SeatedInfos, States
<1>4. /\ EntriesOK'
      /\ entry'[p].state = "joined"
      /\ \A r \in Peers \ {p} : entry'[r] = entry[r]
    BY <1>2, <1>3, Becoming DEF IInv
<1>5. JoinsOK'
    BY <1>4, JoinsKeptBy DEF IInv, PromoteMember
<1>6. HistoryOK'
    BY HistoryKept DEF IInv, PromoteMember, Kinds
<1>7. Streams(wire', Words)
    BY <1>2, <1>3, BroadcastOK DEF IInv, LinkTyped
<1>8. LinkTyped(Words)' /\ DetailsOK'
    BY <1>7, LinkSent DEF IInv, PromoteMember, DetailsOK
<1> QED
    BY <1>4, <1>5, <1>6, <1>8 DEF IInv

LEMMA KickMemberOK ==
    ASSUME IInv, NEW p \in Peers, NEW m \in Peers, KickMember(p, m)
    PROVE  IInv'
<1> DEFINE infos == Unseat(Infos(p), m)
<1>1. /\ infos \in LobbyInfos
      /\ Members(infos) = Members(Infos(p)) \ {m}
      /\ infos.owner = Infos(p).owner
    BY EntryParts, UnseatOK DEF IInv
<1>2. /\ Becomes(p, "hosting", infos)
      /\ wire' = BroadcastLobby(SendTo(wire, p, {m}, "destroy", None), p, infos)
      /\ State(p) = "hosting" /\ m # Infos(p).owner
    BY DEF KickMember
<1> HIDE DEF infos
<1>3. EntryOK(p, [state |-> "hosting", infos |-> infos]) /\ infos \in SeatedInfos
    <2>1. Infos(p) \in SeatedInfos /\ Infos(p).owner = p
        BY <1>2, EntryParts DEF IInv
    <2>2. p \in Members(infos) /\ infos.owner = p
        BY <1>1, <1>2, <2>1 DEF SeatedInfos
    <2>3. EntryOK(p, [state |-> "hosting", infos |-> infos])
        BY <1>1, <2>2, EntryOf, LobbyAssumption DEF States
    <2> QED
        BY <1>1, <2>2, <2>3 DEF SeatedInfos
<1>4. /\ EntriesOK'
      /\ entry'[p].state = "hosting"
      /\ \A r \in Peers \ {p} : entry'[r] = entry[r]
    BY <1>2, <1>3, Becoming DEF IInv
<1>5. JoinsOK'
    BY <1>4, JoinsKeptBy DEF IInv, KickMember
<1>6. HistoryOK'
    BY HistoryKept DEF IInv, KickMember, Kinds
<1>7. Streams(wire', Words)
    <2>1. Streams(SendTo(wire, p, {m}, "destroy", None), Words)
        BY SendToOK, WordsOf DEF IInv, LinkTyped
    <2> QED
        BY <1>2, <1>3, <2>1, BroadcastOK
<1>8. LinkTyped(Words)' /\ DetailsOK'
    BY <1>7, LinkSent DEF IInv, KickMember, DetailsOK
<1> QED
    BY <1>4, <1>5, <1>6, <1>8 DEF IInv

-----------------------------------------------------------------------------
(* The tick.                                                               *)

LEMMA JoinAnsweredOK ==
    ASSUME IInv, NEW p \in Peers, NEW i \in DOMAIN pending[p], JoinAnswered(p, i)
    PROVE  IInv'
<1> DEFINE M == {"waiting", "answered"}
           rest == RemoveAt(pending[p], i)
<1>1. pending[p] \in Seq(M)
    BY DEF IInv, JoinsOK
<1>2. rest \in Seq(M) /\ \A j \in DOMAIN pending[p] : j # i => pending[p][j] \in Range(rest)
    BY <1>1, RemoveKeepsOthers
<1>3. pending' = [pending EXCEPT ![p] = rest] /\ pending[p][i] = "answered" /\ entry' = entry
    BY DEF JoinAnswered
<1> HIDE DEF rest
<1>4. pending' \in [Peers -> Seq(M)]
    BY <1>2, <1>3 DEF IInv, JoinsOK
<1>5. "waiting" \in Range(pending[p]) => "waiting" \in Range(rest)
    BY <1>2, <1>3 DEF Range
<1>6. pending'[p] = rest /\ \A r \in Peers \ {p} : pending'[r] = pending[r]
    BY <1>3 DEF IInv, JoinsOK
<1>7. JoiningIsPending'
    BY <1>3, <1>5, <1>6 DEF IInv, JoinsOK, JoiningIsPending, State
<1>8. JoinsOK'
    BY <1>4, <1>7 DEF JoinsOK
<1>9. LinkTyped(Words)' /\ EntriesOK' /\ DetailsOK' /\ HistoryOK'
    BY LinkSame DEF IInv, JoinAnswered, EntriesOK, DetailsOK, HistoryOK
<1> QED
    BY <1>8, <1>9 DEF IInv

LEMMA JoinTimedOutOK ==
    ASSUME IInv, NEW p \in Peers, NEW i \in DOMAIN pending[p], JoinTimedOut(p, i)
    PROVE  IInv'
<1> DEFINE M == {"waiting", "answered"}
           rest == RemoveAt(pending[p], i)
<1>1. rest \in Seq(M)
    BY RemoveKeepsOthers DEF IInv, JoinsOK
<1>2. pending' = [pending EXCEPT ![p] = rest]
    BY DEF JoinTimedOut
<1> HIDE DEF rest
<1>3. /\ EntriesOK'
      /\ entry'[p].state # "joining"
      /\ \A r \in Peers \ {p} : entry'[r] = entry[r]
    <2>1. CASE State(p) = "joining"
        BY <2>1, Erasing DEF IInv, JoinTimedOut
    <2>2. CASE State(p) # "joining"
        BY <2>2 DEF IInv, JoinTimedOut, EntriesOK, State
    <2> QED
        BY <2>1, <2>2
<1>4. JoinsOK'
    <2>1. pending' \in [Peers -> Seq(M)] /\ \A r \in Peers \ {p} : pending'[r] = pending[r]
        BY <1>1, <1>2 DEF IInv, JoinsOK
    <2> QED
        BY <1>3, <2>1 DEF IInv, JoinsOK, JoiningIsPending, State
<1>5. HistoryOK'
    BY HistoryKept DEF IInv, JoinTimedOut, Kinds
<1>6. LinkTyped(Words)' /\ DetailsOK'
    BY LinkSame DEF IInv, JoinTimedOut, DetailsOK
<1> QED
    BY <1>3, <1>4, <1>5, <1>6 DEF IInv

-----------------------------------------------------------------------------
(* What comes from the mesh.                                               *)

(* A host stays one with any roster that it is on.                            *)
LEMMA HostGoesOn ==
    ASSUME EntriesOK, JoinsOK, NEW p \in Peers, State(p) = "hosting",
           NEW infos \in LobbyInfos, infos.owner = Infos(p).owner, p \in Members(infos),
           Becomes(p, "hosting", infos), UNCHANGED pending
    PROVE  EntriesOK' /\ JoinsOK' /\ infos \in SeatedInfos
<1>1. infos.owner = p
    BY EntryParts
<1>2. EntryOK(p, [state |-> "hosting", infos |-> infos])
    BY <1>1, EntryOf, LobbyAssumption DEF States
<1>3. /\ EntriesOK'
      /\ entry'[p].state = "hosting"
      /\ \A r \in Peers \ {p} : entry'[r] = entry[r]
    BY <1>2, Becoming
<1>4. JoinsOK'
    BY <1>3, JoinsKeptBy
<1> QED
    BY <1>1, <1>3, <1>4 DEF SeatedInfos

LEMMA HostSits ==
    ASSUME EntriesOK, NEW p \in Peers, State(p) = "hosting"
    PROVE  Infos(p) \in LobbyInfos /\ Infos(p).owner = p /\ p \in Members(Infos(p))
    BY EntryParts DEF SeatedInfos

LEMMA OnRequestOK ==
    ASSUME EntriesOK, JoinsOK, NEW p \in Peers, NEW q \in Peers \ {p},
           NEW w, Streams(w, Words), NEW byId, OnRequest(p, q, byId, w)
    PROVE  EntriesOK' /\ JoinsOK' /\ Streams(wire', Words)
<1> DEFINE infos == IF q \in Members(Infos(p)) THEN Infos(p) ELSE Seat(Infos(p), q, {})
<1>1. UNCHANGED pending
    BY DEF OnRequest
<1>2. CASE entry' = entry /\ wire' \in {w, SendTo(w, p, {q}, "response", FALSE)}
    BY <1>1, <1>2, JoinsSame, SendToOK, WordsOf DEF EntriesOK
<1>3. CASE /\ State(p) = "hosting"
           /\ Becomes(p, "hosting", infos)
           /\ wire' = BroadcastLobby(SendTo(w, p, {q}, "response", TRUE), p, infos)
    <2>1. /\ Infos(p) \in LobbyInfos /\ Infos(p).owner = p
          /\ p \in Members(Infos(p))
        BY <1>3, HostSits
    <2>2. /\ infos \in LobbyInfos /\ infos.owner = Infos(p).owner
          /\ p \in Members(infos)
        <3>1. CASE q \in Members(Infos(p))
            BY <2>1, <3>1
        <3>2. CASE q \notin Members(Infos(p))
            <4>1. {} \in SUBSET Nat
                OBVIOUS
            <4>2. /\ Seat(Infos(p), q, {}) \in LobbyInfos
                  /\ Members(Seat(Infos(p), q, {})) = Members(Infos(p)) \cup {q}
                  /\ Seat(Infos(p), q, {}).owner = Infos(p).owner
                BY <2>1, <4>1, SeatOK
            <4> QED
                BY <2>1, <3>2, <4>2
        <3> QED
            BY <3>1, <3>2
    <2> HIDE DEF infos
    <2>3. EntriesOK' /\ JoinsOK' /\ infos \in SeatedInfos
        BY <1>1, <1>3, <2>2, HostGoesOn
    <2>4. Streams(SendTo(w, p, {q}, "response", TRUE), Words)
        BY SendToOK, WordsOf
    <2> QED
        BY <1>3, <2>3, <2>4, BroadcastOK
<1>4. \/ entry' = entry /\ wire' \in {w, SendTo(w, p, {q}, "response", FALSE)}
      \/ /\ State(p) = "hosting"
         /\ Becomes(p, "hosting", infos)
         /\ wire' = BroadcastLobby(SendTo(w, p, {q}, "response", TRUE), p, infos)
    BY Zenon DEF OnRequest
<1> QED
    BY <1>2, <1>3, <1>4

LEMMA OnResponseOK ==
    ASSUME EntriesOK, JoinsOK, NEW p \in Peers, NEW q \in Peers \ {p},
           NEW w, Streams(w, Words), NEW success \in BOOLEAN, OnResponse(p, q, success, w)
    PROVE  EntriesOK' /\ JoinsOK' /\ Streams(wire', Words)
<1> DEFINE M == {"waiting", "answered"}
           heeded == /\ State(p) # "none"
                     /\ Infos(p).owner \in {None, q}
                     /\ pending[p] # <<>>
           infos == [Infos(p) EXCEPT !.owner = q]
<1>1. Streams(wire', Words)
    BY DEF OnResponse
<1>2. CASE ~heeded
    BY <1>1, <1>2, JoinsSame DEF OnResponse, EntriesOK
<1>3. CASE heeded
    <2>1. pending' = [pending EXCEPT ![p][1] = "answered"]
        BY <1>3 DEF OnResponse
    <2>2. /\ pending' \in [Peers -> Seq(M)]
          /\ \A r \in Peers \ {p} : pending'[r] = pending[r]
        <3>1. pending[p] \in Seq(M) /\ 1 \in 1 .. Len(pending[p])
            BY <1>3, EmptySeq, LenProperties DEF JoinsOK
        <3>2. [pending[p] EXCEPT ![1] = "answered"] \in Seq(M)
            BY <3>1, ExceptSeq
        <3> QED
            BY <2>1, <3>2 DEF JoinsOK
    <2>3. /\ EntriesOK'
          /\ entry'[p].state # "joining"
          /\ \A r \in Peers \ {p} : entry'[r] = entry[r]
        <3>1. CASE success
            <4>1. infos \in LobbyInfos /\ infos.owner = q
                BY EntryParts, OwnedBy
            <4>2. Becomes(p, "joined", infos)
                BY <1>3, <3>1 DEF OnResponse
            <4> HIDE DEF infos
            <4>3. EntryOK(p, [state |-> "joined", infos |-> infos])
                BY <4>1, EntryOf, LobbyAssumption DEF States
            <4> QED
                BY <4>2, <4>3, Becoming
        <3>2. CASE ~success /\ State(p) = "joining"
            BY <1>3, <3>2, Erasing DEF OnResponse
        <3>3. CASE ~success /\ State(p) # "joining"
            BY <1>3, <3>3 DEF OnResponse, EntriesOK, State
        <3> QED
            BY <3>1, <3>2, <3>3
    <2>4. JoiningIsPending'
        BY <2>2, <2>3 DEF JoinsOK, JoiningIsPending, State
    <2> QED
        BY <1>1, <2>2, <2>3, <2>4 DEF JoinsOK
<1> QED
    BY <1>2, <1>3

LEMMA OnInfosOK ==
    ASSUME EntriesOK, JoinsOK, NEW p \in Peers, NEW q \in Peers \ {p},
           NEW w, Streams(w, Words), NEW infos \in SeatedInfos, OnInfos(p, q, infos, w)
    PROVE  EntriesOK' /\ JoinsOK' /\ Streams(wire', Words)
<1> DEFINE state == IF infos.owner = p THEN "hosting" ELSE "joined"
<1>1. Streams(wire', Words) /\ UNCHANGED pending
    BY DEF OnInfos
<1>2. CASE entry' = entry
    BY <1>1, <1>2, JoinsSame DEF EntriesOK
<1>3. CASE Becomes(p, state, infos)
    <2>1. /\ infos \in LobbyInfos /\ infos.owner \in Members(infos)
          /\ Members(infos) \subseteq Peers
        BY InfosParts DEF SeatedInfos
    <2>2. EntryOK(p, [state |-> state, infos |-> infos])
        BY <2>1, EntryOf, LobbyAssumption DEF States
    <2>3. state # "joining"
        OBVIOUS
    <2> HIDE DEF state
    <2>4. /\ EntriesOK'
          /\ entry'[p].state = state
          /\ \A r \in Peers \ {p} : entry'[r] = entry[r]
        BY <1>3, <2>2, Becoming
    <2>5. JoinsOK'
        BY <1>1, <2>3, <2>4, JoinsKeptBy
    <2> QED
        BY <1>1, <2>4, <2>5
<1> QED
    BY <1>2, <1>3 DEF OnInfos

LEMMA OnLeaveOK ==
    ASSUME EntriesOK, JoinsOK, NEW p \in Peers, NEW q \in Peers \ {p},
           NEW w, Streams(w, Words), OnLeave(p, q, w)
    PROVE  EntriesOK' /\ JoinsOK' /\ Streams(wire', Words)
<1> DEFINE infos == Unseat(Infos(p), q)
<1>1. UNCHANGED pending
    BY DEF OnLeave
<1>2. CASE entry' = entry /\ wire' = w
    BY <1>1, <1>2, JoinsSame DEF EntriesOK
<1>3. CASE /\ State(p) = "hosting" /\ Becomes(p, "hosting", infos)
           /\ wire' = BroadcastLobby(w, p, infos)
    <2>1. /\ infos \in LobbyInfos /\ infos.owner = Infos(p).owner
          /\ p \in Members(infos)
        BY <1>3, HostSits, UnseatOK
    <2> HIDE DEF infos
    <2> QED
        BY <1>1, <1>3, <2>1, HostGoesOn, BroadcastOK
<1> QED
    BY <1>2, <1>3 DEF OnLeave

LEMMA OnUpdateOK ==
    ASSUME EntriesOK, JoinsOK, NEW p \in Peers, NEW q \in Peers \ {p},
           NEW w, Streams(w, Words), NEW attributes \in SUBSET Nat, OnUpdate(p, q, attributes, w)
    PROVE  EntriesOK' /\ JoinsOK' /\ Streams(wire', Words)
<1> DEFINE infos == Seat(Infos(p), q, attributes)
<1>1. UNCHANGED pending
    BY DEF OnUpdate
<1>2. CASE entry' = entry /\ wire' = w
    BY <1>1, <1>2, JoinsSame DEF EntriesOK
<1>3. CASE /\ State(p) = "hosting" /\ Becomes(p, "hosting", infos)
           /\ wire' = BroadcastLobby(w, p, infos)
    <2>1. /\ infos \in LobbyInfos /\ infos.owner = Infos(p).owner
          /\ p \in Members(infos)
        BY <1>3, HostSits, SeatOK
    <2> HIDE DEF infos
    <2> QED
        BY <1>1, <1>3, <2>1, HostGoesOn, BroadcastOK
<1> QED
    BY <1>2, <1>3 DEF OnUpdate

LEMMA OnDestroyOK ==
    ASSUME EntriesOK, JoinsOK, NEW p \in Peers, NEW q \in Peers \ {p},
           NEW w, Streams(w, Words), OnDestroy(p, q, w)
    PROVE  EntriesOK' /\ JoinsOK' /\ Streams(wire', Words)
<1>1. Streams(wire', Words) /\ UNCHANGED pending
    BY DEF OnDestroy
<1>2. CASE entry' = entry
    BY <1>1, <1>2, JoinsSame DEF EntriesOK
<1>3. CASE Erase(p)
    BY <1>1, <1>3, Erasing, JoinsKeptBy
<1> QED
    BY <1>2, <1>3 DEF OnDestroy

LEMMA OnNetworkMessageOK ==
    ASSUME EntriesOK, JoinsOK, HistoryOK, DetailsOK, NEW p \in Peers, NEW q \in Peers \ {p},
           NEW w, Streams(w, Words), NEW m \in Words, OnNetworkMessage(p, q, m, w)
    PROVE  EntriesOK' /\ JoinsOK' /\ Streams(wire', Words) /\ HistoryOK' /\ DetailsOK'
<1>1. HistoryOK' /\ DetailsOK'
    BY DEF OnNetworkMessage, HistoryOK, DetailsOK
<1>2. CASE m.type = "request" /\ OnRequest(p, q, m.body, w)
    BY <1>1, <1>2, OnRequestOK
<1>3. CASE m.type = "response" /\ OnResponse(p, q, m.body, w)
    <2>1. m.body \in BOOLEAN
        BY <1>3 DEF Words
    <2> QED
        BY <1>1, <1>3, <2>1, OnResponseOK
<1>4. CASE m.type = "infos" /\ OnInfos(p, q, m.body, w)
    <2>1. m.body \in SeatedInfos
        BY <1>4 DEF Words
    <2> QED
        BY <1>1, <1>4, <2>1, OnInfosOK
<1>5. CASE m.type = "leave" /\ OnLeave(p, q, w)
    BY <1>1, <1>5, OnLeaveOK
<1>6. CASE m.type = "update" /\ OnUpdate(p, q, m.body, w)
    <2>1. m.body \in SUBSET Nat
        BY <1>6 DEF Words
    <2> QED
        BY <1>1, <1>6, <2>1, OnUpdateOK
<1>7. CASE m.type = "destroy" /\ OnDestroy(p, q, w)
    BY <1>1, <1>7, OnDestroyOK
<1> QED
    BY <1>2, <1>3, <1>4, <1>5, <1>6, <1>7 DEF OnNetworkMessage

LEMMA OnOwnerGoneOK ==
    ASSUME LinkTyped(Words), EntriesOK, JoinsOK, NEW p \in Peers, NEW q \in Peers, NEW n \in Nat,
           OnOwnerGone(p, q, n), UNCHANGED pending
    PROVE  LinkTyped(Words)' /\ EntriesOK' /\ JoinsOK'
<1> DEFINE infos == Unseat(Infos(p), q)
           heir == ElectOwner(infos, q)
           passed == [infos EXCEPT !.owner = heir]
<1>1. infos \in LobbyInfos
    BY EntryParts, UnseatOK
<1> HIDE DEF infos
<1>2. heir \in Members(infos) \cup {None}
    BY <1>1, HeirStays
<1> HIDE DEF heir
<1>3. Streams(wire, Words)
    BY DEF LinkTyped
<1>4. CASE heir = None /\ Erase(p) /\ DropPeer(p, q, n, wire)
    BY <1>3, <1>4, Erasing, DropOK, JoinsKeptBy
<1>5. ASSUME heir # None, NEW state \in {"hosting", "joined"},
             state = "hosting" => heir = p,
             Becomes(p, state, passed),
             DropPeer(p, q, n, wire) \/ DropPeer(p, q, n, BroadcastLobby(wire, p, passed))
      PROVE  LinkTyped(Words)' /\ EntriesOK' /\ JoinsOK'
    <2>1. heir \in Peers
        BY <1>1, <1>2, <1>5, InfosParts
    <2>2. passed \in LobbyInfos /\ Members(passed) = Members(infos) /\ passed.owner = heir
        BY <1>1, <2>1, OwnedBy
    <2> HIDE DEF passed
    <2>3. passed \in SeatedInfos
        BY <1>2, <1>5, <2>2 DEF SeatedInfos
    <2>4. EntryOK(p, [state |-> state, infos |-> passed])
        BY <1>2, <1>5, <2>2, EntryOf DEF States
    <2>5. /\ EntriesOK'
          /\ entry'[p].state = state
          /\ \A r \in Peers \ {p} : entry'[r] = entry[r]
        BY <1>5, <2>4, Becoming
    <2>6. JoinsOK'
        BY <1>5, <2>5, JoinsKeptBy
    <2>7. Streams(BroadcastLobby(wire, p, passed), Words)
        BY <1>3, <2>3, BroadcastOK
    <2>8. LinkTyped(Words)'
        BY <1>3, <1>5, <2>7, DropOK
    <2> QED
        BY <2>5, <2>6, <2>8
<1>6. CASE /\ heir = p /\ Becomes(p, "hosting", passed)
           /\ DropPeer(p, q, n, BroadcastLobby(wire, p, passed))
    BY <1>5, <1>6, LobbyAssumption
<1>7. CASE /\ heir \notin {None, p} /\ Becomes(p, "joined", passed)
           /\ DropPeer(p, q, n, wire)
    BY <1>5, <1>7
<1> QED
    BY <1>4, <1>6, <1>7 DEF OnOwnerGone, infos, heir

LEMMA OnMemberGoneOK ==
    ASSUME LinkTyped(Words), EntriesOK, JoinsOK, NEW p \in Peers, NEW q \in Peers, NEW n \in Nat,
           OnMemberGone(p, q, n), UNCHANGED pending
    PROVE  LinkTyped(Words)' /\ EntriesOK' /\ JoinsOK'
<1> DEFINE infos == Unseat(Infos(p), q)
<1>1. Streams(wire, Words) /\ p # q
    BY DEF LinkTyped, OnMemberGone, DropPeer, Pairs
<1>2. /\ State(p) = "hosting" /\ Becomes(p, "hosting", infos)
      /\ DropPeer(p, q, n, BroadcastLobby(wire, p, infos))
    BY DEF OnMemberGone
<1>3. infos \in LobbyInfos /\ infos.owner = Infos(p).owner /\ p \in Members(infos)
    BY <1>1, <1>2, HostSits, UnseatOK
<1> HIDE DEF infos
<1>4. EntriesOK' /\ JoinsOK' /\ infos \in SeatedInfos
    BY <1>2, <1>3, HostGoesOn
<1>5. LinkTyped(Words)'
    BY <1>1, <1>2, <1>4, BroadcastOK, DropOK
<1> QED
    BY <1>4, <1>5

LEMMA OnPeerDisconnectedOK ==
    ASSUME LinkTyped(Words), EntriesOK, JoinsOK, NEW p \in Peers, NEW q \in Peers, NEW n \in Nat,
           OnPeerDisconnected(p, q, n), UNCHANGED pending
    PROVE  LinkTyped(Words)' /\ EntriesOK' /\ JoinsOK'
<1>1. CASE OnOwnerGone(p, q, n)
    BY <1>1, OnOwnerGoneOK
<1>2. CASE OnMemberGone(p, q, n)
    BY <1>2, OnMemberGoneOK
<1>3. CASE DropPeer(p, q, n, wire) /\ UNCHANGED entry
    <2>1. LinkTyped(Words)'
        BY <1>3, DropOK DEF LinkTyped
    <2> QED
        BY <1>3, <2>1, JoinsSame DEF EntriesOK
<1> QED
    BY <1>1, <1>2, <1>3 DEF OnPeerDisconnected

-----------------------------------------------------------------------------
(* The steps of the mesh.                                                  *)

LEMMA DeliverOK ==
    ASSUME IInv, NEW p \in Peers, NEW q \in Peers \ {p}, Deliver(p, q)
    PROVE  IInv'
<1> DEFINE W == Words \cup {Eof}
           w == [wire EXCEPT ![<<q, p>>] = Tail(@)]
           m == Head(wire[<<q, p>>])
<1>1. Streams(wire, Words) /\ <<q, p>> \in Pairs
    BY DEF IInv, LinkTyped, Pairs
<1>2. wire[<<q, p>>] \in Seq(W) /\ wire[<<q, p>>] # <<>>
    BY <1>1 DEF Streams, Deliver
<1>3. m \in W /\ Tail(wire[<<q, p>>]) \in Seq(W)
    BY <1>2, HeadTailProperties
<1>4. m \in Words
    BY <1>3 DEF Deliver
<1>5. Streams(w, Words)
    BY <1>1, <1>3 DEF Streams
<1>6. OnNetworkMessage(p, q, m, w)
    BY DEF Deliver
<1> HIDE DEF m, w
<1>7. EntriesOK' /\ JoinsOK' /\ Streams(wire', Words) /\ HistoryOK' /\ DetailsOK'
    BY <1>4, <1>5, <1>6, OnNetworkMessageOK DEF IInv
<1>8. LinkTyped(Words)'
    BY <1>7, LinkSent DEF IInv, Deliver
<1> QED
    BY <1>7, <1>8 DEF IInv

LEMMA DeliverLateOK ==
    ASSUME IInv, NEW p \in Peers, DeliverLate(p)
    PROVE  IInv'
<1> DEFINE d == Head(late[p])
<1>1. late[p] \in Seq(Envelopes(p, Words)) /\ late[p] # <<>>
    BY DEF IInv, LinkTyped, DeliverLate
<1>2. d \in Envelopes(p, Words) /\ Tail(late[p]) \in Seq(Envelopes(p, Words))
    BY <1>1, HeadTailProperties
<1>3. OnNetworkMessage(p, d.from, d.msg, wire)
    BY DEF DeliverLate
<1>4. late' = [late EXCEPT ![p] = Tail(late[p])] /\ UNCHANGED <<up, accepting>>
    BY DEF DeliverLate
<1> HIDE DEF d
<1>5. d.from \in Peers \ {p} /\ d.msg \in Words
    BY <1>2 DEF Envelopes
<1>6. Streams(wire, Words)
    BY DEF IInv, LinkTyped
<1>7. EntriesOK' /\ JoinsOK' /\ Streams(wire', Words) /\ HistoryOK' /\ DetailsOK'
    BY <1>3, <1>5, <1>6, OnNetworkMessageOK DEF IInv
<1>8. LinkTyped(Words)'
    BY <1>2, <1>4, <1>7 DEF IInv, LinkTyped
<1> QED
    BY <1>7, <1>8 DEF IInv

LEMMA LengthsAreNat ==
    ASSUME LinkTyped(Words), NEW p \in Peers, NEW q \in Peers \ {p}, NEW n \in 0 .. Len(wire[<<q, p>>])
    PROVE  n \in Nat
    OBVIOUS

LEMMA LoseOK ==
    ASSUME IInv, NEW p \in Peers, NEW q \in Peers \ {p},
           NEW n \in 0 .. Len(wire[<<q, p>>]), Lose(p, q, n)
    PROVE  IInv'
<1>1. LinkTyped(Words)' /\ EntriesOK' /\ JoinsOK'
    BY LengthsAreNat, OnPeerDisconnectedOK DEF IInv, Lose
<1>2. DetailsOK' /\ HistoryOK'
    BY DEF IInv, Lose, DetailsOK, HistoryOK
<1> QED
    BY <1>1, <1>2 DEF IInv

LEMMA BreakOK ==
    ASSUME IInv, NEW p \in Peers, NEW q \in Peers \ {p},
           NEW n \in 0 .. Len(wire[<<q, p>>]), Break(p, q, n)
    PROVE  IInv'
<1>1. LinkTyped(Words)' /\ EntriesOK' /\ JoinsOK'
    BY LengthsAreNat, OnPeerDisconnectedOK DEF IInv, Break
<1>2. HistoryOK'
    BY HistoryKept DEF IInv, Break, Kinds
<1>3. DetailsOK'
    BY DEF IInv, Break, DetailsOK
<1> QED
    BY <1>1, <1>2, <1>3 DEF IInv

LEMMA CrashOK ==
    ASSUME IInv, NEW p \in Peers, Crash(p)
    PROVE  IInv'
<1>1. LinkTyped(Words)'
    BY VanishOK DEF IInv, Crash
<1>2. /\ EntriesOK'
      /\ entry'[p].state = "none"
      /\ \A r \in Peers \ {p} : entry'[r] = entry[r]
    BY Erasing DEF IInv, Crash
<1>3. DetailsOK'
    BY NoInfosOK DEF IInv, Crash, DetailsOK
<1>4. JoinsOK'
    <2>1. /\ pending' \in [Peers -> Seq({"waiting", "answered"})]
          /\ \A r \in Peers \ {p} : pending'[r] = pending[r]
        BY DEF IInv, JoinsOK, Crash
    <2> QED
        BY <1>2, <2>1 DEF IInv, JoinsOK, JoiningIsPending, State
<1>5. HistoryOK'
    BY HistoryReset DEF IInv, Crash, Kinds
<1> QED
    BY <1>1, <1>2, <1>3, <1>4, <1>5 DEF IInv

-----------------------------------------------------------------------------
(* The invariant holds.                                                    *)

LEMMA InitOK == Init => IInv
<1> SUFFICES ASSUME Init PROVE IInv
    OBVIOUS
<1>1. LinkTyped(Words)
    <2>1. \A pq \in Pairs : wire[pq] = <<>>
        BY DEF Init, LinkInitMet
    <2> QED
        BY <2>1, EmptySeq DEF Init, LinkInitMet, LinkTyped, Streams
<1>2. EntriesOK /\ HistoryOK /\ JoiningIsPending
    <2>1. PICK infos \in Formed \cup {NoInfos} :
            /\ entry = [p \in Peers |->
                          IF p \notin Members(infos) THEN Absent
                          ELSE [state |-> IF p = infos.owner THEN "hosting" ELSE "joined",
                                infos |-> infos]]
            /\ spent = [kind \in Kinds |->
                          IF kind = "creates" /\ infos # NoInfos THEN 1 ELSE 0]
        BY DEF Init
    <2>2. infos \in LobbyInfos /\ (infos = NoInfos \/ infos.owner \in Members(infos))
        BY NoInfosOK, InfosSet, LobbyAssumption
    <2>3. ASSUME NEW p \in Peers
          PROVE  EntryOK(p, entry[p]) /\ entry[p].state # "joining"
        <3>1. CASE p \notin Members(infos)
            <4>1. entry[p] = Absent
                BY <2>1, <3>1
            <4> QED
                BY <4>1, AbsentOK DEF Absent
        <3>2. CASE p \in Members(infos)
            <4> DEFINE state == IF p = infos.owner THEN "hosting" ELSE "joined"
            <4>1. entry[p] = [state |-> state, infos |-> infos]
                BY <2>1, <3>2
            <4>2. infos # NoInfos
                BY <3>2, NoInfosOK
            <4>3. infos.owner \in Members(infos) /\ infos.owner # None
                BY <2>2, <4>2, InfosParts, LobbyAssumption
            <4>4. EntryOK(p, [state |-> state, infos |-> infos])
                BY <2>2, <3>2, <4>3, EntryOf DEF States
            <4> QED
                BY <4>1, <4>4
        <3> QED
            BY <3>1, <3>2
    <2>4. EntriesOK /\ JoiningIsPending
        BY <2>1, <2>3 DEF EntriesOK, JoiningIsPending, State
    <2>5. HistoryOK
        BY <2>1 DEF HistoryOK, Init, Kinds
    <2> QED
        BY <2>4, <2>5
<1>3. DetailsOK
    BY NoInfosOK DEF Init, DetailsOK
<1>4. JoinsOK
    BY <1>2, EmptySeq DEF Init, JoinsOK
<1> QED
    BY <1>1, <1>2, <1>3, <1>4 DEF IInv

LEMMA GameOK ==
    ASSUME IInv, NEW p \in Peers, Game(p)
    PROVE  IInv'
<1>1. CASE \E room \in Rooms, migrate \in Migrations : CreateLobby(p, room, migrate)
    BY <1>1, CreateLobbyOK
<1>2. CASE \E h \in Peers : FindLobby(p, h)
    BY <1>2, FindLobbyOK
<1>3. CASE JoinLobby(p)
    BY <1>3, JoinLobbyOK
<1>4. CASE JoinLobbyById(p)
    BY <1>4, JoinLobbyByIdOK
<1>5. CASE LeaveLobby(p)
    BY <1>5, LeaveLobbyOK
<1>6. CASE \E room \in Rooms : UpdateLobby(p, room)
    BY <1>6, UpdateLobbyOK
<1>7. CASE UpdateMember(p)
    BY <1>7, UpdateMemberOK
<1>8. CASE \E m \in Peers : PromoteMember(p, m)
    BY <1>8, PromoteMemberOK
<1>9. CASE \E m \in Peers : KickMember(p, m)
    BY <1>9, KickMemberOK
<1> QED
    BY <1>1, <1>2, <1>3, <1>4, <1>5, <1>6, <1>7, <1>8, <1>9 DEF Game

LEMMA MeshOK ==
    ASSUME IInv, NEW p \in Peers, Mesh(p)
    PROVE  IInv'
<1>1. CASE \E q \in Peers \ {p} : Deliver(p, q)
    BY <1>1, DeliverOK
<1>2. CASE DeliverLate(p)
    BY <1>2, DeliverLateOK
<1>3. CASE \E q \in Peers \ {p} : \E n \in 0 .. Len(wire[<<q, p>>]) : Lose(p, q, n)
    BY <1>3, LoseOK
<1>4. CASE \E q \in Peers \ {p} : \E n \in 0 .. Len(wire[<<q, p>>]) : Break(p, q, n)
    BY <1>4, BreakOK
<1>5. CASE Crash(p)
    BY <1>5, CrashOK
<1> QED
    BY <1>1, <1>2, <1>3, <1>4, <1>5 DEF Mesh

LEMMA Inductive == IInv /\ [Next]_vars => IInv'
<1> SUFFICES ASSUME IInv, [Next]_vars PROVE IInv'
    OBVIOUS
<1>1. CASE UNCHANGED vars
    <2>1. EntriesOK' /\ DetailsOK' /\ HistoryOK'
        BY <1>1 DEF IInv, vars, EntriesOK, DetailsOK, HistoryOK
    <2>2. LinkTyped(Words)' /\ JoinsOK'
        BY <1>1, LinkSame, JoinsSame DEF IInv, vars
    <2> QED
        BY <2>1, <2>2 DEF IInv
<1>2. ASSUME NEW p \in Peers, Game(p) PROVE IInv'
    BY <1>2, GameOK
<1>3. ASSUME NEW p \in Peers, Tick(p) PROVE IInv'
    BY <1>3, JoinAnsweredOK, JoinTimedOutOK DEF Tick
<1>4. ASSUME NEW p \in Peers, Mesh(p) PROVE IInv'
    BY <1>4, MeshOK
<1> QED
    BY <1>1, <1>2, <1>3, <1>4 DEF Next

LEMMA Invariance == Spec => []IInv
    BY InitOK, Inductive, PTL DEF Spec

-----------------------------------------------------------------------------
(* The types hold: whoever is in a lobby knows its owner, and the updates a    *)
(* member remembers were made (the handlers of lobby.cpp).                   *)
THEOREM TypeCorrect == Spec => []TypeOK
<1>1. IInv => TypeOK
  <2> SUFFICES ASSUME IInv PROVE TypeOK
      OBVIOUS
  <2>1. up \cup accepting \subseteq Pairs
      BY DEF IInv, LinkTyped
  <2>2. "updates" \in Kinds
      BY DEF Kinds
  <2>3. ASSUME NEW p \in Peers
        PROVE  /\ State(p) \in States
               /\ IsInfos(Infos(p))
               /\ State(p) = "none" => Infos(p) = NoInfos
               /\ InLobby(p) => Infos(p).owner # None
               /\ pending[p] \in Seq({"waiting", "answered"})
               /\ newest[p] \in 0 .. spent.updates
      <3>1. EntryOK(p, entry[p])
          BY DEF IInv, EntriesOK
      <3>2. newest[p] \in Nat /\ spent.updates \in Nat /\ newest[p] <= spent.updates
          BY <2>2 DEF IInv, HistoryOK
      <3>3. pending[p] \in Seq({"waiting", "answered"})
          BY DEF IInv, JoinsOK
      <3> QED
          BY <3>1, <3>2, <3>3, InfosSet DEF EntryOK, State, Infos, InLobby
  <2> QED
      BY <2>1, <2>3 DEF TypeOK
<1> QED
    BY <1>1, Invariance, PTL

(* A host owns its lobby and has a seat in it, however it came to host and      *)
(* whatever was lost or crossed on the way (create_lobby, lobby_infos,       *)
(* peer_disconnected, kick_member).                                        *)
THEOREM HostsOwn == Spec => []HostOwns
<1>1. IInv => HostOwns
    BY DEF IInv, EntriesOK, EntryOK, HostOwns, Hosts, State, Infos
<1> QED
    BY <1>1, Invariance, PTL

(* A join that is under way is waited for, so that its deadline ends it if      *)
(* nothing else does (join_lobby, lobby_join_response, run_callbacks).        *)
THEOREM JoinsEnd == Spec => []JoiningIsPending
<1>1. IInv => JoiningIsPending
    BY DEF IInv, JoinsOK
<1> QED
    BY <1>1, Invariance, PTL

-----------------------------------------------------------------------------
(* Words under way, line by line: Line(w, q, p) is what p has yet to read of  *)
(* what q sent it, on the wire w.                                          *)

Line(w, q, p) == w[<<q, p>>]

Mail == Words \cup {Eof}

IsWord(m) == m.type \in {"infos", "destroy"}

(* k is l with m behind it; l is k with m before it.                          *)
Put(l, k, m) ==
    /\ l \in Seq(Mail) /\ k \in Seq(Mail) /\ m \in Mail
    /\ Len(k) = Len(l) + 1 /\ k[Len(l) + 1] = m
    /\ \A i \in 1 .. Len(l) : k[i] = l[i]

Took(l, k, m) ==
    /\ l \in Seq(Mail) /\ k \in Seq(Mail) /\ m \in Mail
    /\ Len(l) = Len(k) + 1 /\ l[1] = m
    /\ \A i \in 1 .. Len(k) : k[i] = l[i + 1]

LEMMA LineType ==
    ASSUME NEW w, Streams(w, Words), NEW q \in Peers, NEW p \in Peers \ {q}
    PROVE  Line(w, q, p) \in Seq(Mail) /\ Len(Line(w, q, p)) \in Nat
<1>1. <<q, p>> \in Pairs
    BY DEF Pairs
<1>2. Line(w, q, p) \in Seq(Mail)
    BY <1>1 DEF Line, Streams, Mail
<1> QED
    BY <1>2

LEMMA PutLine ==
    ASSUME NEW l \in Seq(Mail), NEW m \in Mail
    PROVE  Put(l, l \o <<m>>, m)
<1> DEFINE one == <<m>>
<1>1. one \in Seq(Mail) /\ Len(one) = 1 /\ one[1] = m
    OBVIOUS
<1> HIDE DEF one
<1> DEFINE k == l \o one
<1>2. /\ l \o one \in Seq(Mail) /\ Len(l \o one) = Len(l) + Len(one)
      /\ \A i \in 1 .. Len(l) + Len(one) :
           (l \o one)[i] = IF i <= Len(l) THEN l[i] ELSE one[i - Len(l)]
    BY <1>1, ConcatProperties
<1>3. /\ k \in Seq(Mail) /\ Len(k) = Len(l) + 1
      /\ \A i \in 1 .. Len(l) + 1 : k[i] = IF i <= Len(l) THEN l[i] ELSE one[i - Len(l)]
    BY <1>1, <1>2, Zenon
<1>4. Len(l) \in Nat
    BY LenProperties
<1> HIDE DEF k
<1>5. k[Len(l) + 1] = m
    BY <1>1, <1>3, <1>4
<1>6. \A i \in 1 .. Len(l) : k[i] = l[i]
    BY <1>3, <1>4
<1>7. Put(l, k, m)
    BY <1>3, <1>5, <1>6 DEF Put
<1> QED
    BY <1>7 DEF k, one

LEMMA TookLine ==
    ASSUME NEW l \in Seq(Mail), l # <<>>
    PROVE  Took(l, Tail(l), Head(l))
<1>1. /\ Head(l) \in Mail /\ Tail(l) \in Seq(Mail) /\ Len(Tail(l)) = Len(l) - 1
      /\ \A i \in 1 .. Len(Tail(l)) : Tail(l)[i] = l[i + 1]
    BY HeadTailProperties
<1>2. Head(l) = l[1] /\ Len(l) \in Nat
    BY LenProperties
<1> QED
    BY <1>1, <1>2 DEF Took

-----------------------------------------------------------------------------
(* The course of the words for p: an order in which p may read those of all    *)
(* its lines, beginning with the line of o, so that each word names whose      *)
(* word is to be read next.  The k-th is h[k], the g[k]-th on the line of f[k]. *)

Course(w, p, o, n, h, f, g) ==
    /\ \A k \in 1 .. n : /\ g[k] \in 1 .. Len(Line(w, f[k], p))
                         /\ h[k] = Line(w, f[k], p)[g[k]]
                         /\ IsWord(h[k])
    /\ \A q \in Peers \ {p} : \A i \in 1 .. Len(Line(w, q, p)) :
         IsWord(Line(w, q, p)[i]) => \E k \in 1 .. n : f[k] = q /\ g[k] = i
    /\ \A k, l \in 1 .. n : k < l /\ f[k] = f[l] => g[k] < g[l]
    /\ n > 0 => f[1] = o
    /\ \A k \in 1 .. n : k < n => h[k].type = "infos" /\ h[k].body.owner = f[k + 1]

Trail(w, p, o, n, h) ==
    /\ n \in Nat
    /\ \E f \in [1 .. n -> Peers \ {p}], g \in [1 .. n -> Nat] : Course(w, p, o, n, h, f, g)

LEMMA TrailSame ==
    ASSUME NEW w, NEW w2, NEW p \in Peers, NEW o, NEW n, NEW h, Trail(w, p, o, n, h),
           \A q \in Peers \ {p} : Line(w2, q, p) = Line(w, q, p)
    PROVE  Trail(w2, p, o, n, h)
<1>1. n \in Nat
    BY DEF Trail
<1>2. PICK f \in [1 .. n -> Peers \ {p}], g \in [1 .. n -> Nat] : Course(w, p, o, n, h, f, g)
    BY DEF Trail
<1>3. \A k \in 1 .. n : f[k] \in Peers \ {p}
    BY <1>2
<1>4. Course(w2, p, o, n, h, f, g)
    BY <1>2, <1>3 DEF Course
<1> QED
    BY <1>1, <1>2, <1>4 DEF Trail

(* A message that is no word of the lobby's comes or goes.                    *)
LEMMA TrailPutOther ==
    ASSUME NEW w, NEW w2, NEW p \in Peers, NEW o, NEW n, NEW h, Trail(w, p, o, n, h),
           NEW s \in Peers \ {p}, NEW m, Put(Line(w, s, p), Line(w2, s, p), m), ~IsWord(m),
           \A q \in Peers \ {p} : q # s => Line(w2, q, p) = Line(w, q, p)
    PROVE  Trail(w2, p, o, n, h)
<1>1. n \in Nat
    BY DEF Trail
<1>2. PICK f \in [1 .. n -> Peers \ {p}], g \in [1 .. n -> Nat] : Course(w, p, o, n, h, f, g)
    BY DEF Trail
<1>3. \A k \in 1 .. n : f[k] \in Peers \ {p} /\ g[k] \in Nat
    BY <1>2
<1>4. /\ Len(Line(w2, s, p)) = Len(Line(w, s, p)) + 1 /\ Len(Line(w, s, p)) \in Nat
      /\ \A i \in 1 .. Len(Line(w, s, p)) : Line(w2, s, p)[i] = Line(w, s, p)[i]
      /\ Line(w2, s, p)[Len(Line(w, s, p)) + 1] = m
    BY LenProperties DEF Put
<1> HIDE DEF Line
<1>5. ASSUME NEW k \in 1 .. n
      PROVE  /\ g[k] \in 1 .. Len(Line(w2, f[k], p))
             /\ h[k] = Line(w2, f[k], p)[g[k]]
             /\ IsWord(h[k])
    <2>1. /\ g[k] \in 1 .. Len(Line(w, f[k], p))
          /\ h[k] = Line(w, f[k], p)[g[k]]
          /\ IsWord(h[k])
        BY <1>2 DEF Course
    <2>2. CASE f[k] = s
        BY <1>4, <2>1, <2>2
    <2>3. CASE f[k] # s
        BY <1>3, <2>1, <2>3
    <2> QED
        BY <2>2, <2>3
<1>6. ASSUME NEW q \in Peers \ {p}, NEW i \in 1 .. Len(Line(w2, q, p)), IsWord(Line(w2, q, p)[i])
      PROVE  \E k \in 1 .. n : f[k] = q /\ g[k] = i
    <2>1. i \in 1 .. Len(Line(w, q, p)) /\ Line(w, q, p)[i] = Line(w2, q, p)[i]
        BY <1>4, <1>6
    <2> QED
        BY <1>2, <1>6, <2>1 DEF Course
<1>7. Course(w2, p, o, n, h, f, g)
    BY <1>2, <1>5, <1>6 DEF Course
<1> QED
    BY <1>1, <1>2, <1>7 DEF Trail

(* The one whose word is to be read after all the others sends one more.      *)
LEMMA TrailPut ==
    ASSUME NEW w, NEW w2, NEW p \in Peers, NEW o, NEW n, NEW h, Trail(w, p, o, n, h),
           NEW s \in Peers \ {p}, NEW m, Put(Line(w, s, p), Line(w2, s, p), m), IsWord(m),
           \A q \in Peers \ {p} : q # s => Line(w2, q, p) = Line(w, q, p),
           n = 0 => o = s,
           n > 0 => h[n].type = "infos" /\ h[n].body.owner = s
    PROVE  \E h2 : Trail(w2, p, o, n + 1, h2) /\ h2[n + 1] = m
<1>1. n \in Nat
    BY DEF Trail
<1>2. PICK f \in [1 .. n -> Peers \ {p}], g \in [1 .. n -> Nat] : Course(w, p, o, n, h, f, g)
    BY DEF Trail
<1>3. \A k \in 1 .. n : f[k] \in Peers \ {p} /\ g[k] \in Nat
    BY <1>2
<1>4. /\ Len(Line(w2, s, p)) = Len(Line(w, s, p)) + 1 /\ Len(Line(w, s, p)) \in Nat
      /\ \A i \in 1 .. Len(Line(w, s, p)) : Line(w2, s, p)[i] = Line(w, s, p)[i]
      /\ Line(w2, s, p)[Len(Line(w, s, p)) + 1] = m
    BY LenProperties DEF Put
<1> HIDE DEF Line
<1> DEFINE f2 == [k \in 1 .. n + 1 |-> IF k = n + 1 THEN s ELSE f[k]]
           g2 == [k \in 1 .. n + 1 |-> IF k = n + 1 THEN Len(Line(w, s, p)) + 1 ELSE g[k]]
           h2 == [k \in 1 .. n + 1 |-> IF k = n + 1 THEN m ELSE h[k]]
<1>5. f2 \in [1 .. n + 1 -> Peers \ {p}] /\ g2 \in [1 .. n + 1 -> Nat]
    BY <1>1, <1>3, <1>4
<1>6. /\ \A k \in 1 .. n : f2[k] = f[k] /\ g2[k] = g[k] /\ h2[k] = h[k] /\ k \in 1 .. n + 1
      /\ n + 1 \in 1 .. n + 1
      /\ f2[n + 1] = s /\ g2[n + 1] = Len(Line(w, s, p)) + 1 /\ h2[n + 1] = m
      /\ \A k \in 1 .. n + 1 : k = n + 1 \/ k \in 1 .. n
    BY <1>1
<1> HIDE DEF f2, g2, h2
<1>7. ASSUME NEW k \in 1 .. n + 1
      PROVE  /\ g2[k] \in 1 .. Len(Line(w2, f2[k], p))
             /\ h2[k] = Line(w2, f2[k], p)[g2[k]]
             /\ IsWord(h2[k])
    <2>1. CASE k = n + 1
        BY <1>4, <1>6, <2>1
    <2>2. CASE k \in 1 .. n
        <3>1. /\ g[k] \in 1 .. Len(Line(w, f[k], p))
              /\ h[k] = Line(w, f[k], p)[g[k]]
              /\ IsWord(h[k])
            BY <1>2, <2>2 DEF Course
        <3>2. CASE f[k] = s
            BY <1>4, <1>6, <2>2, <3>1, <3>2
        <3>3. CASE f[k] # s
            BY <1>3, <1>6, <2>2, <3>1, <3>3
        <3> QED
            BY <3>2, <3>3
    <2> QED
        BY <1>6, <2>1, <2>2
<1>8. ASSUME NEW q \in Peers \ {p}, NEW i \in 1 .. Len(Line(w2, q, p)), IsWord(Line(w2, q, p)[i])
      PROVE  \E k \in 1 .. n + 1 : f2[k] = q /\ g2[k] = i
    <2>1. CASE q = s /\ i = Len(Line(w, s, p)) + 1
        BY <1>6, <2>1
    <2>2. CASE ~(q = s /\ i = Len(Line(w, s, p)) + 1)
        <3>1. i \in 1 .. Len(Line(w, q, p)) /\ Line(w, q, p)[i] = Line(w2, q, p)[i]
            BY <1>4, <1>8, <2>2
        <3>2. \E k \in 1 .. n : f[k] = q /\ g[k] = i
            BY <1>2, <1>8, <3>1 DEF Course
        <3> QED
            BY <1>6, <3>2
    <2> QED
        BY <2>1, <2>2
<1>9. ASSUME NEW k \in 1 .. n + 1, NEW l \in 1 .. n + 1, k < l, f2[k] = f2[l]
      PROVE  g2[k] < g2[l]
    <2>1. k \in 1 .. n
        BY <1>1, <1>9
    <2>2. CASE l = n + 1
        <3>1. f[k] = s /\ g[k] \in 1 .. Len(Line(w, f[k], p))
            BY <1>2, <1>6, <1>9, <2>1, <2>2 DEF Course
        <3> QED
            BY <1>4, <1>6, <2>1, <2>2, <3>1
    <2>3. CASE l \in 1 .. n
        <3>1. f[k] = f[l]
            BY <1>6, <1>9, <2>1, <2>3
        <3>2. g[k] < g[l]
            BY <1>2, <1>9, <2>1, <2>3, <3>1 DEF Course
        <3> QED
            BY <1>6, <2>1, <2>3, <3>2
    <2> QED
        BY <1>6, <2>2, <2>3
<1>10. f2[1] = o
    <2>1. CASE n = 0
        BY <1>6, <2>1
    <2>2. CASE n > 0
        BY <1>1, <1>2, <1>6, <2>2 DEF Course
    <2> QED
        BY <1>1, <2>1, <2>2
<1>11. ASSUME NEW k \in 1 .. n + 1, k < n + 1
       PROVE  h2[k].type = "infos" /\ h2[k].body.owner = f2[k + 1]
    <2>1. k \in 1 .. n
        BY <1>1, <1>11
    <2>2. CASE k = n
        BY <1>6, <2>1, <2>2
    <2>3. CASE k < n
        <3>1. k + 1 \in 1 .. n
            BY <1>1, <2>1, <2>3
        <3>2. h[k].type = "infos" /\ h[k].body.owner = f[k + 1]
            BY <1>2, <2>1, <2>3 DEF Course
        <3> QED
            BY <1>6, <2>1, <3>1, <3>2
    <2> QED
        BY <1>1, <2>1, <2>2, <2>3
<1>12. Course(w2, p, o, n + 1, h2, f2, g2)
    BY <1>7, <1>8, <1>9, <1>10, <1>11 DEF Course
<1>13. Trail(w2, p, o, n + 1, h2)
    BY <1>1, <1>5, <1>12 DEF Trail
<1> QED
    BY <1>6, <1>13

(* The first message of a line is read.                                      *)
LEMMA TrailTookOther ==
    ASSUME NEW w, NEW w2, NEW p \in Peers, NEW o, NEW n, NEW h, Trail(w, p, o, n, h),
           NEW s \in Peers \ {p}, NEW m, Took(Line(w, s, p), Line(w2, s, p), m), ~IsWord(m),
           \A q \in Peers \ {p} : q # s => Line(w2, q, p) = Line(w, q, p)
    PROVE  Trail(w2, p, o, n, h)
<1>1. n \in Nat
    BY DEF Trail
<1>2. PICK f \in [1 .. n -> Peers \ {p}], g \in [1 .. n -> Nat] : Course(w, p, o, n, h, f, g)
    BY DEF Trail
<1>3. \A k \in 1 .. n : f[k] \in Peers \ {p} /\ g[k] \in Nat
    BY <1>2
<1>4. /\ Len(Line(w, s, p)) = Len(Line(w2, s, p)) + 1 /\ Len(Line(w2, s, p)) \in Nat
      /\ \A i \in 1 .. Len(Line(w2, s, p)) : Line(w2, s, p)[i] = Line(w, s, p)[i + 1]
      /\ Line(w, s, p)[1] = m
    BY LenProperties DEF Took
<1> HIDE DEF Line
<1> DEFINE g2 == [k \in 1 .. n |-> IF f[k] = s THEN g[k] - 1 ELSE g[k]]
<1>5. ASSUME NEW k \in 1 .. n
      PROVE  /\ g[k] \in 1 .. Len(Line(w, f[k], p))
             /\ h[k] = Line(w, f[k], p)[g[k]]
             /\ IsWord(h[k])
             /\ f[k] = s => g[k] > 1
    <2>1. /\ g[k] \in 1 .. Len(Line(w, f[k], p))
          /\ h[k] = Line(w, f[k], p)[g[k]]
          /\ IsWord(h[k])
        BY <1>2 DEF Course
    <2>2. f[k] = s => g[k] # 1
        BY <1>4, <2>1
    <2> QED
        BY <1>4, <2>1, <2>2
<1>6. g2 \in [1 .. n -> Nat]
    BY <1>3, <1>5
<1>7. \A k \in 1 .. n : /\ f[k] = s => g2[k] = g[k] - 1
                        /\ f[k] # s => g2[k] = g[k]
    OBVIOUS
<1> HIDE DEF g2
<1>8. ASSUME NEW k \in 1 .. n
      PROVE  /\ g2[k] \in 1 .. Len(Line(w2, f[k], p))
             /\ h[k] = Line(w2, f[k], p)[g2[k]]
             /\ IsWord(h[k])
    <2>1. CASE f[k] = s
        <3>1. g2[k] \in 1 .. Len(Line(w2, s, p)) /\ g2[k] + 1 = g[k]
            BY <1>3, <1>4, <1>5, <1>7, <2>1
        <3> QED
            BY <1>4, <1>5, <2>1, <3>1
    <2>2. CASE f[k] # s
        BY <1>3, <1>5, <1>7, <2>2
    <2> QED
        BY <2>1, <2>2
<1>9. ASSUME NEW q \in Peers \ {p}, NEW i \in 1 .. Len(Line(w2, q, p)), IsWord(Line(w2, q, p)[i])
      PROVE  \E k \in 1 .. n : f[k] = q /\ g2[k] = i
    <2>1. CASE q = s
        <3>1. i + 1 \in 1 .. Len(Line(w, q, p)) /\ Line(w, q, p)[i + 1] = Line(w2, q, p)[i]
            BY <1>4, <2>1
        <3>2. \E k \in 1 .. n : f[k] = q /\ g[k] = i + 1
            BY <1>2, <1>9, <3>1 DEF Course
        <3> QED
            BY <1>7, <2>1, <3>2
    <2>2. CASE q # s
        <3>1. \E k \in 1 .. n : f[k] = q /\ g[k] = i
            BY <1>2, <1>9, <2>2 DEF Course
        <3> QED
            BY <1>7, <2>2, <3>1
    <2> QED
        BY <2>1, <2>2
<1>10. ASSUME NEW k \in 1 .. n, NEW l \in 1 .. n, k < l, f[k] = f[l]
       PROVE  g2[k] < g2[l]
    <2>1. g[k] < g[l]
        BY <1>2, <1>10 DEF Course
    <2> QED
        BY <1>3, <1>7, <1>10, <2>1
<1>11. Course(w2, p, o, n, h, f, g2)
    BY <1>2, <1>8, <1>9, <1>10 DEF Course
<1> QED
    BY <1>1, <1>2, <1>6, <1>11 DEF Trail

(* What is left of a course, its first word taken.                            *)
LeftOf(w, p, o, n, h) ==
    \E h2 : Trail(w, p, o, n - 1, h2) /\ (n > 1 => h2[n - 1] = h[n])

(* A word of the one whose word is next is that word.                         *)
LEMMA TrailTook ==
    ASSUME NEW w, NEW w2, NEW p \in Peers, NEW o \in Peers \ {p}, NEW n, NEW h, Trail(w, p, o, n, h),
           NEW m, Took(Line(w, o, p), Line(w2, o, p), m), IsWord(m),
           \A q \in Peers \ {p} : q # o => Line(w2, q, p) = Line(w, q, p)
    PROVE  /\ n > 0 /\ h[1] = m
           /\ n > 1 => m.type = "infos"
           /\ \A o2 : (n > 1 => o2 = m.body.owner) => LeftOf(w2, p, o2, n, h)
<1>1. n \in Nat
    BY DEF Trail
<1>2. PICK f \in [1 .. n -> Peers \ {p}], g \in [1 .. n -> Nat] : Course(w, p, o, n, h, f, g)
    BY DEF Trail
<1>3. \A k \in 1 .. n : f[k] \in Peers \ {p} /\ g[k] \in Nat
    BY <1>2
<1>4. /\ Len(Line(w, o, p)) = Len(Line(w2, o, p)) + 1 /\ Len(Line(w2, o, p)) \in Nat
      /\ \A i \in 1 .. Len(Line(w2, o, p)) : Line(w2, o, p)[i] = Line(w, o, p)[i + 1]
      /\ Line(w, o, p)[1] = m /\ 1 \in 1 .. Len(Line(w, o, p))
    BY LenProperties DEF Took
<1> HIDE DEF Line
<1>5. ASSUME NEW k \in 1 .. n
      PROVE  /\ g[k] \in 1 .. Len(Line(w, f[k], p))
             /\ h[k] = Line(w, f[k], p)[g[k]]
             /\ IsWord(h[k])
    BY <1>2 DEF Course
<1>6. PICK first \in 1 .. n : f[first] = o /\ g[first] = 1
    BY <1>2, <1>4 DEF Course
<1>7. n > 0 /\ 1 \in 1 .. n
    BY <1>1, <1>6
<1>8. f[1] = o
    BY <1>2, <1>7 DEF Course
<1>9. first = 1
    <2>1. ASSUME first # 1
          PROVE  FALSE
        <3>1. 1 < first
            BY <1>1, <1>6, <2>1
        <3>2. g[1] < g[first]
            BY <1>2, <1>6, <1>7, <1>8, <3>1 DEF Course
        <3>3. g[1] >= 1
            BY <1>4, <1>5, <1>7, <1>8
        <3> QED
            BY <1>3, <1>6, <1>7, <3>2, <3>3
    <2> QED
        BY <2>1
<1>10. h[1] = m /\ g[1] = 1
    BY <1>4, <1>5, <1>6, <1>7, <1>8, <1>9
<1>11. ASSUME NEW k \in 1 .. n, k < n
       PROVE  h[k].type = "infos" /\ h[k].body.owner = f[k + 1]
    BY <1>2, <1>11 DEF Course
<1>12. n > 1 => m.type = "infos" /\ m.body.owner = f[2]
    <2>1. ASSUME n > 1
          PROVE  m.type = "infos" /\ m.body.owner = f[2]
        <3>1. 1 < n /\ 1 + 1 = 2
            BY <2>1
        <3>2. h[1].type = "infos" /\ h[1].body.owner = f[1 + 1]
            BY <1>7, <1>11, <3>1
        <3> QED
            BY <1>10, <3>1, <3>2
    <2> QED
        BY <2>1
<1> DEFINE f2 == [k \in 1 .. n - 1 |-> f[k + 1]]
           g2 == [k \in 1 .. n - 1 |-> IF f[k + 1] = o THEN g[k + 1] - 1 ELSE g[k + 1]]
           h2 == [k \in 1 .. n - 1 |-> h[k + 1]]
<1>13. \A k \in 1 .. n - 1 : k + 1 \in 1 .. n /\ (f[k + 1] = o => g[k + 1] > 1)
    <2>1. ASSUME NEW k \in 1 .. n - 1, f[k + 1] = o
          PROVE  g[k + 1] > 1
        <3>1. k + 1 \in 1 .. n /\ 1 < k + 1
            BY <1>1, <2>1
        <3>2. g[1] < g[k + 1]
            BY <1>2, <1>7, <1>8, <2>1, <3>1 DEF Course
        <3> QED
            BY <1>10, <3>2
    <2> QED
        BY <1>1, <2>1
<1>14. f2 \in [1 .. n - 1 -> Peers \ {p}] /\ g2 \in [1 .. n - 1 -> Nat]
    BY <1>3, <1>13
<1>15. \A k \in 1 .. n - 1 : /\ f2[k] = f[k + 1] /\ h2[k] = h[k + 1]
                             /\ f[k + 1] = o => g2[k] = g[k + 1] - 1
                             /\ f[k + 1] # o => g2[k] = g[k + 1]
    OBVIOUS
<1> HIDE DEF f2, g2, h2
<1>16. ASSUME NEW k \in 1 .. n - 1
       PROVE  /\ g2[k] \in 1 .. Len(Line(w2, f2[k], p))
              /\ h2[k] = Line(w2, f2[k], p)[g2[k]]
              /\ IsWord(h2[k])
    <2> DEFINE j == k + 1
    <2>1. /\ j \in 1 .. n /\ (f[j] = o => g[j] > 1)
          /\ f2[k] = f[j] /\ h2[k] = h[j]
          /\ (f[j] = o => g2[k] = g[j] - 1)
          /\ (f[j] # o => g2[k] = g[j])
        BY <1>13, <1>15
    <2> HIDE DEF j
    <2>2. /\ g[j] \in 1 .. Len(Line(w, f[j], p))
          /\ h[j] = Line(w, f[j], p)[g[j]]
          /\ IsWord(h[j])
        BY <1>5, <2>1
    <2>3. CASE f[j] = o
        <3>1. g2[k] \in 1 .. Len(Line(w2, o, p)) /\ g2[k] + 1 = g[j]
            BY <1>3, <1>4, <2>1, <2>2, <2>3
        <3> QED
            BY <1>4, <2>1, <2>2, <2>3, <3>1
    <2>4. CASE f[j] # o
        BY <1>3, <2>1, <2>2, <2>4
    <2> QED
        BY <2>3, <2>4
<1>17. ASSUME NEW q \in Peers \ {p}, NEW i \in 1 .. Len(Line(w2, q, p)), IsWord(Line(w2, q, p)[i])
       PROVE  \E k \in 1 .. n - 1 : f2[k] = q /\ g2[k] = i
    <2>1. CASE q = o
        <3>1. i + 1 \in 1 .. Len(Line(w, q, p)) /\ Line(w, q, p)[i + 1] = Line(w2, q, p)[i] /\ i + 1 # 1
            BY <1>4, <2>1
        <3>2. PICK k \in 1 .. n : f[k] = q /\ g[k] = i + 1
            BY <1>2, <1>17, <3>1 DEF Course
        <3>3. k # 1
            BY <1>10, <3>1, <3>2
        <3>4. k - 1 \in 1 .. n - 1 /\ (k - 1) + 1 = k
            BY <1>1, <3>2, <3>3
        <3>5. f2[k - 1] = f[k] /\ g2[k - 1] = g[k] - 1
            BY <1>15, <2>1, <3>2, <3>4
        <3>6. g[k] - 1 = i
            BY <3>2
        <3> QED
            BY <3>2, <3>4, <3>5, <3>6
    <2>2. CASE q # o
        <3>1. PICK k \in 1 .. n : f[k] = q /\ g[k] = i
            BY <1>2, <1>17, <2>2 DEF Course
        <3>2. k # 1
            BY <1>8, <2>2, <3>1
        <3>3. k - 1 \in 1 .. n - 1 /\ (k - 1) + 1 = k
            BY <1>1, <3>1, <3>2
        <3>4. f2[k - 1] = f[k] /\ g2[k - 1] = g[k]
            BY <1>15, <2>2, <3>1, <3>3
        <3> QED
            BY <3>1, <3>3, <3>4
    <2> QED
        BY <2>1, <2>2
<1>18. ASSUME NEW k \in 1 .. n - 1, NEW l \in 1 .. n - 1, k < l, f2[k] = f2[l]
       PROVE  g2[k] < g2[l]
    <2>1. k + 1 \in 1 .. n /\ l + 1 \in 1 .. n /\ k + 1 < l + 1 /\ f[k + 1] = f[l + 1]
        BY <1>1, <1>15, <1>18
    <2>2. g[k + 1] < g[l + 1]
        BY <1>2, <2>1 DEF Course
    <2>3. g[k + 1] \in Nat /\ g[l + 1] \in Nat
        BY <1>3, <2>1
    <2> QED
        BY <1>15, <1>18, <2>1, <2>2, <2>3
<1>19. ASSUME NEW k \in 1 .. n - 1, k < n - 1
       PROVE  h2[k].type = "infos" /\ h2[k].body.owner = f2[k + 1]
    <2>1. k + 1 \in 1 .. n /\ k + 1 < n /\ k + 1 \in 1 .. n - 1
        BY <1>1, <1>19
    <2>2. h[k + 1].type = "infos" /\ h[k + 1].body.owner = f[(k + 1) + 1]
        BY <1>11, <2>1
    <2>3. f2[k + 1] = f[(k + 1) + 1] /\ h2[k] = h[k + 1]
        BY <1>15, <1>19, <2>1
    <2> QED
        BY <2>2, <2>3
<1>20. ASSUME NEW o2, n > 1 => o2 = m.body.owner
       PROVE  LeftOf(w2, p, o2, n, h)
    <2>1. n - 1 > 0 => f2[1] = o2
        <3>1. ASSUME n - 1 > 0
              PROVE  f2[1] = o2
            <4>1. n > 1 /\ 1 \in 1 .. n - 1 /\ 1 + 1 = 2
                BY <1>1, <3>1
            <4>2. f2[1] = f[1 + 1]
                BY <1>15, <4>1
            <4> QED
                BY <1>12, <1>20, <4>1, <4>2
        <3> QED
            BY <3>1
    <2>2. Course(w2, p, o2, n - 1, h2, f2, g2)
        BY <1>16, <1>17, <1>18, <1>19, <2>1 DEF Course
    <2>3. n - 1 \in Nat
        BY <1>1, <1>7
    <2>4. Trail(w2, p, o2, n - 1, h2)
        BY <1>14, <2>2, <2>3 DEF Trail
    <2>5. n > 1 => h2[n - 1] = h[n]
        <3>1. ASSUME n > 1
              PROVE  h2[n - 1] = h[n]
            <4>1. n - 1 \in 1 .. n - 1 /\ (n - 1) + 1 = n
                BY <1>1, <3>1
            <4> QED
                BY <1>15, <4>1
        <3> QED
            BY <3>1
    <2> QED
        BY <2>4, <2>5 DEF LeftOf
<1> QED
    BY <1>7, <1>10, <1>12, <1>20

-----------------------------------------------------------------------------
(* What is on a line.                                                      *)

Some(l, type) == \E i \in 1 .. Len(l) : l[i].type = type

(* An answer that lets the joiner in.                                        *)
IsAdmission(m) == m.type = "response" /\ m.body = TRUE
Admits(l) == \E i \in 1 .. Len(l) : IsAdmission(l[i])

Empty(l) == Len(l) = 0
Ended(l) == Len(l) = 1 /\ l[1] = Eof

LEMMA MailKinds ==
    /\ \A m \in Mail : m = Eof \/ m \in Words
    /\ Eof.type = "eof"
    /\ \A m \in Words :
         /\ m.type \in {"request", "response", "infos", "update", "leave", "destroy"}
         /\ m.type \in {"request", "response"} => m.body \in BOOLEAN
         /\ m.type = "infos" => m.body \in SeatedInfos
         /\ m.type = "update" => m.body \in SUBSET Nat
    /\ \A m \in Mail : m.type = "eof" <=> m = Eof
<1>1. Eof.type = "eof"
    BY DEF Eof
<1>2. \A m \in Mail : m = Eof \/ m \in Words
    BY DEF Mail
<1>3. \A m \in Words :
         /\ m.type \in {"request", "response", "infos", "update", "leave", "destroy"}
         /\ m.type \in {"request", "response"} => m.body \in BOOLEAN
         /\ m.type = "infos" => m.body \in SeatedInfos
         /\ m.type = "update" => m.body \in SUBSET Nat
    BY DEF Words
<1> QED
    BY <1>1, <1>2, <1>3

LEMMA PutSome ==
    ASSUME NEW l, NEW k, NEW m, Put(l, k, m)
    PROVE  /\ \A type : Some(k, type) <=> Some(l, type) \/ m.type = type
           /\ Admits(k) <=> Admits(l) \/ IsAdmission(m)
<1>1. /\ Len(l) \in Nat /\ Len(k) = Len(l) + 1 /\ k[Len(l) + 1] = m
      /\ \A i \in 1 .. Len(l) : k[i] = l[i]
    BY LenProperties DEF Put
<1>2. \A i \in 1 .. Len(k) : i = Len(l) + 1 \/ i \in 1 .. Len(l)
    BY <1>1
<1>3. \A i \in 1 .. Len(l) : i \in 1 .. Len(k)
    BY <1>1
<1>4. Len(l) + 1 \in 1 .. Len(k)
    BY <1>1
<1> QED
    BY <1>1, <1>2, <1>3, <1>4 DEF Some, Admits

LEMMA TookSome ==
    ASSUME NEW l, NEW k, NEW m, Took(l, k, m)
    PROVE  /\ \A type : Some(l, type) <=> Some(k, type) \/ m.type = type
           /\ Admits(l) <=> Admits(k) \/ IsAdmission(m)
<1>1. /\ Len(k) \in Nat /\ Len(l) = Len(k) + 1 /\ l[1] = m
      /\ \A i \in 1 .. Len(k) : k[i] = l[i + 1]
    BY LenProperties DEF Took
<1>2. ASSUME NEW i \in 1 .. Len(l)
      PROVE  \/ i = 1
             \/ i - 1 \in 1 .. Len(k) /\ k[i - 1] = l[i]
    <2>1. CASE i = 1
        BY <2>1
    <2>2. CASE i # 1
        <3>1. i - 1 \in 1 .. Len(k) /\ (i - 1) + 1 = i
            BY <1>1, <2>2
        <3> QED
            BY <1>1, <3>1
    <2> QED
        BY <2>1, <2>2
<1>3. \A i \in 1 .. Len(k) : i + 1 \in 1 .. Len(l) /\ l[i + 1] = k[i]
    BY <1>1
<1>4. 1 \in 1 .. Len(l)
    BY <1>1
<1>5. ASSUME NEW type
      PROVE  Some(l, type) <=> Some(k, type) \/ m.type = type
    <2>1. ASSUME Some(l, type)
          PROVE  Some(k, type) \/ m.type = type
        <3>1. PICK i \in 1 .. Len(l) : l[i].type = type
            BY <2>1 DEF Some
        <3> QED
            BY <1>1, <1>2, <3>1 DEF Some
    <2> QED
        BY <1>1, <1>3, <1>4, <2>1 DEF Some
<1>6. ASSUME Admits(l)
      PROVE  Admits(k) \/ IsAdmission(m)
    <2>1. PICK i \in 1 .. Len(l) : IsAdmission(l[i])
        BY <1>6 DEF Admits
    <2> QED
        BY <1>1, <1>2, <2>1 DEF Admits
<1>7. Admits(k) \/ IsAdmission(m) => Admits(l)
    BY <1>1, <1>3, <1>4 DEF Admits
<1> QED
    BY <1>5, <1>6, <1>7

-----------------------------------------------------------------------------
(* Sending.                                                                *)

Met(u, p, q) == <<p, q>> \in u /\ <<q, p>> \in u

(* w2 is w with m sent by p to those of to whom it has met.                   *)
Sent(w, w2, u, p, to, m) ==
    /\ Streams(w2, Words)
    /\ \A q \in Peers : \A r \in Peers \ {q} :
         IF q = p /\ r \in to /\ Met(u, q, r)
         THEN Put(Line(w, q, r), Line(w2, q, r), m)
         ELSE Line(w2, q, r) = Line(w, q, r)

LEMMA SendLines ==
    ASSUME NEW w, Streams(w, Words), accepting = {}, NEW p, NEW to, NEW type, NEW body,
           [type |-> type, body |-> body] \in Words
    PROVE  Sent(w, SendTo(w, p, to, type, body), up, p, to, [type |-> type, body |-> body])
<1> DEFINE m == [type |-> type, body |-> body]
           w2 == SendTo(w, p, to, type, body)
<1>1. Streams(w2, Words)
    BY SendToOK
<1>2. ASSUME NEW q \in Peers, NEW r \in Peers \ {q}
      PROVE  IF q = p /\ r \in to /\ Met(up, q, r)
             THEN Put(Line(w, q, r), Line(w2, q, r), m)
             ELSE Line(w2, q, r) = Line(w, q, r)
    <2> DEFINE pq == <<q, r>>
               one == <<m>>
    <2>1. pq \in Pairs /\ pq[1] = q /\ pq[2] = r
        BY DEF Pairs
    <2>2. m \in Mail
        BY DEF Mail
    <2>3. w2[pq] = IF q = p /\ r \in to THEN Posted(w, p, r, one)[pq] ELSE w[pq]
        BY <2>1 DEF SendTo
    <2>4. Line(w, q, r) \in Seq(Mail)
        BY <1>2, LineType
    <2>5. Put(Line(w, q, r), Line(w, q, r) \o one, m)
        BY <2>2, <2>4, PutLine
    <2> HIDE DEF one
    <2>6. CASE ~(q = p /\ r \in to)
        BY <2>3, <2>6 DEF Line
    <2>7. CASE q = p /\ r \in to
        <3>1. Met(up, q, r) <=> <<q, r>> \in up /\ Reads(r, q)
            BY DEF Met, Reads
        <3>2. Posted(w, q, r, one)[pq] = IF Met(up, q, r) THEN w[pq] \o one ELSE w[pq]
            BY <2>1, <3>1 DEF Posted, Streams
        <3> QED
            BY <2>3, <2>5, <2>7, <3>2 DEF Line
    <2> QED
        BY <2>6, <2>7
<1> QED
    BY <1>1, <1>2 DEF Sent

LEMMA SentMsg ==
    ASSUME NEW w, NEW w2, NEW u, NEW p, NEW to, NEW m, Sent(w, w2, u, p, to, m),
           NEW q \in Peers, NEW r \in Peers \ {q}
    PROVE  /\ \A type : Some(Line(w2, q, r), type) <=>
                          \/ Some(Line(w, q, r), type)
                          \/ q = p /\ r \in to /\ Met(u, q, r) /\ m.type = type
           /\ Admits(Line(w2, q, r)) <=>
                          \/ Admits(Line(w, q, r))
                          \/ q = p /\ r \in to /\ Met(u, q, r) /\ IsAdmission(m)
    BY PutSome DEF Sent

(* What the read of the first message of a line leaves.                      *)
Read(w, w2, q, p, m) ==
    /\ Streams(w2, Words)
    /\ Took(Line(w, q, p), Line(w2, q, p), m)
    /\ \A x \in Peers : \A y \in Peers \ {x} :
         ~(x = q /\ y = p) => Line(w2, x, y) = Line(w, x, y)

LEMMA ReadLines ==
    ASSUME NEW w, Streams(w, Words), NEW p \in Peers, NEW q \in Peers \ {p}, w[<<q, p>>] # <<>>
    PROVE  Read(w, [w EXCEPT ![<<q, p>>] = Tail(@)], q, p, Head(w[<<q, p>>]))
<1> DEFINE pq == <<q, p>>
           w2 == [w EXCEPT ![pq] = Tail(@)]
<1>1. pq \in Pairs
    BY DEF Pairs
<1>2. w[pq] \in Seq(Mail) /\ w[pq] # <<>>
    BY <1>1 DEF Streams, Mail
<1>3. w2[pq] = Tail(w[pq]) /\ \A xy \in Pairs : xy # pq => w2[xy] = w[xy]
    BY <1>1 DEF Streams
<1>4. Tail(w[pq]) \in Seq(Mail)
    BY <1>2, HeadTailProperties
<1>5. Streams(w2, Words)
    BY <1>1, <1>4 DEF Streams, Mail
<1>6. Took(w[pq], Tail(w[pq]), Head(w[pq]))
    BY <1>2, TookLine
<1>7. \A x \in Peers : \A y \in Peers \ {x} : <<x, y>> \in Pairs /\ (<<x, y>> = pq <=> x = q /\ y = p)
    BY DEF Pairs
<1> HIDE DEF w2
<1>8. Read(w, w2, q, p, Head(w[pq]))
    BY <1>3, <1>5, <1>6, <1>7 DEF Read, Line
<1> QED
    BY <1>8 DEF w2

LEMMA ReadMsg ==
    ASSUME NEW w, NEW w2, NEW q, NEW p, NEW m, Read(w, w2, q, p, m),
           NEW x \in Peers, NEW y \in Peers \ {x}
    PROVE  /\ \A type : Some(Line(w, x, y), type) <=>
                          \/ Some(Line(w2, x, y), type)
                          \/ x = q /\ y = p /\ m.type = type
           /\ Admits(Line(w, x, y)) <=>
                          \/ Admits(Line(w2, x, y))
                          \/ x = q /\ y = p /\ IsAdmission(m)
    BY TookSome DEF Read

-----------------------------------------------------------------------------
(* What everyone holds, once it has noticed that its owner is gone.           *)

Lost(e, w, p) ==
    /\ e[p].state = "joined" /\ e[p].infos.owner # p
    /\ Some(Line(w, e[p].infos.owner, p), "eof")

Passed(infos) ==
    LET left == Unseat(infos, infos.owner)
    IN  [left EXCEPT !.owner = ElectOwner(left, infos.owner)]

AfterLoss(p, infos) ==
    IF Passed(infos).owner = None THEN Absent
    ELSE [state |-> IF Passed(infos).owner = p THEN "hosting" ELSE "joined",
          infos |-> Passed(infos)]

Views(e, w) ==
    [p \in Peers |-> IF Lost(e, w, p) THEN AfterLoss(p, e[p].infos) ELSE e[p]]

-----------------------------------------------------------------------------
(* Who speaks for the lobby: its host, or who is about to be told that it is   *)
(* the owner; K is what it says.                                           *)

Hosting(f, p) == f[p].state = "hosting"

IsNaming(m, s) == m.type = "infos" /\ m.body.owner = s

Named(l, s, K) == \E i \in 1 .. Len(l) : IsNaming(l[i], s) /\ l[i].body = K

Speaks(f, w, s, K) ==
    /\ s \in Peers
    /\ \/ Hosting(f, s) /\ f[s].infos = K
       \/ \E r \in Peers \ {s} : Named(Line(w, r, s), s, K)

Names(w, r, s, i) ==
    /\ r \in Peers /\ s \in Peers /\ r # s
    /\ i \in 1 .. Len(Line(w, r, s)) /\ IsNaming(Line(w, r, s)[i], s)

Single(f, w) ==
    /\ \A p, q \in Peers : Hosting(f, p) /\ Hosting(f, q) => p = q
    /\ \A p, r, s, i : p \in Peers /\ Hosting(f, p) => ~Names(w, r, s, i)
    /\ \A r, s, i, r2, s2, i2 :
         Names(w, r, s, i) /\ Names(w, r2, s2, i2) => r = r2 /\ s = s2 /\ i = i2

-----------------------------------------------------------------------------
(* Whoever is in the lobby has what is said, or has it to read.               *)

Admitted(w, x) == \E q \in Peers \ {x} : Admits(Line(w, q, x))
Told(w, x) ==
    \E q \in Peers \ {x} : Some(Line(w, q, x), "infos") \/ Some(Line(w, q, x), "destroy")
Sends(w, x, type) == \E q \in Peers \ {x} : Some(Line(w, x, q), type)
Updating(w, x) == Sends(w, x, "update")
Leaving(w, x) == Sends(w, x, "leave")

(* free: the attributes of x may be others than the host's, on their way.     *)
Alike(x, I, K, free) ==
    /\ I.owner = K.owner /\ I.room = K.room /\ I.migrate = K.migrate
    /\ Members(I) = Members(K)
    /\ \A m \in Members(K) : (m = x /\ free) \/ I.roster[m] = K.roster[m]

UpToDate(f, w, u, x, I, free) ==
    \E s, K : /\ Speaks(f, w, s, K)
              /\ I.owner = s /\ x \in Members(K)
              /\ s = x \/ Met(u, x, s)
              /\ Alike(x, I, K, free)

Out(f, w, x) == \A s, K : Speaks(f, w, s, K) => x \notin Members(K)

Ends(f, w, u, x, o, I, free, n, h) ==
    \/ n = 0 /\ I.owner = o /\ UpToDate(f, w, u, x, I, free)
    \/ n > 0 /\ h[n].type = "infos" /\ UpToDate(f, w, u, x, h[n].body, free)
    \/ n > 0 /\ h[n].type = "destroy" /\ Out(f, w, x)

Follows(f, w, u, x, o, I, free) ==
    \E n, h : Trail(w, x, o, n, h) /\ Ends(f, w, u, x, o, I, free, n, h)

LEMMA TrailLength ==
    ASSUME NEW w, NEW x \in Peers, NEW o, NEW n, NEW h, Trail(w, x, o, n, h)
    PROVE  /\ n \in Nat
           /\ \A k \in 1 .. n : IsWord(h[k])
           /\ n > 0 => o \in Peers \ {x}
           /\ ~Told(w, x) => n = 0
<1>1. n \in Nat
    BY DEF Trail
<1>2. PICK f \in [1 .. n -> Peers \ {x}], g \in [1 .. n -> Nat] : Course(w, x, o, n, h, f, g)
    BY DEF Trail
<1>3. \A k \in 1 .. n : /\ f[k] \in Peers \ {x} /\ g[k] \in 1 .. Len(Line(w, f[k], x))
                        /\ h[k] = Line(w, f[k], x)[g[k]] /\ IsWord(h[k])
    BY <1>2 DEF Course
<1>4. n > 0 => 1 \in 1 .. n /\ f[1] = o
    BY <1>1, <1>2 DEF Course
<1>5. n > 0 => Told(w, x)
    BY <1>3, <1>4 DEF Told, Some, IsWord
<1> QED
    BY <1>1, <1>3, <1>4, <1>5

LEMMA TrailNone ==
    ASSUME NEW w, NEW x \in Peers, NEW o, NEW h, ~Told(w, x)
    PROVE  Trail(w, x, o, 0, h)
<1> DEFINE f == [k \in 1 .. 0 |-> x]
<1>1. 1 .. 0 = {}
    OBVIOUS
<1>2. f \in [1 .. 0 -> Peers \ {x}] /\ f \in [1 .. 0 -> Nat]
    BY <1>1
<1>3. ASSUME NEW q \in Peers \ {x}, NEW i \in 1 .. Len(Line(w, q, x))
      PROVE  ~IsWord(Line(w, q, x)[i])
    BY DEF Told, Some, IsWord
<1> HIDE DEF f
<1>4. Course(w, x, o, 0, h, f, f)
    BY <1>1, <1>3 DEF Course
<1> QED
    BY <1>2, <1>4 DEF Trail

(* The speaker is one.                                                      *)
LEMMA OneSpeaks ==
    ASSUME NEW f, NEW w, Single(f, w), NEW s, NEW K, Speaks(f, w, s, K),
           NEW s2, NEW K2, Speaks(f, w, s2, K2)
    PROVE  s = s2 /\ K = K2
<1>1. /\ s \in Peers /\ s2 \in Peers
      /\ (Hosting(f, s) /\ f[s].infos = K)
            \/ \E r, i : Names(w, r, s, i) /\ Line(w, r, s)[i].body = K
      /\ (Hosting(f, s2) /\ f[s2].infos = K2)
            \/ \E r, i : Names(w, r, s2, i) /\ Line(w, r, s2)[i].body = K2
    BY DEF Speaks, Named, Names
<1> QED
    BY <1>1 DEF Single

LEMMA Freed ==
    ASSUME NEW f, NEW w, NEW u, NEW x, NEW o, NEW I, NEW free \in BOOLEAN, NEW free2 \in BOOLEAN,
           free => free2, Follows(f, w, u, x, o, I, free)
    PROVE  Follows(f, w, u, x, o, I, free2)
<1>1. \A J : UpToDate(f, w, u, x, J, free) => UpToDate(f, w, u, x, J, free2)
    BY DEF UpToDate, Alike
<1> QED
    BY <1>1 DEF Follows, Ends

(* With nothing in hand there is a word to come.                              *)
LEMMA FollowsAny ==
    ASSUME NEW f, NEW w, NEW u, NEW x \in Peers, NEW o, NEW I, NEW free,
           Follows(f, w, u, x, o, NoInfos, free)
    PROVE  Follows(f, w, u, x, o, I, free)
<1>1. ~UpToDate(f, w, u, x, NoInfos, free)
    BY NoInfosOK, LobbyAssumption DEF UpToDate, Speaks
<1> QED
    BY <1>1 DEF Follows, Ends

(* What is said stays what it was.                                           *)
LEMMA FollowsSame ==
    ASSUME NEW f, NEW w, NEW u, NEW f2, NEW w2, NEW u2, NEW x \in Peers, NEW o, NEW I,
           NEW free, Follows(f, w, u, x, o, I, free),
           \A n, h : Trail(w, x, o, n, h) => Trail(w2, x, o, n, h),
           \A s, K : Speaks(f2, w2, s, K) <=> Speaks(f, w, s, K),
           \A s, K : Speaks(f, w, s, K) /\ Met(u, x, s) => Met(u2, x, s)
    PROVE  Follows(f2, w2, u2, x, o, I, free)
<1>1. \A J : UpToDate(f, w, u, x, J, free) => UpToDate(f2, w2, u2, x, J, free)
    BY DEF UpToDate
<1>2. Out(f, w, x) => Out(f2, w2, x)
    BY DEF Out
<1> QED
    BY <1>1, <1>2 DEF Follows, Ends

(* Whoever is not on the roster has been told, and its attributes do not matter. *)
LEMMA FollowsOut ==
    ASSUME NEW f, NEW w, NEW u, NEW x \in Peers, NEW o, NEW I,
           NEW free, Follows(f, w, u, x, o, I, free), Out(f, w, x), NEW free2
    PROVE  Follows(f, w, u, x, o, I, free2)
<1>1. \A J : ~UpToDate(f, w, u, x, J, free)
    BY DEF UpToDate, Out
<1> QED
    BY <1>1 DEF Follows, Ends

(* It changes its own attributes on its own copy.                             *)
LEMMA FollowsOwn ==
    ASSUME NEW f, NEW w, NEW u, NEW x \in Peers, NEW o, NEW I, NEW I2,
           NEW free, Follows(f, w, u, x, o, I, free), Alike(x, I2, I, TRUE)
    PROVE  Follows(f, w, u, x, o, I2, TRUE)
<1>1. UpToDate(f, w, u, x, I, free) => UpToDate(f, w, u, x, I2, TRUE)
    BY DEF UpToDate, Alike
<1>2. \A J : UpToDate(f, w, u, x, J, free) => UpToDate(f, w, u, x, J, TRUE)
    BY DEF UpToDate, Alike
<1>3. I2.owner = I.owner
    BY DEF Alike
<1> QED
    BY <1>1, <1>2, <1>3 DEF Follows, Ends

(* The host has a word for whoever is on its roster.                          *)
LEMMA FollowsTold ==
    ASSUME NEW f, NEW w, NEW u, NEW f2, NEW w2, NEW u2, NEW x \in Peers, NEW a \in Peers \ {x},
           Single(f, w), Hosting(f, a), NEW o, NEW I, NEW free, NEW free2,
           Follows(f, w, u, x, o, I, free), NEW m, IsWord(m),
           x \in Members(f[a].infos) /\ Met(u, x, a) =>
               /\ Put(Line(w, a, x), Line(w2, a, x), m)
               /\ \A q \in Peers \ {x} : q # a => Line(w2, q, x) = Line(w, q, x)
               /\ m.type = "infos" => UpToDate(f2, w2, u2, x, m.body, free2)
               /\ m.type = "destroy" => Out(f2, w2, x),
           x \notin Members(f[a].infos) =>
               /\ \A q \in Peers \ {x} : Line(w2, q, x) = Line(w, q, x)
               /\ Out(f2, w2, x)
    PROVE  Follows(f2, w2, u2, x, o, I, free2)
<1>1. PICK n, h : Trail(w, x, o, n, h) /\ Ends(f, w, u, x, o, I, free, n, h)
    BY DEF Follows
<1>2. n \in Nat
    BY <1>1, TrailLength
<1>3. Speaks(f, w, a, f[a].infos)
    BY DEF Speaks
<1>4. \A J : UpToDate(f, w, u, x, J, free) =>
               J.owner = a /\ x \in Members(f[a].infos) /\ Met(u, x, a)
    BY <1>3, OneSpeaks DEF UpToDate
<1>5. Out(f, w, x) => x \notin Members(f[a].infos)
    BY <1>3 DEF Out
<1>6. ASSUME NEW J, UpToDate(f, w, u, x, J, free),
             (n = 0 /\ I.owner = o /\ J = I) \/ (n > 0 /\ h[n].type = "infos" /\ J = h[n].body)
      PROVE  Follows(f2, w2, u2, x, o, I, free2)
    <2>1. J.owner = a /\ x \in Members(f[a].infos) /\ Met(u, x, a)
        BY <1>4, <1>6
    <2>2. n = 0 => o = a
        BY <1>6, <2>1
    <2>3. n > 0 => h[n].type = "infos" /\ h[n].body.owner = a
        BY <1>2, <1>6, <2>1
    <2>4. PICK h2 : Trail(w2, x, o, n + 1, h2) /\ h2[n + 1] = m
        BY <1>1, <2>1, <2>2, <2>3, TrailPut
    <2>5. n + 1 > 0
        BY <1>2
    <2>6. Ends(f2, w2, u2, x, o, I, free2, n + 1, h2)
        BY <2>1, <2>4, <2>5 DEF Ends, IsWord
    <2> QED
        BY <2>4, <2>6 DEF Follows
<1>7. ASSUME n > 0, h[n].type = "destroy", Out(f, w, x)
      PROVE  Follows(f2, w2, u2, x, o, I, free2)
    <2>1. Out(f2, w2, x) /\ \A q \in Peers \ {x} : Line(w2, q, x) = Line(w, q, x)
        BY <1>5, <1>7
    <2>2. Trail(w2, x, o, n, h)
        BY <1>1, <2>1, TrailSame
    <2>3. Ends(f2, w2, u2, x, o, I, free2, n, h)
        BY <1>7, <2>1 DEF Ends
    <2> QED
        BY <2>2, <2>3 DEF Follows
<1> QED
    BY <1>1, <1>6, <1>7 DEF Ends

(* It reads the next word.                                                  *)
LEMMA FollowsHeed ==
    ASSUME NEW f, NEW w, NEW u, NEW f2, NEW w2, NEW x \in Peers, NEW o \in Peers \ {x}, NEW I,
           NEW free, Follows(f, w, u, x, o, I, free),
           NEW m, Took(Line(w, o, x), Line(w2, o, x), m), IsWord(m),
           \A q \in Peers \ {x} : q # o => Line(w2, q, x) = Line(w, q, x),
           \A s, K : Speaks(f2, w2, s, K) <=> Speaks(f, w, s, K)
    PROVE  /\ m.type = "infos" => Follows(f2, w2, u, x, m.body.owner, m.body, free)
           /\ m.type = "destroy" => Out(f2, w2, x)
<1>1. PICK n, h : Trail(w, x, o, n, h) /\ Ends(f, w, u, x, o, I, free, n, h)
    BY DEF Follows
<1>2. Trail(w, x, o, n, h)
    BY <1>1
<1>3. n \in Nat
    BY <1>2, TrailLength
<1>4. n > 0 /\ h[1] = m /\ (n > 1 => m.type = "infos")
    BY <1>2, TrailTook
<1>5. LeftOf(w2, x, m.body.owner, n, h)
    BY <1>2, TrailTook
<1>6. \A J : UpToDate(f, w, u, x, J, free) => UpToDate(f2, w2, u, x, J, free)
    BY DEF UpToDate
<1>7. Out(f, w, x) => Out(f2, w2, x)
    BY DEF Out
<1>8. m.type = "infos" \/ m.type = "destroy"
    BY DEF IsWord
<1>9. ASSUME m.type = "destroy"
      PROVE  Out(f2, w2, x)
    <2>1. n = 1
        BY <1>3, <1>4, <1>9
    <2> QED
        BY <1>1, <1>3, <1>4, <1>7, <1>9, <2>1 DEF Ends
<1>10. ASSUME m.type = "infos"
      PROVE  Follows(f2, w2, u, x, m.body.owner, m.body, free)
    <2>1. PICK h3 : Trail(w2, x, m.body.owner, n - 1, h3) /\ (n > 1 => h3[n - 1] = h[n])
        BY <1>5 DEF LeftOf
    <2>2. CASE n = 1
        <3>1. UpToDate(f2, w2, u, x, m.body, free)
            BY <1>1, <1>3, <1>4, <1>6, <1>10, <2>2 DEF Ends
        <3>2. n - 1 = 0
            BY <2>2
        <3> QED
            BY <2>1, <3>1, <3>2 DEF Follows, Ends
    <2>3. CASE n > 1
        <3>1. n - 1 > 0 /\ n # 0
            BY <1>3, <2>3
        <3>2. \/ h[n].type = "infos" /\ UpToDate(f2, w2, u, x, h[n].body, free)
              \/ h[n].type = "destroy" /\ Out(f2, w2, x)
            BY <1>1, <1>6, <1>7, <3>1 DEF Ends
        <3>3. Ends(f2, w2, u, x, m.body.owner, m.body, free, n - 1, h3)
            BY <2>1, <2>3, <3>1, <3>2 DEF Ends
        <3> QED
            BY <2>1, <3>3 DEF Follows
    <2> QED
        BY <1>3, <1>4, <2>2, <2>3
<1> QED
    BY <1>9, <1>10

(* Nothing is on its way to it.                                              *)
LEMMA FollowsFresh ==
    ASSUME NEW f, NEW w, NEW u, NEW x \in Peers, NEW I, NEW free, ~Told(w, x),
           UpToDate(f, w, u, x, I, free)
    PROVE  Follows(f, w, u, x, I.owner, I, free)
<1>1. Trail(w, x, I.owner, 0, w)
    BY TrailNone
<1> QED
    BY <1>1 DEF Follows, Ends

(* The first word to one that has been admitted.                              *)
LEMMA FollowsFirst ==
    ASSUME NEW f, NEW w, NEW u, NEW w2, NEW x \in Peers, NEW a \in Peers \ {x}, NEW free,
           ~Told(w, x), NEW m, m.type = "infos", Put(Line(w, a, x), Line(w2, a, x), m),
           \A q \in Peers \ {x} : q # a => Line(w2, q, x) = Line(w, q, x),
           UpToDate(f, w2, u, x, m.body, free), NEW I
    PROVE  Follows(f, w2, u, x, a, I, free)
<1> DEFINE n == 0
<1>1. Trail(w, x, a, n, w)
    BY TrailNone
<1>2. IsWord(m)
    BY DEF IsWord
<1>3. ~(n > 0)
    OBVIOUS
<1>4. n + 1 = 1 /\ 1 > 0
    OBVIOUS
<1> HIDE DEF n
<1>5. PICK h2 : Trail(w2, x, a, n + 1, h2) /\ h2[n + 1] = m
    BY <1>1, <1>2, <1>3, TrailPut
<1>6. Ends(f, w2, u, x, a, I, free, n + 1, h2)
    BY <1>4, <1>5 DEF Ends
<1> QED
    BY <1>5, <1>6 DEF Follows

-----------------------------------------------------------------------------
(* Who speaks when something is sent or read.                                *)

LEMMA PutNamed ==
    ASSUME NEW l, NEW k, NEW m, Put(l, k, m)
    PROVE  \A s, K : Named(k, s, K) <=> Named(l, s, K) \/ (IsNaming(m, s) /\ m.body = K)
<1>1. /\ Len(l) \in Nat /\ Len(k) = Len(l) + 1 /\ k[Len(l) + 1] = m
      /\ \A i \in 1 .. Len(l) : k[i] = l[i]
    BY LenProperties DEF Put
<1>2. \A i \in 1 .. Len(l) : i \in 1 .. Len(k)
    BY <1>1
<1>3. Len(l) + 1 \in 1 .. Len(k)
    BY <1>1
<1>4. \A i \in 1 .. Len(k) : i \in 1 .. Len(l) \/ i = Len(l) + 1
    BY <1>1
<1> QED
    BY <1>1, <1>2, <1>3, <1>4 DEF Named

LEMMA TookIndex ==
    ASSUME NEW l, NEW k, NEW m, Took(l, k, m)
    PROVE  /\ Len(k) \in Nat /\ Len(l) = Len(k) + 1 /\ 1 \in 1 .. Len(l) /\ l[1] = m
           /\ \A i \in 1 .. Len(k) : i + 1 \in 1 .. Len(l) /\ k[i] = l[i + 1] /\ i + 1 # 1
           /\ \A i \in 1 .. Len(l) : i = 1 \/ \E j \in 1 .. Len(k) : j + 1 = i /\ k[j] = l[i]
<1>1. /\ Len(k) \in Nat /\ Len(l) = Len(k) + 1 /\ l[1] = m
      /\ \A i \in 1 .. Len(k) : k[i] = l[i + 1]
    BY LenProperties DEF Took
<1>2. ASSUME NEW i \in 1 .. Len(l)
      PROVE  i = 1 \/ \E j \in 1 .. Len(k) : j + 1 = i /\ k[j] = l[i]
    <2>1. CASE i # 1
        <3>1. i - 1 \in 1 .. Len(k) /\ (i - 1) + 1 = i
            BY <1>1, <2>1
        <3> QED
            BY <1>1, <3>1
    <2> QED
        BY <2>1
<1> QED
    BY <1>1, <1>2

LEMMA TookNamed ==
    ASSUME NEW l, NEW k, NEW m, Took(l, k, m)
    PROVE  \A s, K : Named(l, s, K) <=> Named(k, s, K) \/ (IsNaming(m, s) /\ m.body = K)
<1>1. /\ 1 \in 1 .. Len(l) /\ l[1] = m
      /\ \A i \in 1 .. Len(k) : i + 1 \in 1 .. Len(l) /\ k[i] = l[i + 1]
      /\ \A i \in 1 .. Len(l) : i = 1 \/ \E j \in 1 .. Len(k) : k[j] = l[i]
    BY TookIndex
<1>2. ASSUME NEW s, NEW K, Named(l, s, K)
      PROVE  Named(k, s, K) \/ (IsNaming(m, s) /\ m.body = K)
    <2>1. PICK i \in 1 .. Len(l) : IsNaming(l[i], s) /\ l[i].body = K
        BY <1>2 DEF Named
    <2> QED
        BY <1>1, <2>1 DEF Named
<1>3. ASSUME NEW s, NEW K, Named(k, s, K)
      PROVE  Named(l, s, K)
    <2>1. PICK i \in 1 .. Len(k) : IsNaming(k[i], s) /\ k[i].body = K
        BY <1>3 DEF Named
    <2> QED
        BY <1>1, <2>1 DEF Named
<1>4. ASSUME NEW s, NEW K, IsNaming(m, s), m.body = K
      PROVE  Named(l, s, K)
    BY <1>1, <1>4 DEF Named
<1> QED
    BY <1>2, <1>3, <1>4

LEMMA ReadNamed ==
    ASSUME NEW w, NEW w2, NEW q \in Peers, NEW p \in Peers \ {q}, NEW m, Read(w, w2, q, p, m)
    PROVE  /\ \A r, s, K : r \in Peers /\ s \in Peers /\ r # s =>
                (Named(Line(w, r, s), s, K) <=>
                    \/ Named(Line(w2, r, s), s, K)
                    \/ r = q /\ s = p /\ IsNaming(m, p) /\ m.body = K)
           /\ IsNaming(m, p) => Names(w, q, p, 1)
           /\ \A r, s, i : Names(w2, r, s, i) =>
                IF r = q /\ s = p THEN i + 1 # 1 /\ Names(w, r, s, i + 1) ELSE Names(w, r, s, i)
<1>1. /\ Took(Line(w, q, p), Line(w2, q, p), m)
      /\ \A x \in Peers : \A y \in Peers \ {x} :
           ~(x = q /\ y = p) => Line(w2, x, y) = Line(w, x, y)
    BY DEF Read
<1>2. \A s, K : Named(Line(w, q, p), s, K) <=>
                    Named(Line(w2, q, p), s, K) \/ (IsNaming(m, s) /\ m.body = K)
    BY <1>1, TookNamed
<1>3. /\ 1 \in 1 .. Len(Line(w, q, p)) /\ Line(w, q, p)[1] = m
      /\ \A i \in 1 .. Len(Line(w2, q, p)) :
            /\ i + 1 \in 1 .. Len(Line(w, q, p)) /\ Line(w2, q, p)[i] = Line(w, q, p)[i + 1]
            /\ i + 1 # 1
    BY <1>1, TookIndex
<1>4. IsNaming(m, p) => Names(w, q, p, 1)
    BY <1>3 DEF Names
<1>5. ASSUME NEW r, NEW s, NEW i, Names(w2, r, s, i)
      PROVE  IF r = q /\ s = p THEN i + 1 # 1 /\ Names(w, r, s, i + 1) ELSE Names(w, r, s, i)
    BY <1>1, <1>3, <1>5 DEF Names
<1> QED
    BY <1>1, <1>2, <1>4, <1>5

LEMMA SentNamed ==
    ASSUME NEW w, NEW w2, NEW u, NEW p, NEW to, NEW m, Sent(w, w2, u, p, to, m)
    PROVE  /\ \A r, s, K : r \in Peers /\ s \in Peers /\ r # s =>
                (Named(Line(w2, r, s), s, K) <=>
                    \/ Named(Line(w, r, s), s, K)
                    \/ r = p /\ s \in to /\ Met(u, p, s) /\ IsNaming(m, s) /\ m.body = K)
           /\ \A r, s, i : Names(w2, r, s, i) =>
                \/ Names(w, r, s, i)
                \/ /\ r = p /\ s \in to /\ Met(u, p, s) /\ IsNaming(m, s)
                   /\ i = Len(Line(w, p, s)) + 1
<1>1. \A r \in Peers : \A s \in Peers \ {r} :
         /\ r = p /\ s \in to /\ Met(u, p, s) => Put(Line(w, r, s), Line(w2, r, s), m)
         /\ ~(r = p /\ s \in to /\ Met(u, p, s)) => Line(w2, r, s) = Line(w, r, s)
    BY DEF Sent
<1>2. ASSUME NEW r, NEW s, NEW i, Names(w2, r, s, i)
      PROVE  \/ Names(w, r, s, i)
             \/ /\ r = p /\ s \in to /\ Met(u, p, s) /\ IsNaming(m, s)
                /\ i = Len(Line(w, p, s)) + 1
    <2>1. r \in Peers /\ s \in Peers \ {r}
        BY <1>2 DEF Names
    <2>2. CASE r = p /\ s \in to /\ Met(u, p, s)
        <3>1. /\ Len(Line(w, r, s)) \in Nat /\ Len(Line(w2, r, s)) = Len(Line(w, r, s)) + 1
              /\ Line(w2, r, s)[Len(Line(w, r, s)) + 1] = m
              /\ \A j \in 1 .. Len(Line(w, r, s)) : Line(w2, r, s)[j] = Line(w, r, s)[j]
            BY <1>1, <2>1, <2>2, LenProperties DEF Put
        <3> QED
            BY <1>2, <2>1, <2>2, <3>1 DEF Names
    <2>3. CASE ~(r = p /\ s \in to /\ Met(u, p, s))
        BY <1>1, <1>2, <2>1, <2>3 DEF Names
    <2> QED
        BY <2>2, <2>3
<1>3. ASSUME NEW r \in Peers, NEW s \in Peers \ {r}, NEW K
      PROVE  Named(Line(w2, r, s), s, K) <=>
                    \/ Named(Line(w, r, s), s, K)
                    \/ r = p /\ s \in to /\ Met(u, p, s) /\ IsNaming(m, s) /\ m.body = K
    <2>1. CASE r = p /\ s \in to /\ Met(u, p, s)
        <3>1. Put(Line(w, r, s), Line(w2, r, s), m)
            BY <1>1, <2>1
        <3> QED
            BY <2>1, <3>1, PutNamed
    <2>2. CASE ~(r = p /\ s \in to /\ Met(u, p, s))
        BY <1>1, <2>2
    <2> QED
        BY <2>1, <2>2
<1> QED
    BY <1>2, <1>3

(* The same hosts, with the same to say.                                     *)
SameHosts(f, f2) ==
    \A p \in Peers : /\ Hosting(f2, p) <=> Hosting(f, p)
                     /\ Hosting(f, p) => f2[p].infos = f[p].infos

LEMMA SpeaksRead ==
    ASSUME NEW f, NEW f2, SameHosts(f, f2), NEW w, NEW w2, NEW q \in Peers, NEW p \in Peers \ {q},
           NEW m, Read(w, w2, q, p, m), ~IsNaming(m, p)
    PROVE  \A s, K : Speaks(f2, w2, s, K) <=> Speaks(f, w, s, K)
<1>1. \A r, s, K : r \in Peers /\ s \in Peers /\ r # s =>
            (Named(Line(w, r, s), s, K) <=> Named(Line(w2, r, s), s, K))
    BY ReadNamed
<1> QED
    BY <1>1 DEF Speaks, SameHosts

LEMMA SpeaksSent ==
    ASSUME NEW f, NEW f2, SameHosts(f, f2), NEW w, NEW w2, NEW u, NEW p, NEW to, NEW m,
           Sent(w, w2, u, p, to, m), \A r \in to : ~IsNaming(m, r)
    PROVE  \A s, K : Speaks(f2, w2, s, K) <=> Speaks(f, w, s, K)
<1>1. \A r, s, K : r \in Peers /\ s \in Peers /\ r # s =>
            (Named(Line(w, r, s), s, K) <=> Named(Line(w2, r, s), s, K))
    BY SentNamed
<1> QED
    BY <1>1 DEF Speaks, SameHosts

LEMMA SingleRead ==
    ASSUME NEW f, NEW f2, NEW w, NEW w2, NEW q \in Peers, NEW p \in Peers \ {q}, NEW m,
           Single(f, w), \A x \in Peers : Hosting(f2, x) => Hosting(f, x), Read(w, w2, q, p, m)
    PROVE  Single(f2, w2)
<1>1. \A r, s, i : Names(w2, r, s, i) =>
         IF r = q /\ s = p THEN i + 1 # 1 /\ Names(w, r, s, i + 1) ELSE Names(w, r, s, i)
    BY ReadNamed
<1>2. \A r, s, i : Names(w2, r, s, i) => i \in Nat
    BY DEF Names
<1> QED
    BY <1>1, <1>2 DEF Single

LEMMA SingleSent ==
    ASSUME NEW f, NEW f2, NEW w, NEW w2, NEW u, NEW p, NEW to, NEW m, Sent(w, w2, u, p, to, m),
           Single(f, w), \A x \in Peers : Hosting(f2, x) => Hosting(f, x),
           \A r \in to : ~IsNaming(m, r)
    PROVE  Single(f2, w2)
<1>1. \A r, s, i : Names(w2, r, s, i) => Names(w, r, s, i)
    BY SentNamed
<1> QED
    BY <1>1 DEF Single

(* Who is told that it is the owner hosts, and says what it was told.          *)
LEMMA SpeaksTurns ==
    ASSUME NEW f, NEW f2, NEW w, NEW w2, NEW q \in Peers, NEW p \in Peers \ {q}, NEW m,
           Single(f, w), Read(w, w2, q, p, m), IsNaming(m, p),
           Hosting(f2, p), f2[p].infos = m.body,
           \A x \in Peers \ {p} : f2[x] = f[x]
    PROVE  /\ Single(f2, w2)
           /\ \A s, K : Speaks(f2, w2, s, K) <=> Speaks(f, w, s, K)
<1>1. Names(w, q, p, 1)
    BY ReadNamed
<1>2. \A x \in Peers : ~Hosting(f, x)
    BY <1>1 DEF Single
<1>3. \A x \in Peers : Hosting(f2, x) <=> x = p
    BY <1>2 DEF Hosting
<1>4. \A r, s, i : Names(w2, r, s, i) =>
         IF r = q /\ s = p THEN i + 1 # 1 /\ Names(w, r, s, i + 1) ELSE Names(w, r, s, i)
    BY ReadNamed
<1>5. ASSUME NEW r, NEW s, NEW i, Names(w2, r, s, i)
      PROVE  FALSE
    <2>1. CASE r = q /\ s = p
        <3>1. i + 1 # 1 /\ Names(w, q, p, i + 1)
            BY <1>4, <1>5, <2>1
        <3> QED
            BY <1>1, <3>1 DEF Single
    <2>2. CASE ~(r = q /\ s = p)
        <3>1. Names(w, r, s, i)
            BY <1>4, <1>5, <2>2
        <3> QED
            BY <1>1, <2>2, <3>1 DEF Single
    <2> QED
        BY <2>1, <2>2
<1>6. Single(f2, w2)
    BY <1>3, <1>5 DEF Single
<1>7. \A r, s, K : r \in Peers /\ s \in Peers /\ r # s =>
         (Named(Line(w, r, s), s, K) <=>
             \/ Named(Line(w2, r, s), s, K)
             \/ r = q /\ s = p /\ IsNaming(m, p) /\ m.body = K)
    BY ReadNamed
<1>8. \A r, s, K : r \in Peers /\ s \in Peers /\ r # s => ~Named(Line(w2, r, s), s, K)
    BY <1>5 DEF Named, Names
<1>9. \A s, K : Speaks(f2, w2, s, K) <=> s = p /\ K = m.body
    <2>1. \A s, K : Speaks(f2, w2, s, K) <=> s \in Peers /\ Hosting(f2, s) /\ f2[s].infos = K
        BY <1>8 DEF Speaks
    <2>2. f2[p].infos = m.body
        OBVIOUS
    <2>3. \A s : s \in Peers /\ Hosting(f2, s) <=> s = p
        BY <1>3
    <2> QED
        BY <2>1, <2>2, <2>3
<1>10. \A s, K : Speaks(f, w, s, K) <=> s = p /\ K = m.body
    <2>1. \A r, s, K : r \in Peers /\ s \in Peers /\ r # s =>
             (Named(Line(w, r, s), s, K) <=> r = q /\ s = p /\ m.body = K)
        BY <1>7, <1>8
    <2>2. \A s, K : Speaks(f, w, s, K) <=>
             s \in Peers /\ \E r \in Peers \ {s} : Named(Line(w, r, s), s, K)
        BY <1>2 DEF Speaks
    <2> QED
        BY <2>1, <2>2
<1> QED
    BY <1>6, <1>9, <1>10

(* The host names another and hosts no more.                                  *)
LEMMA SpeaksNaming ==
    ASSUME NEW f, NEW f2, NEW w, NEW w2, NEW u, NEW a \in Peers, NEW to, NEW m, NEW o \in to,
           Sent(w, w2, u, a, to, m), m.type = "infos", m.body.owner = o, o \in Peers \ {a},
           Met(u, a, o), Single(f, w), Hosting(f, a), ~Hosting(f2, a),
           \A x \in Peers \ {a} : f2[x] = f[x]
    PROVE  /\ Single(f2, w2)
           /\ \A s, K : Speaks(f2, w2, s, K) <=> s = o /\ K = m.body
<1>1. \A x \in Peers : ~Hosting(f2, x)
    BY DEF Single, Hosting
<1>2. \A r, s, i : ~Names(w, r, s, i)
    BY DEF Single
<1>3. \A r, s, i : Names(w2, r, s, i) => r = a /\ s = o /\ i = Len(Line(w, a, o)) + 1
    BY <1>2, SentNamed DEF IsNaming
<1>4. Single(f2, w2)
    BY <1>1, <1>3 DEF Single
<1>5. \A r, s, K : r \in Peers /\ s \in Peers /\ r # s => ~Named(Line(w, r, s), s, K)
    BY <1>2 DEF Named, Names
<1>6. \A r, s, K : r \in Peers /\ s \in Peers /\ r # s =>
         (Named(Line(w2, r, s), s, K) <=> r = a /\ s = o /\ m.body = K)
    BY <1>5, SentNamed DEF IsNaming
<1> QED
    BY <1>1, <1>4, <1>6 DEF Speaks

(* It closes it for everyone.                                                *)
LEMMA SpeaksNobody ==
    ASSUME NEW f, NEW f2, NEW w, NEW w2, NEW u, NEW a \in Peers, NEW to, NEW m,
           Sent(w, w2, u, a, to, m), m.type # "infos",
           Single(f, w), Hosting(f, a), ~Hosting(f2, a),
           \A x \in Peers \ {a} : f2[x] = f[x]
    PROVE  /\ Single(f2, w2)
           /\ \A s, K : ~Speaks(f2, w2, s, K)
<1>1. \A x \in Peers : ~Hosting(f2, x)
    BY DEF Single, Hosting
<1>2. \A r, s, i : ~Names(w, r, s, i)
    BY DEF Single
<1>3. \A r, s, i : ~Names(w2, r, s, i)
    BY <1>2, SentNamed DEF IsNaming
<1>4. \A r, s, K : r \in Peers /\ s \in Peers /\ r # s => ~Named(Line(w2, r, s), s, K)
    BY <1>3 DEF Named, Names
<1> QED
    BY <1>1, <1>3, <1>4 DEF Single, Speaks

(* The host says something else.                                             *)
LEMMA SpeaksAnew ==
    ASSUME NEW f, NEW f2, NEW w, NEW w2, NEW a \in Peers, NEW K2, Single(f, w), Single(f2, w2),
           Hosting(f2, a), f2[a].infos = K2
    PROVE  \A s, K : Speaks(f2, w2, s, K) <=> s = a /\ K = K2
<1>1. Speaks(f2, w2, a, K2)
    BY DEF Speaks
<1> QED
    BY <1>1, OneSpeaks

-----------------------------------------------------------------------------
(* What is on the lines of everyone, when something is sent or read.           *)

(* Somebody gets what p sends to them.                                        *)
Reaches(u, p, to) == \E q \in to \cap (Peers \ {p}) : Met(u, p, q)

LEMMA SentSends ==
    ASSUME NEW w, NEW w2, NEW u, NEW p \in Peers, NEW to, NEW m, Sent(w, w2, u, p, to, m)
    PROVE  \A x \in Peers : \A type : Sends(w2, x, type) <=>
             Sends(w, x, type) \/ (x = p /\ m.type = type /\ Reaches(u, p, to))
<1>1. \A q \in Peers : \A r \in Peers \ {q} : \A type : Some(Line(w2, q, r), type) <=>
         Some(Line(w, q, r), type) \/ (q = p /\ r \in to /\ Met(u, q, r) /\ m.type = type)
    BY SentMsg
<1> QED
    BY <1>1 DEF Sends, Reaches

LEMMA SentTold ==
    ASSUME NEW w, NEW w2, NEW u, NEW p \in Peers, NEW to, NEW m, Sent(w, w2, u, p, to, m)
    PROVE  \A x \in Peers :
             Told(w2, x) <=> Told(w, x) \/ (IsWord(m) /\ x \in to \ {p} /\ Met(u, p, x))
<1>1. \A q \in Peers : \A r \in Peers \ {q} : \A type : Some(Line(w2, q, r), type) <=>
         Some(Line(w, q, r), type) \/ (q = p /\ r \in to /\ Met(u, q, r) /\ m.type = type)
    BY SentMsg
<1> QED
    BY <1>1 DEF Told, IsWord

LEMMA SentAdmitted ==
    ASSUME NEW w, NEW w2, NEW u, NEW p \in Peers, NEW to, NEW m, Sent(w, w2, u, p, to, m)
    PROVE  \A x \in Peers : Admitted(w2, x) <=>
             Admitted(w, x) \/ (IsAdmission(m) /\ x \in to \ {p} /\ Met(u, p, x))
<1>1. \A q \in Peers : \A r \in Peers \ {q} : Admits(Line(w2, q, r)) <=>
         Admits(Line(w, q, r)) \/ (q = p /\ r \in to /\ Met(u, q, r) /\ IsAdmission(m))
    BY SentMsg
<1> QED
    BY <1>1 DEF Admitted

LEMMA ReadSends ==
    ASSUME NEW w, NEW w2, NEW q \in Peers, NEW p \in Peers \ {q}, NEW m, Read(w, w2, q, p, m)
    PROVE  \A x \in Peers : \A type :
             Sends(w, x, type) <=> Sends(w2, x, type) \/ (x = q /\ m.type = type)
<1>1. \A x \in Peers : \A y \in Peers \ {x} : \A type : Some(Line(w, x, y), type) <=>
         Some(Line(w2, x, y), type) \/ (x = q /\ y = p /\ m.type = type)
    BY ReadMsg
<1> QED
    BY <1>1 DEF Sends

LEMMA ReadTold ==
    ASSUME NEW w, NEW w2, NEW q \in Peers, NEW p \in Peers \ {q}, NEW m, Read(w, w2, q, p, m)
    PROVE  \A x \in Peers : Told(w, x) <=> Told(w2, x) \/ (IsWord(m) /\ x = p)
<1>1. \A x \in Peers : \A y \in Peers \ {x} : \A type : Some(Line(w, x, y), type) <=>
         Some(Line(w2, x, y), type) \/ (x = q /\ y = p /\ m.type = type)
    BY ReadMsg
<1> QED
    BY <1>1 DEF Told, IsWord

LEMMA ReadAdmitted ==
    ASSUME NEW w, NEW w2, NEW q \in Peers, NEW p \in Peers \ {q}, NEW m, Read(w, w2, q, p, m)
    PROVE  \A x \in Peers : Admitted(w, x) <=> Admitted(w2, x) \/ (IsAdmission(m) /\ x = p)
<1>1. \A x \in Peers : \A y \in Peers \ {x} : Admits(Line(w, x, y)) <=>
         Admits(Line(w2, x, y)) \/ (x = q /\ y = p /\ IsAdmission(m))
    BY ReadMsg
<1> QED
    BY <1>1 DEF Admitted

(* Courses, when something else than a word of the lobby is sent or read.      *)
LEMMA TrailSent ==
    ASSUME NEW w, NEW w2, NEW u, NEW p \in Peers, NEW to, NEW m, Sent(w, w2, u, p, to, m),
           NEW x \in Peers, ~IsWord(m) \/ x \notin to \/ x = p \/ ~Met(u, p, x)
    PROVE  \A o, n, h : Trail(w, x, o, n, h) => Trail(w2, x, o, n, h)
<1>1. \A q \in Peers : \A r \in Peers \ {q} :
         /\ q = p /\ r \in to /\ Met(u, q, r) => Put(Line(w, q, r), Line(w2, q, r), m)
         /\ ~(q = p /\ r \in to /\ Met(u, q, r)) => Line(w2, q, r) = Line(w, q, r)
    BY DEF Sent
<1>2. CASE x \in to /\ x # p /\ Met(u, p, x)
    <2>1. /\ p \in Peers \ {x} /\ Put(Line(w, p, x), Line(w2, p, x), m)
          /\ \A q \in Peers \ {x} : q # p => Line(w2, q, x) = Line(w, q, x)
        BY <1>1, <1>2
    <2>2. ~IsWord(m)
        BY <1>2
    <2>3. ASSUME NEW o, NEW n, NEW h, Trail(w, x, o, n, h)
          PROVE  Trail(w2, x, o, n, h)
        BY <2>1, <2>2, <2>3, TrailPutOther
    <2> QED
        BY <2>3
<1>3. CASE ~(x \in to /\ x # p /\ Met(u, p, x))
    <2>1. ASSUME NEW q \in Peers \ {x}
          PROVE  Line(w2, q, x) = Line(w, q, x)
        <3>1. x \in Peers \ {q} /\ ~(q = p /\ x \in to /\ Met(u, q, x))
            BY <1>3
        <3> QED
            BY <1>1, <3>1
    <2> QED
        BY <2>1, TrailSame
<1> QED
    BY <1>2, <1>3

LEMMA TrailRead ==
    ASSUME NEW w, NEW w2, NEW q \in Peers, NEW p \in Peers \ {q}, NEW m, Read(w, w2, q, p, m),
           NEW x \in Peers, ~IsWord(m) \/ x # p
    PROVE  \A o, n, h : Trail(w, x, o, n, h) => Trail(w2, x, o, n, h)
<1>1. /\ Took(Line(w, q, p), Line(w2, q, p), m)
      /\ \A r \in Peers : \A y \in Peers \ {r} :
           ~(r = q /\ y = p) => Line(w2, r, y) = Line(w, r, y)
    BY DEF Read
<1>2. CASE x = p
    <2>1. /\ q \in Peers \ {x} /\ Took(Line(w, q, x), Line(w2, q, x), m)
          /\ \A r \in Peers \ {x} : r # q => Line(w2, r, x) = Line(w, r, x)
        BY <1>1, <1>2
    <2>2. ~IsWord(m)
        BY <1>2
    <2> QED
        BY <2>1, <2>2, TrailTookOther
<1>3. CASE x # p
    <2>1. \A r \in Peers \ {x} : Line(w2, r, x) = Line(w, r, x)
        BY <1>1, <1>3
    <2> QED
        BY <2>1, TrailSame
<1> QED
    BY <1>2, <1>3

-----------------------------------------------------------------------------
(* Who has a course to follow: a member, and whoever has been let in once.      *)

OneAdmits(l) ==
    /\ Admits(l)
    /\ \A i, j \in 1 .. Len(l) : IsAdmission(l[i]) /\ IsAdmission(l[j]) => i = j

OnlyAdmission(w, x, o) ==
    /\ o \in Peers \ {x} /\ OneAdmits(Line(w, o, x))
    /\ \A q \in Peers \ {x} : q # o => ~Admits(Line(w, q, x))

Subject(f, w, x, o, I) ==
    \/ f[x].state = "joined" /\ ~Admitted(w, x) /\ o = f[x].infos.owner /\ I = f[x].infos
    \/ f[x].state = "joining" /\ OnlyAdmission(w, x, o) /\ I = NoInfos

LEMMA PutAdmits ==
    ASSUME NEW l, NEW k, NEW m, Put(l, k, m), OneAdmits(k)
    PROVE  IF IsAdmission(m) THEN ~Admits(l) ELSE OneAdmits(l)
<1>1. /\ Len(l) \in Nat /\ Len(k) = Len(l) + 1 /\ k[Len(l) + 1] = m
      /\ \A i \in 1 .. Len(l) : k[i] = l[i]
    BY LenProperties DEF Put
<1>2. \A i \in 1 .. Len(l) : i \in 1 .. Len(k) /\ i # Len(l) + 1
    BY <1>1
<1>3. Len(l) + 1 \in 1 .. Len(k)
    BY <1>1
<1>4. IsAdmission(m) => ~Admits(l)
    BY <1>1, <1>2, <1>3 DEF OneAdmits, Admits
<1>5. ~IsAdmission(m) => Admits(l)
    BY PutSome DEF OneAdmits
<1>6. \A i, j \in 1 .. Len(l) : IsAdmission(l[i]) /\ IsAdmission(l[j]) => i = j
    BY <1>1, <1>2 DEF OneAdmits
<1> QED
    BY <1>4, <1>5, <1>6 DEF OneAdmits

LEMMA TookAdmits ==
    ASSUME NEW l, NEW k, NEW m, Took(l, k, m),
           IF IsAdmission(m) THEN ~Admits(k) ELSE OneAdmits(k)
    PROVE  OneAdmits(l)
<1>1. Admits(l)
    BY TookSome DEF OneAdmits
<1>2. ASSUME NEW i \in 1 .. Len(l), NEW j \in 1 .. Len(l), IsAdmission(l[i]), IsAdmission(l[j])
      PROVE  i = j
    <2>1. /\ l[1] = m
          /\ i = 1 \/ \E a \in 1 .. Len(k) : a + 1 = i /\ k[a] = l[i]
          /\ j = 1 \/ \E a \in 1 .. Len(k) : a + 1 = j /\ k[a] = l[j]
        BY TookIndex
    <2>2. CASE IsAdmission(m)
        BY <1>2, <2>1, <2>2 DEF Admits
    <2>3. CASE ~IsAdmission(m)
        BY <1>2, <2>1, <2>3 DEF OneAdmits
    <2> QED
        BY <2>2, <2>3
<1> QED
    BY <1>1, <1>2 DEF OneAdmits

LEMMA OnlySent ==
    ASSUME NEW w, NEW w2, NEW u, NEW p \in Peers, NEW to, NEW m, Sent(w, w2, u, p, to, m),
           NEW x \in Peers, NEW o, OnlyAdmission(w2, x, o)
    PROVE  /\ ~IsAdmission(m) \/ x \notin to \/ x = p \/ ~Met(u, p, x) => OnlyAdmission(w, x, o)
           /\ IsAdmission(m) /\ x \in to /\ x # p /\ Met(u, p, x) => o = p /\ ~Admitted(w, x)
<1>1. \A q \in Peers \ {x} :
         /\ q = p /\ x \in to /\ Met(u, q, x) => Put(Line(w, q, x), Line(w2, q, x), m)
         /\ ~(q = p /\ x \in to /\ Met(u, q, x)) => Line(w2, q, x) = Line(w, q, x)
    BY DEF Sent
<1>2. \A q \in Peers \ {x} : Put(Line(w, q, x), Line(w2, q, x), m) =>
         /\ Admits(Line(w2, q, x)) <=> Admits(Line(w, q, x)) \/ IsAdmission(m)
         /\ OneAdmits(Line(w2, q, x)) =>
                IF IsAdmission(m) THEN ~Admits(Line(w, q, x)) ELSE OneAdmits(Line(w, q, x))
    BY PutAdmits, PutSome
<1> QED
    BY <1>1, <1>2 DEF OnlyAdmission, Admitted

LEMMA OnlyRead ==
    ASSUME NEW w, NEW w2, NEW q \in Peers, NEW p \in Peers \ {q}, NEW m, Read(w, w2, q, p, m)
    PROVE  /\ \A x, o : x \in Peers /\ (~IsAdmission(m) \/ x # p) /\ OnlyAdmission(w2, x, o) =>
                OnlyAdmission(w, x, o)
           /\ IsAdmission(m) /\ ~Admitted(w2, p) => OnlyAdmission(w, p, q)
<1>1. /\ Took(Line(w, q, p), Line(w2, q, p), m)
      /\ \A r \in Peers : \A y \in Peers \ {r} :
           ~(r = q /\ y = p) => Line(w2, r, y) = Line(w, r, y)
    BY DEF Read
<1>2. /\ Admits(Line(w, q, p)) <=> Admits(Line(w2, q, p)) \/ IsAdmission(m)
      /\ (IF IsAdmission(m) THEN ~Admits(Line(w2, q, p)) ELSE OneAdmits(Line(w2, q, p))) =>
            OneAdmits(Line(w, q, p))
    BY <1>1, TookAdmits, TookSome
<1>3. ASSUME NEW x \in Peers, NEW o, ~IsAdmission(m) \/ x # p, OnlyAdmission(w2, x, o)
      PROVE  OnlyAdmission(w, x, o)
    BY <1>1, <1>2, <1>3 DEF OnlyAdmission
<1>4. ASSUME IsAdmission(m), ~Admitted(w2, p)
      PROVE  OnlyAdmission(w, p, q)
    BY <1>1, <1>2, <1>4 DEF OnlyAdmission, Admitted
<1> QED
    BY <1>3, <1>4

(* What x follows now: its own attributes may differ while it updates them.    *)
Current(f, w, u, x, o, I) ==
    IF Updating(w, x) THEN Follows(f, w, u, x, o, I, TRUE) ELSE Follows(f, w, u, x, o, I, FALSE)

LEMMA CurrentSame ==
    ASSUME NEW f, NEW w, NEW u, NEW f2, NEW w2, NEW u2, NEW x \in Peers, NEW o, NEW I,
           Current(f, w, u, x, o, I),
           \A n, h : Trail(w, x, o, n, h) => Trail(w2, x, o, n, h),
           \A s, K : Speaks(f2, w2, s, K) <=> Speaks(f, w, s, K),
           \A s, K : Speaks(f, w, s, K) /\ Met(u, x, s) => Met(u2, x, s),
           Updating(w, x) => Updating(w2, x) \/ Out(f, w, x)
    PROVE  Current(f2, w2, u2, x, o, I)
<1>1. \A free \in BOOLEAN : Follows(f, w, u, x, o, I, free) => Follows(f2, w2, u2, x, o, I, free)
    BY FollowsSame
<1>2. Follows(f, w, u, x, o, I, FALSE) => Follows(f, w, u, x, o, I, TRUE)
    BY Freed
<1>3. Updating(w, x) /\ Out(f, w, x) => Follows(f, w, u, x, o, I, FALSE)
    BY FollowsOut DEF Current
<1> QED
    BY <1>1, <1>2, <1>3 DEF Current

LEMMA CurrentIs ==
    ASSUME NEW f, NEW w, NEW u, NEW x, NEW o, NEW I
    PROVE  /\ Current(f, w, u, x, o, I) => Follows(f, w, u, x, o, I, TRUE)
           /\ Follows(f, w, u, x, o, I, FALSE) => Current(f, w, u, x, o, I)
           /\ Follows(f, w, u, x, o, I, TRUE) /\ Updating(w, x) => Current(f, w, u, x, o, I)
<1>1. Follows(f, w, u, x, o, I, FALSE) => Follows(f, w, u, x, o, I, TRUE)
    BY Freed
<1> QED
    BY <1>1 DEF Current

-----------------------------------------------------------------------------
(* Updates of a member on their way.                                         *)

LastUpdate(l, k) ==
    \E i \in 1 .. Len(l) :
        /\ l[i].type = "update" /\ k \in l[i].body
        /\ \A j \in 1 .. Len(l) : j > i => l[j].type # "update"

(* Whoever reads a request on l reads the update after it.                    *)
AskedBefore(l, k) ==
    \A r \in 1 .. Len(l) : l[r].type = "request" =>
        \E i \in 1 .. Len(l) :
            /\ i > r /\ l[i].type = "update" /\ k \in l[i].body
            /\ \A j \in 1 .. Len(l) : j > i => l[j].type # "update"

KeptBy(w, x, s, K, k) ==
    \/ ~Updating(w, x) /\ k \in K.roster[x]
    \/ \E q \in Peers \ {x} : q # s /\ Some(Line(w, x, q), "update")
    \/ s # x /\ LastUpdate(Line(w, x, s), k)

LEMMA PutUpdate ==
    ASSUME NEW l, NEW k, NEW m, Put(l, k, m), NEW n
    PROVE  /\ m.type # "update" /\ LastUpdate(l, n) => LastUpdate(k, n)
           /\ m.type = "update" /\ n \in m.body => LastUpdate(k, n)
           /\ m.type \notin {"update", "request"} /\ AskedBefore(l, n) => AskedBefore(k, n)
           /\ m.type = "update" /\ n \in m.body => AskedBefore(k, n)
<1>1. /\ Len(l) \in Nat /\ Len(k) = Len(l) + 1 /\ k[Len(l) + 1] = m
      /\ \A i \in 1 .. Len(l) : k[i] = l[i]
    BY LenProperties DEF Put
<1>2. \A i \in 1 .. Len(l) : i \in 1 .. Len(k)
    BY <1>1
<1>3. Len(l) + 1 \in 1 .. Len(k)
    BY <1>1
<1>4. \A i \in 1 .. Len(k) : i \in 1 .. Len(l) \/ i = Len(l) + 1
    BY <1>1
<1>5. \A i \in 1 .. Len(k) : ~(i > Len(l) + 1)
    BY <1>1
<1>6. ASSUME m.type # "update", LastUpdate(l, n)
      PROVE  LastUpdate(k, n)
    <2>1. PICK i \in 1 .. Len(l) : /\ l[i].type = "update" /\ n \in l[i].body
                                   /\ \A j \in 1 .. Len(l) : j > i => l[j].type # "update"
        BY <1>6 DEF LastUpdate
    <2>2. \A j \in 1 .. Len(k) : j > i => k[j].type # "update"
        BY <1>1, <1>4, <1>6, <2>1
    <2> QED
        BY <1>1, <1>2, <2>1, <2>2 DEF LastUpdate
<1>7. ASSUME m.type = "update", n \in m.body
      PROVE  LastUpdate(k, n)
    BY <1>1, <1>3, <1>5, <1>7 DEF LastUpdate
<1>8. ASSUME m.type \notin {"update", "request"}, AskedBefore(l, n)
      PROVE  AskedBefore(k, n)
    <2>1. SUFFICES ASSUME NEW r \in 1 .. Len(k), k[r].type = "request"
                   PROVE  \E i \in 1 .. Len(k) :
                            /\ i > r /\ k[i].type = "update" /\ n \in k[i].body
                            /\ \A j \in 1 .. Len(k) : j > i => k[j].type # "update"
        BY DEF AskedBefore
    <2>2. r \in 1 .. Len(l) /\ l[r].type = "request"
        BY <1>1, <1>4, <1>8, <2>1
    <2>3. PICK i \in 1 .. Len(l) : /\ i > r /\ l[i].type = "update" /\ n \in l[i].body
                                   /\ \A j \in 1 .. Len(l) : j > i => l[j].type # "update"
        BY <1>8, <2>2 DEF AskedBefore
    <2>4. \A j \in 1 .. Len(k) : j > i => k[j].type # "update"
        BY <1>1, <1>4, <1>8, <2>3
    <2> QED
        BY <1>1, <1>2, <2>3, <2>4
<1>9. ASSUME m.type = "update", n \in m.body
      PROVE  AskedBefore(k, n)
    <2>1. SUFFICES ASSUME NEW r \in 1 .. Len(k), k[r].type = "request"
                   PROVE  \E i \in 1 .. Len(k) :
                            /\ i > r /\ k[i].type = "update" /\ n \in k[i].body
                            /\ \A j \in 1 .. Len(k) : j > i => k[j].type # "update"
        BY DEF AskedBefore
    <2>2. r # Len(l) + 1
        BY <1>1, <1>9, <2>1
    <2>3. Len(l) + 1 > r
        BY <1>1, <2>2
    <2> QED
        BY <1>1, <1>3, <1>5, <1>9, <2>3
<1> QED
    BY <1>6, <1>7, <1>8, <1>9

LEMMA TookUpdate ==
    ASSUME NEW l, NEW k, NEW m, Took(l, k, m), NEW n
    PROVE  /\ m.type # "update" /\ LastUpdate(l, n) => LastUpdate(k, n)
           /\ LastUpdate(l, n) => LastUpdate(k, n) \/ (n \in m.body /\ ~Some(k, "update"))
           /\ AskedBefore(l, n) => AskedBefore(k, n)
           /\ m.type = "request" /\ AskedBefore(l, n) => LastUpdate(l, n)
<1>1. /\ Len(k) \in Nat /\ Len(l) = Len(k) + 1 /\ 1 \in 1 .. Len(l) /\ l[1] = m
      /\ \A i \in 1 .. Len(k) : i + 1 \in 1 .. Len(l) /\ k[i] = l[i + 1] /\ i + 1 # 1
      /\ \A i \in 1 .. Len(l) : i = 1 \/ \E j \in 1 .. Len(k) : j + 1 = i /\ k[j] = l[i]
    BY TookIndex
<1>2. ASSUME NEW i \in 1 .. Len(l), l[i].type = "update", n \in l[i].body,
             \A j \in 1 .. Len(l) : j > i => l[j].type # "update", i # 1
      PROVE  \E a \in 1 .. Len(k) : /\ a + 1 = i /\ k[a].type = "update" /\ n \in k[a].body
                                    /\ \A j \in 1 .. Len(k) : j > a => k[j].type # "update"
    <2>1. PICK a \in 1 .. Len(k) : a + 1 = i /\ k[a] = l[i]
        BY <1>1, <1>2
    <2>2. \A j \in 1 .. Len(k) : j > a => k[j].type # "update"
        BY <1>1, <1>2, <2>1
    <2> QED
        BY <1>2, <2>1, <2>2
<1>3. ASSUME LastUpdate(l, n)
      PROVE  LastUpdate(k, n) \/ (m.type = "update" /\ n \in m.body /\ ~Some(k, "update"))
    <2>1. PICK i \in 1 .. Len(l) : /\ l[i].type = "update" /\ n \in l[i].body
                                   /\ \A j \in 1 .. Len(l) : j > i => l[j].type # "update"
        BY <1>3 DEF LastUpdate
    <2>2. CASE i = 1
        <3>1. \A j \in 1 .. Len(k) : j + 1 > 1
            BY <1>1
        <3>2. ~Some(k, "update")
            BY <1>1, <2>1, <2>2, <3>1 DEF Some
        <3> QED
            BY <1>1, <2>1, <2>2, <3>2
    <2>3. CASE i # 1
        BY <1>2, <2>1, <2>3 DEF LastUpdate
    <2> QED
        BY <2>2, <2>3
<1>4. ASSUME AskedBefore(l, n)
      PROVE  AskedBefore(k, n)
    <2>1. SUFFICES ASSUME NEW r \in 1 .. Len(k), k[r].type = "request"
                   PROVE  \E i \in 1 .. Len(k) :
                            /\ i > r /\ k[i].type = "update" /\ n \in k[i].body
                            /\ \A j \in 1 .. Len(k) : j > i => k[j].type # "update"
        BY DEF AskedBefore
    <2>2. r + 1 \in 1 .. Len(l) /\ l[r + 1].type = "request"
        BY <1>1, <2>1
    <2>3. PICK i \in 1 .. Len(l) : /\ i > r + 1 /\ l[i].type = "update" /\ n \in l[i].body
                                   /\ \A j \in 1 .. Len(l) : j > i => l[j].type # "update"
        BY <1>4, <2>2 DEF AskedBefore
    <2>4. i # 1
        BY <2>3
    <2>5. PICK a \in 1 .. Len(k) : /\ a + 1 = i /\ k[a].type = "update" /\ n \in k[a].body
                                   /\ \A j \in 1 .. Len(k) : j > a => k[j].type # "update"
        BY <1>2, <2>3, <2>4
    <2>6. a > r
        BY <2>3, <2>5
    <2> QED
        BY <2>5, <2>6
<1>5. ASSUME m.type = "request", AskedBefore(l, n)
      PROVE  LastUpdate(l, n)
    BY <1>1, <1>5 DEF AskedBefore, LastUpdate
<1> QED
    BY <1>3, <1>4, <1>5

LEMMA NoUpdate ==
    ASSUME NEW l, NEW k, LastUpdate(l, k)
    PROVE  Some(l, "update")
    BY DEF LastUpdate, Some

LEMMA KeptSame ==
    ASSUME NEW w, NEW w2, NEW x \in Peers, NEW s \in Peers, NEW K, NEW K2, NEW k,
           K2.roster[x] = K.roster[x],
           \A q \in Peers \ {x} : Line(w2, x, q) = Line(w, x, q), KeptBy(w, x, s, K, k)
    PROVE  KeptBy(w2, x, s, K2, k)
    BY DEF KeptBy, Updating, Sends

(* It sends something else, or something else of it is read.                  *)
LEMMA KeptSent ==
    ASSUME NEW w, NEW w2, NEW u, NEW p \in Peers, NEW to, NEW m, Sent(w, w2, u, p, to, m),
           m.type # "update", NEW x \in Peers, NEW s \in Peers, NEW K, NEW k, KeptBy(w, x, s, K, k)
    PROVE  KeptBy(w2, x, s, K, k)
<1>1. \A q \in Peers : \A r \in Peers \ {q} :
         /\ Put(Line(w, q, r), Line(w2, q, r), m) \/ Line(w2, q, r) = Line(w, q, r)
         /\ Some(Line(w2, q, r), "update") <=> Some(Line(w, q, r), "update")
    BY SentMsg DEF Sent
<1>2. \A q \in Peers \ {x} : LastUpdate(Line(w, x, q), k) => LastUpdate(Line(w2, x, q), k)
    BY <1>1, PutUpdate
<1> QED
    BY <1>1, <1>2 DEF KeptBy, Updating, Sends

LEMMA KeptRead ==
    ASSUME NEW w, NEW w2, NEW q \in Peers, NEW p \in Peers \ {q}, NEW m, Read(w, w2, q, p, m),
           NEW x \in Peers, m.type # "update" \/ x # q,
           NEW s \in Peers, NEW K, NEW k, KeptBy(w, x, s, K, k)
    PROVE  KeptBy(w2, x, s, K, k)
<1>1. \A y \in Peers \ {x} :
         /\ \/ Took(Line(w, x, y), Line(w2, x, y), m) /\ x = q
            \/ Line(w2, x, y) = Line(w, x, y)
         /\ Some(Line(w2, x, y), "update") <=> Some(Line(w, x, y), "update")
    BY ReadMsg DEF Read
<1>2. \A y \in Peers \ {x} : LastUpdate(Line(w, x, y), k) => LastUpdate(Line(w2, x, y), k)
    BY <1>1, TookUpdate
<1> QED
    BY <1>1, <1>2 DEF KeptBy, Updating, Sends

LEMMA AskedSent ==
    ASSUME NEW w, NEW w2, NEW u, NEW p \in Peers, NEW to, NEW m, Sent(w, w2, u, p, to, m),
           m.type \notin {"update", "request"}, NEW x \in Peers, NEW y \in Peers \ {x}, NEW k,
           AskedBefore(Line(w, x, y), k)
    PROVE  AskedBefore(Line(w2, x, y), k)
<1>1. Put(Line(w, x, y), Line(w2, x, y), m) \/ Line(w2, x, y) = Line(w, x, y)
    BY DEF Sent
<1> QED
    BY <1>1, PutUpdate

LEMMA AskedRead ==
    ASSUME NEW w, NEW w2, NEW q \in Peers, NEW p \in Peers \ {q}, NEW m, Read(w, w2, q, p, m),
           NEW x \in Peers, NEW y \in Peers \ {x}, NEW k, AskedBefore(Line(w, x, y), k)
    PROVE  AskedBefore(Line(w2, x, y), k)
<1>1. Took(Line(w, x, y), Line(w2, x, y), m) \/ Line(w2, x, y) = Line(w, x, y)
    BY DEF Read
<1> QED
    BY <1>1, TookUpdate

-----------------------------------------------------------------------------
(* The invariant, of what everyone holds, what is under way, who has met whom  *)
(* and the last updates.                                                   *)

InIt(f, x) == f[x].state \in {"joined", "hosting"}

EntriesAre(f) == \A p \in Peers : EntryOK(p, f[p])

AllFollow(f, w, u) ==
    \A x \in Peers : \A o, I : Subject(f, w, x, o, I) => Current(f, w, u, x, o, I)

(* Who hosts is told nothing, nor is who is joining and was not let in.        *)
Untold(f, w) ==
    \A x \in Peers :
        f[x].state \in {"hosting", "joining"} /\ ~Admitted(w, x) => ~Told(w, x)

(* A join with a host that is known is between the two.                       *)
Requests(f, w) ==
    \A x \in Peers : f[x].state = "joining" /\ f[x].infos.owner # None =>
        \A q \in Peers \ {x} : q # f[x].infos.owner =>
            ~Some(Line(w, x, q), "request") /\ ~Some(Line(w, q, x), "response")

(* Who has a seat and is not in the lobby has left it, has been let in, or is   *)
(* gone, and the host is about to learn of it.                             *)
HeldSeat(f, w, s, m) ==
    InIt(f, m) \/ Leaving(w, m) \/ Admitted(w, m) \/ (m # s /\ Some(Line(w, m, s), "eof"))

Seats(f, w) ==
    \A s, K, m : Speaks(f, w, s, K) /\ m \in Peers /\ m \in Members(K) => HeldSeat(f, w, s, m)

Leavers(f, w) == \A x \in Peers : Leaving(w, x) => f[x].state = "none"

NotOwn(f) == \A x \in Peers : f[x].state \in {"joining", "joined"} => f[x].infos.owner # x

Addressed(w) ==
    \A q \in Peers : \A p \in Peers \ {q} : \A i \in 1 .. Len(Line(w, q, p)) :
        Line(w, q, p)[i].type = "infos" => p \in Members(Line(w, q, p)[i].body)

Seated(f, new) ==
    \A x \in Peers : f[x].state # "none" /\ new[x] # 0 => x \in Members(f[x].infos)

(* The last update of a member is on the roster or on its way.                *)
Heeded(f, w, x) ==
    \/ InIt(f, x) /\ ~Admitted(w, x)
    \/ f[x].state = "joining" /\ Admitted(w, x)

Kept(f, w, new) ==
    \A x \in Peers : new[x] # 0 /\ Heeded(f, w, x) =>
        \A s, K : Speaks(f, w, s, K) /\ x \in Members(K) => KeptBy(w, x, s, K, new[x])

Asked(f, w, new) ==
    \A x \in Peers : f[x].state = "joining" /\ new[x] # 0 =>
        f[x].infos.owner # None /\ AskedBefore(Line(w, x, f[x].infos.owner), new[x])

Settling(f, w, u) ==
    /\ Single(f, w) /\ AllFollow(f, w, u) /\ Untold(f, w) /\ Requests(f, w) /\ Seats(f, w)
    /\ Leavers(f, w) /\ NotOwn(f) /\ Addressed(w)

Good(f, w, u, new) == Settling(f, w, u) /\ Seated(f, new) /\ Kept(f, w, new) /\ Asked(f, w, new)

LEMMA OwnerIs ==
    ASSUME NEW f, EntriesAre(f), NotOwn(f), NEW x \in Peers, f[x].state \in {"joining", "joined"}
    PROVE  /\ f[x].infos \in LobbyInfos
           /\ f[x].infos.owner \in (Peers \ {x}) \cup {None}
           /\ f[x].state = "joined" => f[x].infos.owner \in Peers \ {x}
<1>1. EntryOK(x, f[x])
    BY DEF EntriesAre
<1>2. f[x].infos \in LobbyInfos /\ (f[x].state = "joined" => f[x].infos.owner # None)
    BY <1>1 DEF EntryOK
<1> QED
    BY <1>2, InfosParts DEF NotOwn

LEMMA ReadAddressed ==
    ASSUME NEW w, NEW w2, NEW q \in Peers, NEW p \in Peers \ {q}, NEW m, Read(w, w2, q, p, m),
           Addressed(w)
    PROVE  Addressed(w2) /\ (m.type = "infos" => p \in Members(m.body))
<1>1. /\ Took(Line(w, q, p), Line(w2, q, p), m)
      /\ \A r \in Peers : \A y \in Peers \ {r} :
           ~(r = q /\ y = p) => Line(w2, r, y) = Line(w, r, y)
    BY DEF Read
<1>2. /\ 1 \in 1 .. Len(Line(w, q, p)) /\ Line(w, q, p)[1] = m
      /\ \A i \in 1 .. Len(Line(w2, q, p)) :
           i + 1 \in 1 .. Len(Line(w, q, p)) /\ Line(w2, q, p)[i] = Line(w, q, p)[i + 1]
    BY <1>1, TookIndex
<1> QED
    BY <1>1, <1>2 DEF Addressed

LEMMA SentAddressed ==
    ASSUME NEW w, NEW w2, NEW u, NEW p \in Peers, NEW to, NEW m, Sent(w, w2, u, p, to, m),
           Addressed(w), m.type = "infos" => \A r \in to \ {p} : r \in Members(m.body)
    PROVE  Addressed(w2)
<1>1. SUFFICES ASSUME NEW q \in Peers, NEW r \in Peers \ {q}, NEW i \in 1 .. Len(Line(w2, q, r)),
                      Line(w2, q, r)[i].type = "infos"
               PROVE  r \in Members(Line(w2, q, r)[i].body)
    BY DEF Addressed
<1>2. CASE q = p /\ r \in to /\ Met(u, q, r)
    <2>1. Put(Line(w, q, r), Line(w2, q, r), m)
        BY <1>2 DEF Sent
    <2>2. /\ Len(Line(w, q, r)) \in Nat /\ Len(Line(w2, q, r)) = Len(Line(w, q, r)) + 1
          /\ Line(w2, q, r)[Len(Line(w, q, r)) + 1] = m
          /\ \A j \in 1 .. Len(Line(w, q, r)) : Line(w2, q, r)[j] = Line(w, q, r)[j]
        BY <2>1, LenProperties DEF Put
    <2>3. i \in 1 .. Len(Line(w, q, r)) \/ i = Len(Line(w, q, r)) + 1
        BY <2>2
    <2> QED
        BY <1>1, <1>2, <2>2, <2>3 DEF Addressed
<1>3. CASE ~(q = p /\ r \in to /\ Met(u, q, r))
    <2>1. Line(w2, q, r) = Line(w, q, r)
        BY <1>3 DEF Sent
    <2> QED
        BY <1>1, <2>1 DEF Addressed
<1> QED
    BY <1>2, <1>3

-----------------------------------------------------------------------------
(* A message is read and nothing comes of it: a request that is not granted, a  *)
(* refusal, a leave or an update of one that has no seat, a word to one that   *)
(* is not in the lobby, the end of one that has no seat.                      *)
NoMatter(f, w, q, p, m) ==
    /\ ~IsAdmission(m) /\ ~IsNaming(m, p)
    /\ IsWord(m) => f[p].state = "none"
    /\ m.type \in {"leave", "update"} => \A s, K : Speaks(f, w, s, K) => q \notin Members(K)
    /\ m.type = "eof" => \A K : Speaks(f, w, p, K) => q \notin Members(K)

LEMMA SettlingNoMatter ==
    ASSUME NEW f, NEW w, NEW w2, NEW u, NEW u2, NEW q \in Peers, NEW p \in Peers \ {q}, NEW m,
           Read(w, w2, q, p, m), NoMatter(f, w, q, p, m), Settling(f, w, u),
           \A x, y \in Peers : Met(u, x, y) => Met(u2, x, y)
    PROVE  Settling(f, w2, u2) /\ \A s, K : Speaks(f, w2, s, K) <=> Speaks(f, w, s, K)
<1>1. \A s, K : Speaks(f, w2, s, K) <=> Speaks(f, w, s, K)
    <2>1. SameHosts(f, f) /\ ~IsNaming(m, p)
        BY DEF NoMatter, SameHosts
    <2> QED
        BY <2>1, SpeaksRead
<1>2. Single(f, w2)
    BY SingleRead DEF Settling
<1>3. /\ \A x \in Peers : \A type :
                Sends(w, x, type) <=> Sends(w2, x, type) \/ (x = q /\ m.type = type)
      /\ \A x \in Peers : Told(w2, x) => Told(w, x)
      /\ \A x \in Peers : Admitted(w, x) <=> Admitted(w2, x)
    BY ReadSends, ReadTold, ReadAdmitted DEF NoMatter
<1>4. \A x \in Peers : \A y \in Peers \ {x} : \A type :
         Some(Line(w, x, y), type) <=>
              Some(Line(w2, x, y), type) \/ (x = q /\ y = p /\ m.type = type)
    BY ReadMsg
<1>5. Untold(f, w2)
    BY <1>3 DEF Settling, Untold
<1>6. Requests(f, w2)
    BY <1>4 DEF Settling, Requests
<1>7. Leavers(f, w2)
    BY <1>3 DEF Settling, Leavers, Leaving
<1>8. Addressed(w2)
    BY ReadAddressed DEF Settling
<1>9. ASSUME NEW s, NEW K, Speaks(f, w2, s, K), NEW x \in Peers, x \in Members(K)
      PROVE  HeldSeat(f, w2, s, x)
    <2>1. Speaks(f, w, s, K) /\ s \in Peers
        BY <1>1, <1>9 DEF Speaks
    <2>2. HeldSeat(f, w, s, x)
        BY <2>1, <1>9 DEF Settling, Seats
    <2>3. Leaving(w, x) => Leaving(w2, x)
        BY <1>3, <1>9, <2>1 DEF Leaving, NoMatter
    <2>4. Admitted(w, x) => Admitted(w2, x)
        BY <1>3, <1>9
    <2>5. x # s /\ Some(Line(w, x, s), "eof") => Some(Line(w2, x, s), "eof")
        BY <1>4, <1>9, <2>1 DEF NoMatter
    <2> QED
        BY <2>2, <2>3, <2>4, <2>5 DEF HeldSeat
<1>10. ASSUME NEW x \in Peers, NEW o, NEW I, Subject(f, w2, x, o, I)
       PROVE  Current(f, w2, u2, x, o, I)
    <2>1. Subject(f, w, x, o, I)
        BY <1>3, <1>10, OnlyRead DEF Subject, NoMatter
    <2>2. Current(f, w, u, x, o, I)
        BY <2>1 DEF Settling, AllFollow
    <2>3. \A n, h : Trail(w, x, o, n, h) => Trail(w2, x, o, n, h)
        <3>1. ~IsWord(m) \/ x # p
            BY <1>10 DEF NoMatter, Subject
        <3> QED
            BY <3>1, TrailRead
    <2>4. Updating(w, x) => Updating(w2, x) \/ Out(f, w, x)
        BY <1>3 DEF Updating, Out, NoMatter
    <2>5. \A s, K : Speaks(f, w, s, K) /\ Met(u, x, s) => Met(u2, x, s)
        BY DEF Speaks
    <2> QED
        BY <1>1, <2>2, <2>3, <2>4, <2>5, CurrentSame
<1> QED
    BY <1>1, <1>2, <1>5, <1>6, <1>7, <1>8, <1>9, <1>10 DEF Settling, Seats, AllFollow

LEMMA GoodNoMatter ==
    ASSUME NEW f, EntriesAre(f), NEW w, NEW w2, NEW u, NEW u2, NEW q \in Peers, NEW p \in Peers \ {q},
           NEW m, NEW new, Read(w, w2, q, p, m), NoMatter(f, w, q, p, m), Good(f, w, u, new),
           \A x, y \in Peers : Met(u, x, y) => Met(u2, x, y)
    PROVE  Good(f, w2, u2, new)
<1>1. Settling(f, w, u)
    BY DEF Good
<1>2. Settling(f, w2, u2) /\ \A s, K : Speaks(f, w2, s, K) <=> Speaks(f, w, s, K)
    BY <1>1, SettlingNoMatter
<1>3. \A x \in Peers : Admitted(w, x) <=> Admitted(w2, x)
    BY ReadAdmitted DEF NoMatter
<1>4. ASSUME NEW x \in Peers, new[x] # 0, Heeded(f, w2, x),
             NEW s, NEW K, Speaks(f, w2, s, K), x \in Members(K)
      PROVE  KeptBy(w2, x, s, K, new[x])
    <2>1. Heeded(f, w, x)
        BY <1>3, <1>4 DEF Heeded
    <2>2. Speaks(f, w, s, K) /\ s \in Peers
        BY <1>2, <1>4 DEF Speaks
    <2>3. KeptBy(w, x, s, K, new[x])
        BY <1>4, <2>1, <2>2 DEF Good, Kept
    <2>4. m.type # "update" \/ x # q
        BY <1>4, <2>2 DEF NoMatter
    <2> QED
        BY <2>2, <2>3, <2>4, KeptRead
<1>5. ASSUME NEW x \in Peers, f[x].state = "joining", new[x] # 0
      PROVE  f[x].infos.owner # None /\ AskedBefore(Line(w2, x, f[x].infos.owner), new[x])
    <2>1. f[x].infos.owner # None /\ AskedBefore(Line(w, x, f[x].infos.owner), new[x])
        BY <1>5 DEF Good, Asked
    <2>2. f[x].infos.owner \in Peers \ {x}
        BY <1>1, <1>5, <2>1, OwnerIs DEF Settling
    <2> QED
        BY <2>1, <2>2, AskedRead
<1> QED
    BY <1>2, <1>4, <1>5 DEF Good, Kept, Asked

-----------------------------------------------------------------------------
(* One peer does something that is no word for the lobby, and the hosts are the *)
(* same.                                                                   *)
LEMMA OneMoves ==
    ASSUME NEW f, NEW f2, NEW w, NEW w2, NEW u, NEW new, NEW new2, EntriesAre(f),
           NEW p \in Peers, NEW to, NEW m, Sent(w, w2, u, p, to, m), Good(f, w, u, new),
           ~IsWord(m), ~IsAdmission(m),
           \A x \in Peers \ {p} : f2[x] = f[x] /\ new2[x] = new[x],
           SameHosts(f, f2),
           m.type = "response" => \A r \in to : r \in Peers /\ f[r].state = "joining" =>
                                        f[r].infos.owner \in {None, p},
           \A o, I : Subject(f2, w2, p, o, I) => Current(f2, w2, u, p, o, I),
           f2[p].state \in {"hosting", "joining"} /\ ~Admitted(w, p) => ~Told(w, p),
           f2[p].state = "joining" /\ f2[p].infos.owner # None =>
               \A q \in Peers \ {p} : q # f2[p].infos.owner =>
                  ~Some(Line(w2, p, q), "request") /\ ~Some(Line(w, q, p), "response"),
           InIt(f, p) => InIt(f2, p) \/ Leaving(w2, p) \/ Admitted(w, p) \/ Out(f, w, p),
           Leaving(w2, p) => f2[p].state = "none",
           f2[p].state \in {"joining", "joined"} => f2[p].infos.owner # p,
           f2[p].state # "none" /\ new2[p] # 0 => p \in Members(f2[p].infos),
           new2[p] # 0 /\ Heeded(f2, w, p) =>
               \A s, K : Speaks(f, w, s, K) /\ p \in Members(K) => KeptBy(w2, p, s, K, new2[p]),
           f2[p].state = "joining" /\ new2[p] # 0 =>
               f2[p].infos.owner # None /\ AskedBefore(Line(w2, p, f2[p].infos.owner), new2[p])
    PROVE  Good(f2, w2, u, new2)
<1>1. Settling(f, w, u)
    BY DEF Good
<1>2. \A r \in to : ~IsNaming(m, r)
    BY DEF IsNaming, IsWord
<1>3. \A s, K : Speaks(f2, w2, s, K) <=> Speaks(f, w, s, K)
    BY <1>2, SpeaksSent
<1>4. Single(f2, w2)
    BY <1>1, <1>2, SingleSent DEF Settling, SameHosts
<1>5. /\ \A x \in Peers : \A type : Sends(w2, x, type) <=>
                \/ Sends(w, x, type)
                \/ x = p /\ m.type = type /\ Reaches(u, p, to)
      /\ \A x \in Peers : Told(w2, x) <=> Told(w, x)
      /\ \A x \in Peers : Admitted(w2, x) <=> Admitted(w, x)
    <2>1. \A x \in Peers : \A type : Sends(w2, x, type) <=>
                \/ Sends(w, x, type)
                \/ x = p /\ m.type = type /\ Reaches(u, p, to)
        BY SentSends
    <2>2. \A x \in Peers : Told(w2, x) <=> Told(w, x)
        BY SentTold
    <2>3. \A x \in Peers : Admitted(w2, x) <=> Admitted(w, x)
        BY SentAdmitted
    <2> QED
        BY <2>1, <2>2, <2>3
<1>6. \A q \in Peers : \A r \in Peers \ {q} : \A type : Some(Line(w2, q, r), type) <=>
           \/ Some(Line(w, q, r), type)
           \/ q = p /\ r \in to /\ Met(u, q, r) /\ m.type = type
    BY SentMsg
<1>7. ASSUME NEW x \in Peers, x # p, NEW o, NEW I, Subject(f2, w2, x, o, I)
      PROVE  Current(f2, w2, u, x, o, I)
    <2>1. Subject(f, w, x, o, I)
        BY <1>5, <1>7, OnlySent DEF Subject
    <2>2. Current(f, w, u, x, o, I)
        BY <1>1, <2>1 DEF Settling, AllFollow
    <2>3. \A n, h : Trail(w, x, o, n, h) => Trail(w2, x, o, n, h)
        BY TrailSent
    <2>4. Updating(w, x) => Updating(w2, x)
        BY <1>5 DEF Updating
    <2> QED
        BY <1>3, <2>2, <2>3, <2>4, CurrentSame
<1>8. AllFollow(f2, w2, u)
    BY <1>7 DEF AllFollow
<1>9. Untold(f2, w2)
    BY <1>1, <1>5 DEF Settling, Untold
<1>10. ASSUME NEW x \in Peers, f2[x].state = "joining", f2[x].infos.owner # None,
              NEW q \in Peers \ {x}, q # f2[x].infos.owner
       PROVE  ~Some(Line(w2, x, q), "request") /\ ~Some(Line(w2, q, x), "response")
    <2>1. CASE x = p
        BY <1>6, <1>10, <2>1
    <2>2. CASE x # p
        <3>1. f2[x] = f[x] /\ ~Some(Line(w, x, q), "request") /\ ~Some(Line(w, q, x), "response")
            BY <1>1, <1>10, <2>2 DEF Settling, Requests
        <3>2. ~Some(Line(w2, x, q), "request")
            BY <1>6, <2>2, <3>1
        <3>3. q = p /\ x \in to /\ m.type = "response" => FALSE
            BY <1>10, <3>1
        <3> QED
            BY <1>6, <3>1, <3>2, <3>3
    <2> QED
        BY <2>1, <2>2
<1>11. ASSUME NEW s, NEW K, NEW x \in Peers, Speaks(f2, w2, s, K), x \in Members(K)
       PROVE  HeldSeat(f2, w2, s, x)
    <2>1. Speaks(f, w, s, K) /\ s \in Peers
        BY <1>3, <1>11 DEF Speaks
    <2>2. HeldSeat(f, w, s, x)
        BY <1>1, <1>11, <2>1 DEF Settling, Seats
    <2>3. Leaving(w, x) => Leaving(w2, x)
        BY <1>5 DEF Leaving
    <2>4. x # s /\ Some(Line(w, x, s), "eof") => Some(Line(w2, x, s), "eof")
        BY <1>6, <2>1
    <2>5. InIt(f, x) => InIt(f2, x) \/ Leaving(w2, x) \/ Admitted(w2, x)
        BY <1>5, <1>11, <2>1 DEF InIt, Out
    <2> QED
        BY <1>5, <2>2, <2>3, <2>4, <2>5 DEF HeldSeat
<1>12. Leavers(f2, w2)
    BY <1>1, <1>5 DEF Settling, Leavers, Leaving
<1>13. NotOwn(f2)
    BY <1>1 DEF Settling, NotOwn
<1>14. Addressed(w2)
    BY <1>1, SentAddressed DEF Settling, IsWord
<1>15. Settling(f2, w2, u)
    BY <1>4, <1>8, <1>9, <1>10, <1>11, <1>12, <1>13, <1>14 DEF Settling, Requests, Seats
<1>16. Seated(f2, new2)
    BY DEF Good, Seated
<1>17. ASSUME NEW x \in Peers, new2[x] # 0, Heeded(f2, w2, x),
              NEW s, NEW K, Speaks(f2, w2, s, K), x \in Members(K)
       PROVE  KeptBy(w2, x, s, K, new2[x])
    <2>1. Heeded(f2, w, x) /\ Speaks(f, w, s, K) /\ s \in Peers
        BY <1>3, <1>5, <1>17 DEF Heeded, Speaks
    <2>2. CASE x = p
        BY <1>17, <2>1, <2>2
    <2>3. CASE x # p
        <3>1. Heeded(f, w, x) /\ new2[x] = new[x]
            BY <2>1, <2>3 DEF Heeded, InIt
        <3>2. KeptBy(w, x, s, K, new[x])
            BY <1>17, <2>1, <3>1 DEF Good, Kept
        <3>3. \A q \in Peers \ {x} : Line(w2, x, q) = Line(w, x, q)
            BY <2>3 DEF Sent
        <3> QED
            BY <2>1, <3>1, <3>2, <3>3, KeptSame
    <2> QED
        BY <2>2, <2>3
<1>18. ASSUME NEW x \in Peers, f2[x].state = "joining", new2[x] # 0
       PROVE  f2[x].infos.owner # None /\ AskedBefore(Line(w2, x, f2[x].infos.owner), new2[x])
    <2>1. CASE x = p
        BY <1>18, <2>1
    <2>2. CASE x # p
        <3>1. f2[x] = f[x] /\ new2[x] = new[x]
            BY <2>2
        <3>2. f[x].infos.owner # None /\ AskedBefore(Line(w, x, f[x].infos.owner), new[x])
            BY <1>18, <3>1 DEF Good, Asked
        <3>3. f[x].infos.owner \in Peers \ {x}
            BY <1>1, <1>18, <3>1, <3>2, OwnerIs DEF Settling
        <3>4. Line(w2, x, f[x].infos.owner) = Line(w, x, f[x].infos.owner)
            BY <2>2, <3>3 DEF Sent
        <3> QED
            BY <3>1, <3>2, <3>4
    <2> QED
        BY <2>1, <2>2
<1> QED
    BY <1>15, <1>16, <1>17, <1>18 DEF Good, Kept, Asked

LEMMA SentNothing ==
    ASSUME NEW w, Streams(w, Words), NEW u, NEW p, NEW m
    PROVE  Sent(w, w, u, p, {}, m)
    BY DEF Sent

(* A request is not granted.                                                 *)
LEMMA GoodRefuse ==
    ASSUME NEW f, NEW w, NEW w2, NEW u, NEW new, EntriesAre(f), Good(f, w, u, new),
           NEW p \in Peers, Hosting(f, p), NEW q \in Peers \ {p},
           f[q].state = "joining" => f[q].infos.owner \in {None, p},
           NEW m, m.type = "response", ~IsAdmission(m), Sent(w, w2, u, p, {q}, m)
    PROVE  Good(f, w2, u, new)
<1>1. Settling(f, w, u) /\ f[p].state = "hosting"
    BY DEF Good, Hosting
<1>2. ~IsWord(m)
    BY DEF IsWord
<1>3. SameHosts(f, f)
    BY DEF SameHosts
<1>4. Leaving(w2, p) => Leaving(w, p)
    BY SentSends DEF Leaving
<1>5. ~Leaving(w2, p)
    BY <1>1, <1>4 DEF Settling, Leavers, Leaving
<1>6. \A o, I : ~Subject(f, w2, p, o, I)
    BY <1>1 DEF Subject
<1>7. ~Admitted(w, p) => ~Told(w, p)
    BY <1>1 DEF Settling, Untold
<1>8. InIt(f, p)
    BY <1>1 DEF InIt
<1>9. new[p] # 0 => p \in Members(f[p].infos)
    BY <1>1 DEF Good, Seated
<1>10. ASSUME new[p] # 0, Heeded(f, w, p), NEW s, NEW K, Speaks(f, w, s, K), p \in Members(K)
       PROVE  KeptBy(w2, p, s, K, new[p])
    <2>1. s \in Peers /\ KeptBy(w, p, s, K, new[p])
        BY <1>10 DEF Good, Kept, Speaks
    <2> QED
        BY <2>1, KeptSent
<1> QED
    BY <1>1, <1>2, <1>3, <1>5, <1>6, <1>7, <1>8, <1>9, <1>10, OneMoves

(* Who was joining is not any more.                                          *)
LEMMA GoodStops ==
    ASSUME NEW f, NEW f2, NEW w, NEW u, NEW new, EntriesAre(f), Good(f, w, u, new),
           Streams(w, Words), NEW p \in Peers, f[p].state = "joining", f2[p].state = "none",
           \A x \in Peers \ {p} : f2[x] = f[x]
    PROVE  Good(f2, w, u, new)
<1> DEFINE m == [type |-> "leave", body |-> None]
<1>1. m.type = "leave"
    OBVIOUS
<1>2. Sent(w, w, u, p, {}, m)
    BY SentNothing
<1> HIDE DEF m
<1>3. ~IsWord(m) /\ ~IsAdmission(m) /\ m.type # "response"
    BY <1>1 DEF IsWord, IsAdmission
<1>4. SameHosts(f, f2)
    BY DEF SameHosts, Hosting
<1>5. \A o, I : ~Subject(f2, w, p, o, I)
    BY DEF Subject
<1>6. ~InIt(f, p) /\ ~Heeded(f2, w, p)
    BY DEF InIt, Heeded
<1> QED
    BY <1>2, <1>3, <1>4, <1>5, <1>6, OneMoves

(* Who has nothing under way asks to join.                                    *)
LEMMA GoodAsks ==
    ASSUME NEW f, NEW f2, NEW w, NEW w2, NEW u, NEW new, NEW new2, EntriesAre(f),
           Good(f, w, u, new), NEW p \in Peers, f[p].state = "none", f2[p].state = "joining",
           \A q \in Peers \ {p} : Empty(Line(w, p, q)) /\ Empty(Line(w, q, p)),
           \A x \in Peers \ {p} : f2[x] = f[x] /\ new2[x] = new[x], new2[p] = 0,
           NEW to, f2[p].infos.owner # p,
           f2[p].infos.owner # None => to = {f2[p].infos.owner},
           NEW m, m.type = "request", Sent(w, w2, u, p, to, m)
    PROVE  Good(f2, w2, u, new2)
<1>1. /\ \A q \in Peers \ {p} : \A type : ~Some(Line(w, p, q), type) /\ ~Some(Line(w, q, p), type)
      /\ \A q \in Peers \ {p} : ~Admits(Line(w, q, p))
    BY DEF Empty, Some, Admits
<1>2. ~Told(w, p) /\ ~Admitted(w, p) /\ ~Leaving(w, p)
    BY <1>1 DEF Told, Admitted, Leaving, Sends
<1>3. ~IsWord(m) /\ ~IsAdmission(m)
    BY DEF IsWord, IsAdmission
<1>4. SameHosts(f, f2)
    BY DEF SameHosts, Hosting
<1>5. ~Leaving(w2, p)
    BY <1>2, SentSends DEF Leaving
<1>6. \A q \in Peers \ {p} : Some(Line(w2, p, q), "request") => q \in to
    BY <1>1, SentMsg
<1>7. ~Admitted(w2, p)
    BY <1>2, <1>3, SentAdmitted
<1>8. \A o, I : ~Subject(f2, w2, p, o, I)
    BY <1>7 DEF Subject, OnlyAdmission, OneAdmits, Admitted
<1>9. ~InIt(f, p)
    BY DEF InIt
<1> QED
    BY <1>1, <1>2, <1>3, <1>4, <1>5, <1>6, <1>8, <1>9, OneMoves

(* A member, or who would be one, leaves and tells the owner.                 *)
LEMMA GoodQuits ==
    ASSUME NEW f, NEW f2, NEW w, NEW w2, NEW u, NEW new, EntriesAre(f), Good(f, w, u, new),
           NEW p \in Peers, f[p].state \in {"joining", "joined"}, f2[p].state = "none",
           \A x \in Peers \ {p} : f2[x] = f[x],
           NEW o \in Peers \ {p}, Met(u, p, o),
           NEW m, m.type = "leave", Sent(w, w2, u, p, {o}, m)
    PROVE  Good(f2, w2, u, new)
<1>1. ~IsWord(m) /\ ~IsAdmission(m) /\ m.type # "response"
    BY DEF IsWord, IsAdmission
<1>2. SameHosts(f, f2)
    BY DEF SameHosts, Hosting
<1>3. o \in {o} \cap (Peers \ {p})
    OBVIOUS
<1>4. Leaving(w2, p)
    BY <1>3, SentSends DEF Leaving, Reaches
<1>5. \A o2, I : ~Subject(f2, w2, p, o2, I)
    BY DEF Subject
<1>6. ~Heeded(f2, w, p)
    BY DEF InIt, Heeded
<1> QED
    BY <1>1, <1>2, <1>4, <1>5, <1>6, OneMoves

Alters(x, I, J) == Alike(x, I, J, TRUE)

(* It updates its own attributes and tells the owner.                         *)
LEMMA GoodUpdates ==
    ASSUME NEW f, NEW f2, NEW w, NEW w2, NEW u, NEW new, NEW new2, EntriesAre(f),
           Good(f, w, u, new), NEW p \in Peers, f[p].state \in {"joining", "joined"},
           f2[p].state = f[p].state, Alters(p, f2[p].infos, f[p].infos),
           \A x \in Peers \ {p} : f2[x] = f[x] /\ new2[x] = new[x],
           NEW o \in Peers \ {p}, o = f[p].infos.owner, Met(u, p, o),
           NEW m, m.type = "update", Sent(w, w2, u, p, {o}, m),
           IF p \in Members(f[p].infos) THEN new2[p] \in m.body ELSE new2[p] = new[p]
    PROVE  Good(f2, w2, u, new2)
<1>1. Settling(f, w, u)
    BY DEF Good
<1>2. ~IsWord(m) /\ ~IsAdmission(m) /\ m.type # "response"
    BY DEF IsWord, IsAdmission
<1>3. SameHosts(f, f2)
    BY DEF SameHosts, Hosting
<1>4. f2[p].infos.owner = o /\ Members(f2[p].infos) = Members(f[p].infos)
    BY DEF Alike, Alters
<1>5. o \in {o} \cap (Peers \ {p})
    OBVIOUS
<1>6. Updating(w2, p) /\ (Leaving(w2, p) => Leaving(w, p))
    BY <1>5, SentSends DEF Updating, Leaving, Reaches
<1>7. ~Leaving(w2, p)
    BY <1>1, <1>6 DEF Settling, Leavers
<1>8. Put(Line(w, p, o), Line(w2, p, o), m)
    BY DEF Sent
<1>9. new2[p] # 0 => p \in Members(f[p].infos) /\ new2[p] \in m.body
    BY DEF Good, Seated
<1>10. new2[p] # 0 => /\ LastUpdate(Line(w2, p, o), new2[p])
                      /\ AskedBefore(Line(w2, p, o), new2[p])
                      /\ Some(Line(w2, p, o), "update")
    BY <1>8, <1>9, PutUpdate, NoUpdate
<1>11. \A s, K : Speaks(f2, w2, s, K) <=> Speaks(f, w, s, K)
    <2>1. \A r \in {o} : ~IsNaming(m, r)
        BY DEF IsNaming
    <2> QED
        BY <1>3, <2>1, SpeaksSent
<1>12. ASSUME NEW o2, NEW I, Subject(f2, w2, p, o2, I)
       PROVE  Current(f2, w2, u, p, o2, I)
    <2>1. Admitted(w2, p) <=> Admitted(w, p)
        BY <1>2, SentAdmitted
    <2>2. PICK J : Subject(f, w, p, o2, J) /\ (J = I \/ Alike(p, I, J, TRUE))
        BY <1>2, <1>4, <1>12, <2>1, OnlySent DEF Subject, Alters
    <2>3. Follows(f, w, u, p, o2, J, TRUE)
        BY <1>1, <2>2, CurrentIs DEF Settling, AllFollow
    <2>4. Follows(f, w, u, p, o2, I, TRUE)
        BY <2>2, <2>3, FollowsOwn
    <2>5. \A n, h : Trail(w, p, o2, n, h) => Trail(w2, p, o2, n, h)
        BY <1>2, TrailSent
    <2>6. Follows(f2, w2, u, p, o2, I, TRUE)
        BY <1>11, <2>4, <2>5, FollowsSame
    <2> QED
        BY <1>6, <2>6, CurrentIs
<1>13. f[p].state = "joining" /\ ~Admitted(w, p) => ~Told(w, p)
    BY <1>1 DEF Settling, Untold
<1>14. f[p].state = "joining" => \A q \in Peers \ {p} : q # o =>
            ~Some(Line(w2, p, q), "request") /\ ~Some(Line(w, q, p), "response")
    <2>1. f[p].state = "joining" => \A q \in Peers \ {p} : q # o =>
            ~Some(Line(w, p, q), "request") /\ ~Some(Line(w, q, p), "response")
        BY <1>1, LobbyAssumption DEF Settling, Requests
    <2> QED
        BY <2>1, SentMsg
<1>15. InIt(f, p) => InIt(f2, p)
    BY DEF InIt
<1>16. ASSUME new2[p] # 0, NEW s, NEW K, Speaks(f, w, s, K)
       PROVE  KeptBy(w2, p, s, K, new2[p])
    <2>1. s = o => LastUpdate(Line(w2, p, s), new2[p]) /\ s # p
        BY <1>10, <1>16
    <2>2. s # o => \E q \in Peers \ {p} : q # s /\ Some(Line(w2, p, q), "update")
        BY <1>10, <1>16
    <2> QED
        BY <2>1, <2>2 DEF KeptBy
<1>17. o # None
    BY LobbyAssumption
<1> QED
    BY <1>2, <1>3, <1>4, <1>7, <1>9, <1>10, <1>12, <1>13, <1>14, <1>15, <1>16, <1>17, OneMoves

-----------------------------------------------------------------------------
(* One peer, not joining any more, reads an answer or a word, and what is said  *)
(* for the lobby stays what it was.                                        *)
LEMMA OneReads ==
    ASSUME NEW f, NEW f2, NEW w, NEW w2, NEW u, NEW new, EntriesAre(f), Good(f, w, u, new),
           NEW q \in Peers, NEW p \in Peers \ {q}, NEW m, Read(w, w2, q, p, m),
           m.type \notin {"update", "leave", "eof"},
           \A x \in Peers \ {p} : f2[x] = f[x], f[p].state # "none", f2[p].state # "joining",
           Single(f2, w2), \A s, K : Speaks(f2, w2, s, K) <=> Speaks(f, w, s, K),
           \A o, I : Subject(f2, w2, p, o, I) => Current(f2, w2, u, p, o, I),
           f2[p].state = "hosting" /\ ~Admitted(w2, p) => ~Told(w2, p),
           InIt(f2, p) \/ Admitted(w2, p) \/ Out(f, w, p),
           f2[p].state = "joined" => f2[p].infos.owner # p,
           f2[p].state # "none" /\ new[p] # 0 => p \in Members(f2[p].infos),
           Heeded(f2, w2, p) => Heeded(f, w, p)
    PROVE  Good(f2, w2, u, new)
<1>1. Settling(f, w, u)
    BY DEF Good
<1>2. /\ \A x \in Peers : \A type :
                Sends(w, x, type) <=> Sends(w2, x, type) \/ (x = q /\ m.type = type)
      /\ \A x \in Peers : Told(w2, x) => Told(w, x)
      /\ \A x \in Peers : Admitted(w2, x) => Admitted(w, x)
      /\ \A x \in Peers \ {p} : Admitted(w2, x) <=> Admitted(w, x)
    <2>1. \A x \in Peers : \A type :
                Sends(w, x, type) <=> Sends(w2, x, type) \/ (x = q /\ m.type = type)
        BY ReadSends
    <2>2. \A x \in Peers : Told(w2, x) => Told(w, x)
        BY ReadTold
    <2>3. ASSUME NEW x \in Peers
          PROVE  Admitted(w, x) <=> Admitted(w2, x) \/ (IsAdmission(m) /\ x = p)
        BY ReadAdmitted
    <2> QED
        BY <2>1, <2>2, <2>3
<1>3. \A x \in Peers : \A y \in Peers \ {x} : \A type :
         Some(Line(w, x, y), type) <=>
              Some(Line(w2, x, y), type) \/ (x = q /\ y = p /\ m.type = type)
    BY ReadMsg
<1>4. \A x \in Peers : /\ Leaving(w2, x) <=> Leaving(w, x)
                       /\ Updating(w2, x) <=> Updating(w, x)
    BY <1>2 DEF Leaving, Updating
<1>5. ASSUME NEW x \in Peers, x # p, NEW o, NEW I, Subject(f2, w2, x, o, I)
      PROVE  Current(f2, w2, u, x, o, I)
    <2>1. OnlyAdmission(w2, x, o) => OnlyAdmission(w, x, o)
        BY <1>5, OnlyRead
    <2>2. Subject(f, w, x, o, I)
        BY <1>2, <1>5, <2>1 DEF Subject
    <2>3. Current(f, w, u, x, o, I)
        BY <1>1, <2>2 DEF Settling, AllFollow
    <2>4. \A n, h : Trail(w, x, o, n, h) => Trail(w2, x, o, n, h)
        BY <1>5, TrailRead
    <2> QED
        BY <1>4, <2>3, <2>4, CurrentSame
<1>6. AllFollow(f2, w2, u)
    BY <1>5 DEF AllFollow
<1>7. Untold(f2, w2)
    BY <1>1, <1>2 DEF Settling, Untold
<1>8. Requests(f2, w2)
    BY <1>1, <1>3 DEF Settling, Requests
<1>9. ASSUME NEW s, NEW K, NEW x \in Peers, Speaks(f2, w2, s, K), x \in Members(K)
      PROVE  HeldSeat(f2, w2, s, x)
    <2>1. Speaks(f, w, s, K) /\ s \in Peers
        BY <1>9 DEF Speaks
    <2>2. CASE x = p
        BY <1>9, <2>1, <2>2 DEF HeldSeat, Out
    <2>3. CASE x # p
        <3>1. HeldSeat(f, w, s, x)
            BY <1>1, <1>9, <2>1 DEF Settling, Seats
        <3>2. x # s /\ Some(Line(w, x, s), "eof") => Some(Line(w2, x, s), "eof")
            BY <1>3, <2>1
        <3> QED
            BY <1>2, <1>4, <2>3, <3>1, <3>2 DEF HeldSeat, InIt
    <2> QED
        BY <2>2, <2>3
<1>10. Leavers(f2, w2)
    BY <1>1, <1>4 DEF Settling, Leavers
<1>11. NotOwn(f2)
    BY <1>1 DEF Settling, NotOwn
<1>12. Addressed(w2)
    BY <1>1, ReadAddressed DEF Settling
<1>13. Settling(f2, w2, u)
    BY <1>6, <1>7, <1>8, <1>9, <1>10, <1>11, <1>12 DEF Settling, Seats
<1>14. Seated(f2, new)
    BY DEF Good, Seated
<1>15. ASSUME NEW x \in Peers, new[x] # 0, Heeded(f2, w2, x),
              NEW s, NEW K, Speaks(f2, w2, s, K), x \in Members(K)
       PROVE  KeptBy(w2, x, s, K, new[x])
    <2>1. Heeded(f, w, x)
        BY <1>2, <1>15 DEF Heeded, InIt
    <2>2. Speaks(f, w, s, K) /\ s \in Peers
        BY <1>15 DEF Speaks
    <2>3. KeptBy(w, x, s, K, new[x])
        BY <1>15, <2>1, <2>2 DEF Good, Kept
    <2> QED
        BY <2>2, <2>3, KeptRead
<1>16. ASSUME NEW x \in Peers, f2[x].state = "joining", new[x] # 0
       PROVE  f2[x].infos.owner # None /\ AskedBefore(Line(w2, x, f2[x].infos.owner), new[x])
    <2>1. f2[x] = f[x]
        BY <1>16
    <2>2. f[x].infos.owner # None /\ AskedBefore(Line(w, x, f[x].infos.owner), new[x])
        BY <1>16, <2>1 DEF Good, Asked
    <2>3. f[x].infos.owner \in Peers \ {x}
        BY <1>1, <1>16, <2>1, <2>2, OwnerIs DEF Settling
    <2> QED
        BY <2>1, <2>2, <2>3, AskedRead
<1> QED
    BY <1>13, <1>14, <1>15, <1>16 DEF Good, Kept, Asked

(* Who is joining is let in.                                                 *)
LEMMA GoodAdmitted ==
    ASSUME NEW f, NEW f2, NEW w, NEW w2, NEW u, NEW new, EntriesAre(f), Good(f, w, u, new),
           NEW q \in Peers, NEW p \in Peers \ {q}, NEW m, Read(w, w2, q, p, m), IsAdmission(m),
           \A x \in Peers \ {p} : f2[x] = f[x],
           f[p].state = "joining", f2[p].state = "joined", f2[p].infos.owner = q,
           Members(f2[p].infos) = Members(f[p].infos)
    PROVE  Good(f2, w2, u, new)
<1>1. Settling(f, w, u)
    BY DEF Good
<1>2. m.type = "response" /\ ~IsWord(m) /\ ~IsNaming(m, p) /\ SameHosts(f, f2)
    BY DEF IsAdmission, IsWord, IsNaming, SameHosts, Hosting
<1>3. \A s, K : Speaks(f2, w2, s, K) <=> Speaks(f, w, s, K)
    BY <1>2, SpeaksRead
<1>4. Single(f2, w2)
    BY <1>1, <1>2, SingleRead DEF Settling, SameHosts
<1>5. Admitted(w, p)
    BY ReadAdmitted
<1>6. Sends(w, p, "update") <=> Sends(w2, p, "update")
    BY <1>2, ReadSends
<1>7. ASSUME NEW o, NEW I, Subject(f2, w2, p, o, I)
      PROVE  Current(f2, w2, u, p, o, I)
    <2>1. ~Admitted(w2, p) /\ o = q /\ I = f2[p].infos
        BY <1>7 DEF Subject
    <2>2. OnlyAdmission(w, p, q)
        BY <2>1, OnlyRead
    <2>3. Subject(f, w, p, q, NoInfos)
        BY <2>2 DEF Subject
    <2>4. Current(f, w, u, p, q, NoInfos)
        BY <1>1, <2>3 DEF Settling, AllFollow
    <2>5. \A n, h : Trail(w, p, q, n, h) => Trail(w2, p, q, n, h)
        BY <1>2, TrailRead
    <2>6. Current(f2, w2, u, p, q, NoInfos)
        BY <1>3, <1>6, <2>4, <2>5, CurrentSame DEF Updating
    <2>7. Current(f2, w2, u, p, q, I)
        BY <2>6, FollowsAny DEF Current
    <2> QED
        BY <2>1, <2>7
<1>8. Heeded(f, w, p) /\ InIt(f2, p)
    BY <1>5 DEF Heeded, InIt
<1>9. f2[p].state # "none" /\ new[p] # 0 => p \in Members(f2[p].infos)
    BY DEF Good, Seated
<1> QED
    BY <1>2, <1>3, <1>4, <1>7, <1>8, <1>9, OneReads

(* Nothing is said to one that awaits its own words.                          *)
LEMMA TrailOwn ==
    ASSUME NEW w, NEW x \in Peers, NEW n, NEW h, Trail(w, x, x, n, h)
    PROVE  ~Told(w, x)
<1>1. n \in Nat /\ (n > 0 => x \in Peers \ {x})
    BY TrailLength
<1>2. PICK f \in [1 .. n -> Peers \ {x}], g \in [1 .. n -> Nat] : Course(w, x, x, n, h, f, g)
    BY DEF Trail
<1>3. 1 .. n = {}
    BY <1>1
<1>4. \A q \in Peers \ {x} : \A i \in 1 .. Len(Line(w, q, x)) : ~IsWord(Line(w, q, x)[i])
    BY <1>2, <1>3 DEF Course
<1> QED
    BY <1>4 DEF Told, Some, IsWord

(* A member copies what its owner says, and hosts when it is named.           *)
LEMMA GoodHeeds ==
    ASSUME NEW f, NEW f2, NEW w, NEW w2, NEW u, NEW new, EntriesAre(f), Good(f, w, u, new),
           NEW q \in Peers, NEW p \in Peers \ {q}, NEW m, Read(w, w2, q, p, m), m.type = "infos",
           \A x \in Peers \ {p} : f2[x] = f[x],
           f[p].state = "joined", f[p].infos.owner = q, f2[p].infos = m.body,
           f2[p].state = IF m.body.owner = p THEN "hosting" ELSE "joined"
    PROVE  Good(f2, w2, u, new)
<1>1. Settling(f, w, u)
    BY DEF Good
<1>2. IsWord(m) /\ ~IsAdmission(m)
    BY DEF IsAdmission, IsWord
<1>3. (\A s, K : Speaks(f2, w2, s, K) <=> Speaks(f, w, s, K)) /\ Single(f2, w2)
    <2>1. CASE m.body.owner = p
        <3>1. IsNaming(m, p) /\ Hosting(f2, p) /\ Single(f, w)
            BY <1>1, <2>1 DEF IsNaming, Hosting, Settling
        <3> QED
            BY <3>1, SpeaksTurns
    <2>2. CASE m.body.owner # p
        <3>1. ~IsNaming(m, p) /\ SameHosts(f, f2) /\ Single(f, w)
            BY <1>1, <2>2 DEF IsNaming, Hosting, Settling, SameHosts
        <3>2. \A s, K : Speaks(f2, w2, s, K) <=> Speaks(f, w, s, K)
            BY <3>1, SpeaksRead
        <3>3. \A x \in Peers : Hosting(f2, x) => Hosting(f, x)
            BY <3>1 DEF SameHosts
        <3> QED
            BY <3>1, <3>2, <3>3, SingleRead
    <2> QED
        BY <2>1, <2>2
<1>4. Admitted(w, p) <=> Admitted(w2, p)
    BY <1>2, ReadAdmitted
<1>5. Sends(w, p, "update") <=> Sends(w2, p, "update")
    BY ReadSends
<1>6. Took(Line(w, q, p), Line(w2, q, p), m)
        /\ \A r \in Peers \ {p} : r # q => Line(w2, r, p) = Line(w, r, p)
    BY DEF Read
<1>7. ASSUME ~Admitted(w, p)
      PROVE  Current(f2, w2, u, p, m.body.owner, m.body)
    <2>1. Subject(f, w, p, q, f[p].infos)
        BY <1>7 DEF Subject
    <2>2. Current(f, w, u, p, q, f[p].infos)
        BY <1>1, <2>1 DEF Settling, AllFollow
    <2>3. \A free \in BOOLEAN : Follows(f, w, u, p, q, f[p].infos, free) =>
                Follows(f2, w2, u, p, m.body.owner, m.body, free)
        BY <1>2, <1>3, <1>6, FollowsHeed
    <2> QED
        BY <1>5, <2>2, <2>3 DEF Current, Updating
<1>8. \A o, I : Subject(f2, w2, p, o, I) => Current(f2, w2, u, p, o, I)
    BY <1>4, <1>7 DEF Subject
<1>9. ASSUME f2[p].state = "hosting", ~Admitted(w2, p)
      PROVE  ~Told(w2, p)
    <2>1. m.body.owner = p
        BY <1>9
    <2>2. Current(f2, w2, u, p, p, m.body)
        BY <1>4, <1>7, <1>9, <2>1
    <2>3. Follows(f2, w2, u, p, p, m.body, TRUE)
        BY <2>2, CurrentIs
    <2> QED
        BY <2>3, TrailOwn DEF Follows
<1>10. InIt(f, p) /\ InIt(f2, p)
    BY DEF InIt
<1>11. Heeded(f2, w2, p) => Heeded(f, w, p)
    BY <1>4, <1>10 DEF Heeded, InIt
<1>12. p \in Members(m.body)
    BY <1>1, ReadAddressed DEF Settling
<1> QED
    BY <1>3, <1>8, <1>9, <1>10, <1>11, <1>12, OneReads

(* It is told that it is out.                                                *)
LEMMA GoodClosed ==
    ASSUME NEW f, NEW f2, NEW w, NEW w2, NEW u, NEW new, EntriesAre(f), Good(f, w, u, new),
           NEW q \in Peers, NEW p \in Peers \ {q}, NEW m, Read(w, w2, q, p, m), m.type = "destroy",
           \A x \in Peers \ {p} : f2[x] = f[x],
           f[p].state = "joined", f[p].infos.owner = q, f2[p].state = "none"
    PROVE  Good(f2, w2, u, new)
<1>1. Settling(f, w, u)
    BY DEF Good
<1>2. IsWord(m) /\ ~IsAdmission(m) /\ ~IsNaming(m, p) /\ SameHosts(f, f2)
    BY DEF IsAdmission, IsWord, IsNaming, SameHosts, Hosting
<1>3. \A s, K : Speaks(f2, w2, s, K) <=> Speaks(f, w, s, K)
    BY <1>2, SpeaksRead
<1>4. Single(f2, w2)
    BY <1>1, <1>2, SingleRead DEF Settling, SameHosts
<1>5. Admitted(w, p) <=> Admitted(w2, p)
    BY <1>2, ReadAdmitted
<1>6. Took(Line(w, q, p), Line(w2, q, p), m)
        /\ \A r \in Peers \ {p} : r # q => Line(w2, r, p) = Line(w, r, p)
    BY DEF Read
<1>7. ASSUME ~Admitted(w, p)
      PROVE  Out(f, w, p)
    <2>1. Subject(f, w, p, q, f[p].infos)
        BY <1>7 DEF Subject
    <2>2. Follows(f, w, u, p, q, f[p].infos, TRUE)
        BY <1>1, <2>1, CurrentIs DEF Settling, AllFollow
    <2>3. \A free \in BOOLEAN : Follows(f, w, u, p, q, f[p].infos, free) => Out(f2, w2, p)
        BY <1>2, <1>3, <1>6, FollowsHeed
    <2> QED
        BY <1>3, <2>2, <2>3 DEF Out
<1>8. \A o, I : ~Subject(f2, w2, p, o, I)
    BY DEF Subject
<1>9. ~Heeded(f2, w2, p)
    BY DEF Heeded, InIt
<1> QED
    BY <1>3, <1>4, <1>5, <1>7, <1>8, <1>9, OneReads

-----------------------------------------------------------------------------
(* The invariant while the host has yet to do what it does about z.           *)
GoodBut(f, w, u, new, z) ==
    /\ Single(f, w) /\ Requests(f, w) /\ Leavers(f, w) /\ NotOwn(f) /\ Addressed(w)
    /\ Seated(f, new) /\ Asked(f, w, new)
    /\ \A x \in Peers \ {z} : \A o, I : Subject(f, w, x, o, I) => Current(f, w, u, x, o, I)
    /\ \A x \in Peers \ {z} :
         f[x].state \in {"hosting", "joining"} /\ ~Admitted(w, x) => ~Told(w, x)
    /\ \A s, K, x : Speaks(f, w, s, K) /\ x \in Peers \ {z} /\ x \in Members(K) =>
         HeldSeat(f, w, s, x)
    /\ \A x \in Peers \ {z} : new[x] # 0 /\ Heeded(f, w, x) =>
         \A s, K : Speaks(f, w, s, K) /\ x \in Members(K) => KeptBy(w, x, s, K, new[x])

LEMMA ButAll ==
    ASSUME NEW f, NEW w, NEW u, NEW new, Good(f, w, u, new), NEW z
    PROVE  GoodBut(f, w, u, new, z)
<1>1. /\ Single(f, w) /\ Requests(f, w) /\ Leavers(f, w) /\ NotOwn(f) /\ Addressed(w)
      /\ Seated(f, new) /\ Asked(f, w, new)
    BY DEF Good, Settling
<1>2. /\ \A x \in Peers \ {z} : \A o, I : Subject(f, w, x, o, I) => Current(f, w, u, x, o, I)
      /\ \A x \in Peers \ {z} :
           f[x].state \in {"hosting", "joining"} /\ ~Admitted(w, x) => ~Told(w, x)
      /\ \A s, K, x : Speaks(f, w, s, K) /\ x \in Peers \ {z} /\ x \in Members(K) =>
           HeldSeat(f, w, s, x)
    BY DEF Good, Settling, AllFollow, Untold, Seats
<1>3. \A x \in Peers \ {z} : new[x] # 0 /\ Heeded(f, w, x) =>
         \A s, K : Speaks(f, w, s, K) /\ x \in Members(K) => KeptBy(w, x, s, K, new[x])
    BY DEF Good, Kept
<1> QED
    BY <1>1, <1>2, <1>3 DEF GoodBut

(* It has read what z sent.                                                  *)
LEMMA ReadBut ==
    ASSUME NEW f, EntriesAre(f), NEW w, NEW w2, NEW u, NEW new, Good(f, w, u, new),
           NEW z \in Peers, NEW a \in Peers \ {z}, NEW m, Read(w, w2, z, a, m),
           ~IsWord(m), ~IsAdmission(m)
    PROVE  /\ GoodBut(f, w2, u, new, z)
           /\ \A s, K : Speaks(f, w2, s, K) <=> Speaks(f, w, s, K)
<1>1. Settling(f, w, u)
    BY DEF Good
<1>2. SameHosts(f, f) /\ ~IsNaming(m, a)
    BY DEF SameHosts, IsNaming, IsWord
<1>3. \A s, K : Speaks(f, w2, s, K) <=> Speaks(f, w, s, K)
    BY <1>2, SpeaksRead
<1>4. Single(f, w2)
    BY <1>1, SingleRead DEF Settling
<1>5. \A x \in Peers : \A type :
         Sends(w, x, type) <=> Sends(w2, x, type) \/ (x = z /\ m.type = type)
    BY ReadSends
<1>6. \A x \in Peers : Told(w2, x) => Told(w, x)
    BY ReadTold
<1>7. \A x \in Peers : Admitted(w2, x) <=> Admitted(w, x)
    BY ReadAdmitted
<1>8. \A x \in Peers : \A y \in Peers \ {x} : \A type :
         Some(Line(w, x, y), type) <=>
              Some(Line(w2, x, y), type) \/ (x = z /\ y = a /\ m.type = type)
    BY ReadMsg
<1>9. Requests(f, w2)
    BY <1>1, <1>8 DEF Settling, Requests
<1>10. Leavers(f, w2)
    BY <1>1, <1>5 DEF Settling, Leavers, Leaving
<1>11. Addressed(w2)
    BY <1>1, ReadAddressed DEF Settling
<1>12. NotOwn(f) /\ Seated(f, new)
    BY <1>1 DEF Settling, Good
<1>13. ASSUME NEW x \in Peers, f[x].state = "joining", new[x] # 0
       PROVE  f[x].infos.owner # None /\ AskedBefore(Line(w2, x, f[x].infos.owner), new[x])
    <2>1. f[x].infos.owner # None /\ AskedBefore(Line(w, x, f[x].infos.owner), new[x])
        BY <1>13 DEF Good, Asked
    <2>2. f[x].infos.owner \in Peers \ {x}
        BY <1>1, <1>13, <2>1, OwnerIs DEF Settling
    <2> QED
        BY <2>1, <2>2, AskedRead
<1>14. ASSUME NEW x \in Peers \ {z}, NEW o, NEW I, Subject(f, w2, x, o, I)
       PROVE  Current(f, w2, u, x, o, I)
    <2>1. OnlyAdmission(w2, x, o) => OnlyAdmission(w, x, o)
        BY OnlyRead
    <2>2. Subject(f, w, x, o, I)
        BY <1>7, <1>14, <2>1 DEF Subject
    <2>3. Current(f, w, u, x, o, I)
        BY <1>1, <2>2 DEF Settling, AllFollow
    <2>4. \A n, h : Trail(w, x, o, n, h) => Trail(w2, x, o, n, h)
        BY TrailRead
    <2>5. Updating(w, x) => Updating(w2, x)
        BY <1>5 DEF Updating
    <2> QED
        BY <1>3, <2>3, <2>4, <2>5, CurrentSame
<1>15. ASSUME NEW x \in Peers \ {z}, f[x].state \in {"hosting", "joining"}, ~Admitted(w2, x)
       PROVE  ~Told(w2, x)
    BY <1>1, <1>6, <1>7, <1>15 DEF Settling, Untold
<1>16. ASSUME NEW s, NEW K, NEW x \in Peers \ {z}, Speaks(f, w2, s, K), x \in Members(K)
       PROVE  HeldSeat(f, w2, s, x)
    <2>1. Speaks(f, w, s, K) /\ s \in Peers
        BY <1>3, <1>16 DEF Speaks
    <2>2. HeldSeat(f, w, s, x)
        BY <1>1, <1>16, <2>1 DEF Settling, Seats
    <2>3. Leaving(w, x) => Leaving(w2, x)
        BY <1>5 DEF Leaving
    <2>4. x # s /\ Some(Line(w, x, s), "eof") => Some(Line(w2, x, s), "eof")
        BY <1>8, <2>1
    <2> QED
        BY <1>7, <2>2, <2>3, <2>4 DEF HeldSeat
<1>17. ASSUME NEW x \in Peers \ {z}, new[x] # 0, Heeded(f, w2, x),
              NEW s, NEW K, Speaks(f, w2, s, K), x \in Members(K)
       PROVE  KeptBy(w2, x, s, K, new[x])
    <2>1. Heeded(f, w, x) /\ Speaks(f, w, s, K) /\ s \in Peers
        BY <1>3, <1>7, <1>17 DEF Heeded, Speaks
    <2>2. KeptBy(w, x, s, K, new[x])
        BY <1>17, <2>1 DEF Good, Kept
    <2> QED
        BY <2>1, <2>2, KeptRead
<1>18. Asked(f, w2, new)
    BY <1>13 DEF Asked
<1>19. GoodBut(f, w2, u, new, z)
    BY <1>4, <1>9, <1>10, <1>11, <1>12, <1>14, <1>15, <1>16, <1>17, <1>18 DEF GoodBut
<1> QED
    BY <1>3, <1>19

(* It has told z something.                                                  *)
LEMMA SentBut ==
    ASSUME NEW f, EntriesAre(f), NEW w, NEW w2, NEW u, NEW new, NEW z \in Peers,
           GoodBut(f, w, u, new, z), NEW a \in Peers \ {z}, NEW m, Sent(w, w2, u, a, {z}, m),
           m.type \in {"response", "destroy"},
           m.type = "response" /\ f[z].state = "joining" => f[z].infos.owner \in {None, a}
    PROVE  /\ GoodBut(f, w2, u, new, z)
           /\ \A s, K : Speaks(f, w2, s, K) <=> Speaks(f, w, s, K)
<1> DEFINE to == {z}
<1>1. Sent(w, w2, u, a, to, m) /\ (\A x : x \in to <=> x = z)
    OBVIOUS
<1> HIDE DEF to
<1>2. SameHosts(f, f) /\ (\A r \in to : ~IsNaming(m, r))
    BY DEF SameHosts, IsNaming
<1>3. \A s, K : Speaks(f, w2, s, K) <=> Speaks(f, w, s, K)
    BY <1>1, <1>2, SpeaksSent
<1>4. Single(f, w2)
    <2>1. Single(f, w)
        BY DEF GoodBut
    <2> QED
        BY <1>1, <1>2, <2>1, SingleSent
<1>5. \A x \in Peers : \A type : type # m.type => (Sends(w2, x, type) <=> Sends(w, x, type))
    BY <1>1, SentSends
<1>6. \A x \in Peers : x # z => (Told(w2, x) <=> Told(w, x))
    BY <1>1, SentTold
<1>7. \A x \in Peers : /\ Admitted(w, x) => Admitted(w2, x)
                       /\ x # z => (Admitted(w2, x) <=> Admitted(w, x))
    BY <1>1, SentAdmitted
<1>8. \A q \in Peers : \A r \in Peers \ {q} : \A type : Some(Line(w2, q, r), type) <=>
           \/ Some(Line(w, q, r), type)
           \/ q = a /\ r \in to /\ Met(u, q, r) /\ m.type = type
    BY <1>1, SentMsg
<1>9. ASSUME NEW x \in Peers, f[x].state = "joining", f[x].infos.owner # None,
             NEW q \in Peers \ {x}, q # f[x].infos.owner
      PROVE  ~Some(Line(w2, x, q), "request") /\ ~Some(Line(w2, q, x), "response")
    <2>1. ~Some(Line(w, x, q), "request") /\ ~Some(Line(w, q, x), "response")
        BY <1>9 DEF GoodBut, Requests
    <2>2. ~Some(Line(w2, x, q), "request")
        BY <1>8, <2>1
    <2>3. ~Some(Line(w2, q, x), "response")
        BY <1>1, <1>8, <1>9, <2>1
    <2> QED
        BY <2>2, <2>3
<1>10. Leavers(f, w2)
    BY <1>5 DEF GoodBut, Leavers, Leaving
<1>11. Addressed(w2)
    BY <1>1, SentAddressed DEF GoodBut
<1>12. ASSUME NEW x \in Peers, f[x].state = "joining", new[x] # 0
       PROVE  f[x].infos.owner # None /\ AskedBefore(Line(w2, x, f[x].infos.owner), new[x])
    <2>1. f[x].infos.owner # None /\ AskedBefore(Line(w, x, f[x].infos.owner), new[x])
        BY <1>12 DEF GoodBut, Asked
    <2>2. f[x].infos.owner \in Peers \ {x}
        BY <1>12, <2>1, OwnerIs DEF GoodBut
    <2> QED
        BY <1>1, <2>1, <2>2, AskedSent
<1>13. ASSUME NEW x \in Peers \ {z}, NEW o, NEW I, Subject(f, w2, x, o, I)
       PROVE  Current(f, w2, u, x, o, I)
    <2>1. OnlyAdmission(w2, x, o) => OnlyAdmission(w, x, o)
        BY <1>1, OnlySent
    <2>2. Subject(f, w, x, o, I)
        BY <1>7, <1>13, <2>1 DEF Subject
    <2>3. Current(f, w, u, x, o, I)
        BY <2>2 DEF GoodBut
    <2>4. \A n, h : Trail(w, x, o, n, h) => Trail(w2, x, o, n, h)
        BY <1>1, TrailSent
    <2>5. Updating(w, x) => Updating(w2, x)
        BY <1>5 DEF Updating
    <2> QED
        BY <1>3, <2>3, <2>4, <2>5, CurrentSame
<1>14. ASSUME NEW x \in Peers \ {z}, f[x].state \in {"hosting", "joining"}, ~Admitted(w2, x)
       PROVE  ~Told(w2, x)
    BY <1>6, <1>7, <1>14 DEF GoodBut
<1>15. ASSUME NEW s, NEW K, NEW x \in Peers \ {z}, Speaks(f, w2, s, K), x \in Members(K)
       PROVE  HeldSeat(f, w2, s, x)
    <2>1. Speaks(f, w, s, K) /\ s \in Peers
        BY <1>3, <1>15 DEF Speaks
    <2>2. HeldSeat(f, w, s, x)
        BY <1>15, <2>1 DEF GoodBut
    <2>3. Leaving(w, x) => Leaving(w2, x)
        BY <1>5 DEF Leaving
    <2>4. x # s /\ Some(Line(w, x, s), "eof") => Some(Line(w2, x, s), "eof")
        BY <1>8, <2>1
    <2> QED
        BY <1>7, <2>2, <2>3, <2>4 DEF HeldSeat
<1>16. ASSUME NEW x \in Peers \ {z}, new[x] # 0, Heeded(f, w2, x),
              NEW s, NEW K, Speaks(f, w2, s, K), x \in Members(K)
       PROVE  KeptBy(w2, x, s, K, new[x])
    <2>1. Heeded(f, w, x) /\ Speaks(f, w, s, K) /\ s \in Peers
        BY <1>3, <1>7, <1>16 DEF Heeded, Speaks
    <2>2. KeptBy(w, x, s, K, new[x])
        BY <1>16, <2>1 DEF GoodBut
    <2> QED
        BY <1>1, <2>1, <2>2, KeptSent
<1>17. Asked(f, w2, new) /\ Requests(f, w2)
    BY <1>9, <1>12 DEF Asked, Requests
<1>18. NotOwn(f) /\ Seated(f, new)
    BY DEF GoodBut
<1>19. GoodBut(f, w2, u, new, z)
    BY <1>4, <1>10, <1>11, <1>13, <1>14, <1>15, <1>16, <1>17, <1>18 DEF GoodBut
<1> QED
    BY <1>3, <1>19

-----------------------------------------------------------------------------
(* The host says what has changed about z, to everyone else on the roster.     *)
LEMMA HostSays ==
    ASSUME NEW f, NEW f2, NEW w, NEW w2, NEW u, NEW new, NEW new2, EntriesAre(f),
           NEW z \in Peers, GoodBut(f, w, u, new, z), NEW a \in Peers, NEW K, NEW K2,
           Hosting(f, a), f[a].infos = K, Hosting(f2, a), f2[a].infos = K2,
           \A x \in Peers \ {a} : f2[x] = f[x] /\ new2[x] = new[x],
           K2.owner = a, a \in Members(K2),
           NEW m, m.type = "infos", m.body = K2, NEW to, Sent(w, w2, u, a, to, m),
           \A x : x \in to <=> x \in Members(K2) /\ x # a,
           \A x \in Peers : Met(u, x, a) <=> Met(u, a, x),
           \A x \in Peers \ {a} : Met(u, a, x) => ~Some(Line(w, x, a), "eof"),
           \A x \in Peers \ {z} : /\ x \in Members(K2) <=> x \in Members(K)
                                  /\ x \in Members(K2) => K2.roster[x] = K.roster[x]
                                  /\ new2[x] = new[x],
           z # a => /\ \A o, I : Subject(f2, w2, z, o, I) => Current(f2, w2, u, z, o, I)
                    /\ z \in Members(K2) => HeldSeat(f2, w2, a, z),
           f2[z].state \in {"hosting", "joining"} /\ ~Admitted(w2, z) => ~Told(w2, z),
           new2[z] # 0 /\ Heeded(f2, w2, z) /\ z \in Members(K2) => KeptBy(w2, z, a, K2, new2[z])
    PROVE  Good(f2, w2, u, new2)
<1>1. (\A r \in to : ~IsNaming(m, r)) /\ IsWord(m) /\ ~IsAdmission(m)
    BY DEF IsNaming, IsWord, IsAdmission
<1>2. Single(f2, w2)
    <2>1. Single(f, w) /\ (\A x \in Peers : Hosting(f2, x) => Hosting(f, x))
        BY DEF GoodBut, Hosting
    <2> QED
        BY <1>1, <2>1, SingleSent
<1>3. Speaks(f, w, a, K)
    BY DEF Speaks
<1>4. \A s, J : Speaks(f2, w2, s, J) <=> s = a /\ J = K2
    <2>1. Single(f, w)
        BY DEF GoodBut
    <2> QED
        BY <1>2, <2>1, SpeaksAnew
<1>5. \A x \in Peers : \A type : type # "infos" => (Sends(w2, x, type) <=> Sends(w, x, type))
    BY SentSends
<1>6. \A x \in Peers : Told(w2, x) => Told(w, x) \/ (x \in to /\ Met(u, a, x))
    BY SentTold
<1>7. \A x \in Peers : Admitted(w2, x) <=> Admitted(w, x)
    BY <1>1, SentAdmitted
<1>8. \A q \in Peers : \A r \in Peers \ {q} : \A type : type # "infos" =>
         (Some(Line(w2, q, r), type) <=> Some(Line(w, q, r), type))
    BY SentMsg
<1>9. \A x \in Peers : f2[x].state = f[x].state
    BY DEF Hosting
<1>10. ASSUME NEW x \in Peers, x # a, x # z, NEW o, NEW I, Subject(f2, w2, x, o, I)
       PROVE  Current(f2, w2, u, x, o, I)
    <2>1. OnlyAdmission(w2, x, o) => OnlyAdmission(w, x, o)
        BY <1>1, OnlySent
    <2>2. Subject(f, w, x, o, I)
        BY <1>7, <1>10, <2>1 DEF Subject
    <2>3. Current(f, w, u, x, o, I)
        BY <1>10, <2>2 DEF GoodBut
    <2>4. ASSUME NEW free \in BOOLEAN, Follows(f, w, u, x, o, I, free)
          PROVE  Follows(f2, w2, u, x, o, I, free)
        <3>1. ASSUME x \in Members(K2), Met(u, x, a)
              PROVE  UpToDate(f2, w2, u, x, K2, free)
            BY <1>4, <3>1 DEF UpToDate, Alike
        <3>2. x \notin Members(K2) => Out(f2, w2, x)
            BY <1>4 DEF Out
        <3>3. x \in Members(K) /\ Met(u, x, a) =>
                 /\ Put(Line(w, a, x), Line(w2, a, x), m)
                 /\ \A q \in Peers \ {x} : q # a => Line(w2, q, x) = Line(w, q, x)
            BY <1>10 DEF Sent
        <3>4. x \notin Members(K) => \A q \in Peers \ {x} : Line(w2, q, x) = Line(w, q, x)
            BY <1>10 DEF Sent
        <3>5. x \in Members(K) <=> x \in Members(K2)
            BY <1>10
        <3>6. Single(f, w) /\ f[a].infos = K
            BY DEF GoodBut
        <3>7. /\ x \in Members(f[a].infos) /\ Met(u, x, a) =>
                    /\ Put(Line(w, a, x), Line(w2, a, x), m)
                    /\ \A q \in Peers \ {x} : q # a => Line(w2, q, x) = Line(w, q, x)
                    /\ m.type = "infos" => UpToDate(f2, w2, u, x, m.body, free)
                    /\ m.type = "destroy" => Out(f2, w2, x)
              /\ x \notin Members(f[a].infos) =>
                    /\ \A q \in Peers \ {x} : Line(w2, q, x) = Line(w, q, x)
                    /\ Out(f2, w2, x)
            BY <3>1, <3>2, <3>3, <3>4, <3>5, <3>6
        <3> QED
            BY <1>1, <1>10, <2>4, <3>6, <3>7, FollowsTold
    <2>5. Updating(w2, x) <=> Updating(w, x)
        BY <1>5 DEF Updating
    <2> QED
        BY <2>3, <2>4, <2>5 DEF Current
<1>11. AllFollow(f2, w2, u)
    <2>1. \A o, I : ~Subject(f2, w2, a, o, I)
        BY DEF Subject, Hosting
    <2> QED
        BY <1>10, <2>1 DEF AllFollow
<1>12. ASSUME NEW x \in Peers, f2[x].state \in {"hosting", "joining"}, ~Admitted(w2, x), x # z
       PROVE  ~Told(w2, x)
    <2>1. ~Admitted(w, x) /\ f[x].state \in {"hosting", "joining"}
        BY <1>7, <1>9, <1>12
    <2>2. ~Told(w, x)
        BY <1>12, <2>1 DEF GoodBut
    <2>3. ASSUME x \in to, Met(u, a, x)
          PROVE  FALSE
        <3>1. x \in Members(K) /\ x # a
            BY <1>12, <2>3
        <3>2. HeldSeat(f, w, a, x)
            BY <1>3, <1>12, <3>1 DEF GoodBut
        <3>3. ~Hosting(f, x)
            BY <3>1 DEF GoodBut, Single
        <3>4. ~InIt(f, x)
            BY <2>1, <3>3 DEF InIt, Hosting
        <3>5. ~Leaving(w, x)
            BY <2>1 DEF GoodBut, Leavers
        <3> QED
            BY <2>1, <2>3, <3>1, <3>2, <3>4, <3>5 DEF HeldSeat
    <2> QED
        BY <1>6, <2>2, <2>3
<1>13. Untold(f2, w2)
    BY <1>12 DEF Untold
<1>14. ASSUME NEW x \in Peers, f2[x].state = "joining"
       PROVE  x # a /\ f[x] = f2[x] /\ new2[x] = new[x]
    BY <1>14 DEF Hosting
<1>15. Requests(f2, w2)
    BY <1>8, <1>14 DEF GoodBut, Requests
<1>16. ASSUME NEW x \in Peers, x \in Members(K2)
       PROVE  HeldSeat(f2, w2, a, x)
    <2>1. CASE x = a
        BY <2>1 DEF HeldSeat, InIt, Hosting
    <2>2. CASE x = z /\ x # a
        BY <1>16, <2>2
    <2>3. CASE x # z /\ x # a
        <3>1. HeldSeat(f, w, a, x)
            BY <1>3, <1>16, <2>3 DEF GoodBut
        <3>2. Leaving(w, x) => Leaving(w2, x)
            BY <1>5 DEF Leaving
        <3>3. Some(Line(w, x, a), "eof") => Some(Line(w2, x, a), "eof")
            BY <1>8, <2>3
        <3> QED
            BY <1>7, <1>9, <3>1, <3>2, <3>3 DEF HeldSeat, InIt
    <2> QED
        BY <2>1, <2>2, <2>3
<1>17. Seats(f2, w2)
    BY <1>4, <1>16 DEF Seats
<1>18. Leavers(f2, w2)
    BY <1>5, <1>9 DEF GoodBut, Leavers, Leaving
<1>19. NotOwn(f2)
    BY DEF GoodBut, NotOwn, Hosting
<1>20. Addressed(w2)
    BY SentAddressed DEF GoodBut
<1>21. Settling(f2, w2, u)
    BY <1>2, <1>11, <1>13, <1>15, <1>17, <1>18, <1>19, <1>20 DEF Settling
<1>22. Seated(f2, new2)
    BY DEF GoodBut, Seated
<1>23. ASSUME NEW x \in Peers, new2[x] # 0, Heeded(f2, w2, x), x \in Members(K2)
       PROVE  KeptBy(w2, x, a, K2, new2[x])
    <2>1. CASE x = z
        BY <1>23, <2>1
    <2>2. CASE x # z
        <3>1. Heeded(f, w, x)
            BY <1>7, <1>9, <1>23 DEF Heeded, InIt
        <3>2. x \in Members(K) /\ K2.roster[x] = K.roster[x] /\ new2[x] = new[x]
            BY <1>23, <2>2
        <3>3. KeptBy(w, x, a, K, new[x])
            BY <1>3, <1>23, <2>2, <3>1, <3>2 DEF GoodBut
        <3>4. KeptBy(w2, x, a, K, new[x])
            BY <3>3, KeptSent
        <3> QED
            BY <3>2, <3>4 DEF KeptBy
    <2> QED
        BY <2>1, <2>2
<1>24. Kept(f2, w2, new2)
    BY <1>4, <1>23 DEF Kept
<1>25. ASSUME NEW x \in Peers, f2[x].state = "joining", new2[x] # 0
       PROVE  f2[x].infos.owner # None /\ AskedBefore(Line(w2, x, f2[x].infos.owner), new2[x])
    <2>1. f2[x] = f[x] /\ new2[x] = new[x]
        BY <1>14, <1>25
    <2>2. f[x].infos.owner # None /\ AskedBefore(Line(w, x, f[x].infos.owner), new[x])
        BY <1>25, <2>1 DEF GoodBut, Asked
    <2>3. f[x].infos.owner \in Peers \ {x}
        BY <1>25, <2>1, <2>2, OwnerIs DEF GoodBut
    <2> QED
        BY <2>1, <2>2, <2>3, AskedSent
<1> QED
    BY <1>21, <1>22, <1>24, <1>25 DEF Good, Asked

(* Nobody's end is under way to one that it has still met.                    *)
NoEnd(w, u) ==
    \A x \in Peers : \A y \in Peers \ {x} : Met(u, x, y) => ~Some(Line(w, y, x), "eof")

(* The host a tells the others on the roster what is new, which is about z.   *)
Announces(f, f2, w, w2, u, a, z) ==
    /\ Hosting(f, a) /\ Hosting(f2, a) /\ f2[a].infos.owner = a /\ a \in Members(f2[a].infos)
    /\ \A x \in Peers \ {a} : f2[x] = f[x]
    /\ \A x \in Peers \ {z} :
         /\ x \in Members(f2[a].infos) <=> x \in Members(f[a].infos)
         /\ x \in Members(f2[a].infos) => f2[a].infos.roster[x] = f[a].infos.roster[x]
    /\ \E m : /\ m.type = "infos" /\ m.body = f2[a].infos
              /\ Sent(w, w2, u, a, Members(f2[a].infos) \ {a}, m)

LEMMA NoEndRead ==
    ASSUME NEW w, NEW w2, NEW u, NoEnd(w, u), NEW q \in Peers, NEW p \in Peers \ {q}, NEW m,
           Read(w, w2, q, p, m)
    PROVE  NoEnd(w2, u)
<1>1. \A x \in Peers : \A y \in Peers \ {x} :
         Some(Line(w2, x, y), "eof") => Some(Line(w, x, y), "eof")
    BY ReadMsg
<1> QED
    BY <1>1 DEF NoEnd

LEMMA NoEndSent ==
    ASSUME NEW w, NEW w2, NEW u, NoEnd(w, u), NEW p \in Peers, NEW to, NEW m,
           Sent(w, w2, u, p, to, m), m.type # "eof"
    PROVE  NoEnd(w2, u)
<1>1. \A x \in Peers : \A y \in Peers \ {x} :
         Some(Line(w2, x, y), "eof") => Some(Line(w, x, y), "eof")
    BY SentMsg
<1> QED
    BY <1>1 DEF NoEnd

LEMMA HostAnnounces ==
    ASSUME NEW f, NEW f2, NEW w, NEW w2, NEW u, NEW new, NEW new2, EntriesAre(f),
           NEW z \in Peers, GoodBut(f, w, u, new, z), NEW a \in Peers,
           Announces(f, f2, w, w2, u, a, z), NoEnd(w, u),
           \A x \in Peers \ {a} : new2[x] = new[x], z # a => new2[a] = new[a],
           z # a => /\ \A o, I : Subject(f2, w2, z, o, I) => Current(f2, w2, u, z, o, I)
                    /\ z \in Members(f2[a].infos) => HeldSeat(f2, w2, a, z),
           f2[z].state \in {"hosting", "joining"} /\ ~Admitted(w2, z) => ~Told(w2, z),
           new2[z] # 0 /\ Heeded(f2, w2, z) /\ z \in Members(f2[a].infos) =>
               KeptBy(w2, z, a, f2[a].infos, new2[z])
    PROVE  Good(f2, w2, u, new2)
<1> DEFINE K == f[a].infos
           K2 == f2[a].infos
           to == Members(K2) \ {a}
<1>1. PICK m : m.type = "infos" /\ m.body = K2 /\ Sent(w, w2, u, a, to, m)
    BY DEF Announces
<1>2. \A x : x \in to <=> x \in Members(K2) /\ x # a
    OBVIOUS
<1>3. \A x \in Peers : Met(u, x, a) <=> Met(u, a, x)
    BY DEF Met
<1>4. \A x \in Peers \ {a} : Met(u, a, x) => ~Some(Line(w, x, a), "eof")
    BY DEF NoEnd
<1>5. /\ Hosting(f, a) /\ Hosting(f2, a) /\ K2.owner = a /\ a \in Members(K2)
      /\ \A x \in Peers \ {a} : f2[x] = f[x] /\ new2[x] = new[x]
      /\ f[a].infos = K /\ f2[a].infos = K2
    BY DEF Announces
<1>6. \A x \in Peers \ {z} : /\ x \in Members(K2) <=> x \in Members(K)
                             /\ x \in Members(K2) => K2.roster[x] = K.roster[x]
                             /\ new2[x] = new[x]
    BY DEF Announces
<1>7. /\ z # a => /\ \A o, I : Subject(f2, w2, z, o, I) => Current(f2, w2, u, z, o, I)
                  /\ z \in Members(K2) => HeldSeat(f2, w2, a, z)
      /\ f2[z].state \in {"hosting", "joining"} /\ ~Admitted(w2, z) => ~Told(w2, z)
      /\ new2[z] # 0 /\ Heeded(f2, w2, z) /\ z \in Members(K2) =>
             KeptBy(w2, z, a, K2, new2[z])
    OBVIOUS
<1> HIDE DEF K, K2, to
<1> QED
    BY <1>1, <1>2, <1>3, <1>4, <1>5, <1>6, <1>7, HostSays

(* What the others get of it.                                                *)
LEMMA Announced ==
    ASSUME NEW f, NEW f2, NEW w, NEW w2, NEW u, NEW a \in Peers, NEW z,
           Announces(f, f2, w, w2, u, a, z)
    PROVE  /\ \A x \in Peers :
                Told(w2, x) => Told(w, x) \/ (x \in Members(f2[a].infos) /\ x # a /\ Met(u, a, x))
           /\ \A x \in Peers : Admitted(w2, x) <=> Admitted(w, x)
           /\ \A x \in Peers : \A type : type # "infos" => (Sends(w2, x, type) <=> Sends(w, x, type))
           /\ \A q \in Peers : \A r \in Peers \ {q} : \A type : type # "infos" =>
                (Some(Line(w2, q, r), type) <=> Some(Line(w, q, r), type))
           /\ \A x \in Peers : \A o : OnlyAdmission(w2, x, o) => OnlyAdmission(w, x, o)
           /\ \A x \in Peers : f2[x].state = f[x].state
<1> DEFINE to == Members(f2[a].infos) \ {a}
<1>1. PICK m : m.type = "infos" /\ m.body = f2[a].infos /\ Sent(w, w2, u, a, to, m)
    BY DEF Announces
<1>2. \A x : x \in to <=> x \in Members(f2[a].infos) /\ x # a
    OBVIOUS
<1> HIDE DEF to
<1>3. ~IsAdmission(m)
    BY <1>1 DEF IsAdmission
<1>4. \A x \in Peers : Told(w2, x) => Told(w, x) \/ (x \in to /\ Met(u, a, x))
    BY <1>1, SentTold
<1>5. \A x \in Peers : Admitted(w2, x) <=> Admitted(w, x)
    BY <1>1, <1>3, SentAdmitted
<1>6. \A x \in Peers : \A type : type # "infos" => (Sends(w2, x, type) <=> Sends(w, x, type))
    BY <1>1, SentSends
<1>7. \A q \in Peers : \A r \in Peers \ {q} : \A type : type # "infos" =>
         (Some(Line(w2, q, r), type) <=> Some(Line(w, q, r), type))
    BY <1>1, SentMsg
<1>8. ASSUME NEW x \in Peers, NEW o, OnlyAdmission(w2, x, o)
      PROVE  OnlyAdmission(w, x, o)
    BY <1>1, <1>3, <1>8, OnlySent
<1>9. \A x \in Peers : f2[x].state = f[x].state
    BY DEF Announces, Hosting
<1> QED
    BY <1>2, <1>4, <1>5, <1>6, <1>7, <1>8, <1>9

LEMMA AnnouncedOthers ==
    ASSUME NEW f, NEW f2, NEW w, NEW w2, NEW u, NEW a, NEW z, Announces(f, f2, w, w2, u, a, z),
           NEW x \in Peers, x # a
    PROVE  \A r \in Peers \ {x} : Line(w2, x, r) = Line(w, x, r)
    BY DEF Announces, Sent

(* Who has no seat any more is told nothing of it.                            *)
LEMMA HostUnseats ==
    ASSUME NEW f, NEW f2, NEW w, NEW w2, NEW u, NEW new, EntriesAre(f),
           NEW a \in Peers, NEW z \in Peers \ {a}, GoodBut(f, w, u, new, z),
           Announces(f, f2, w, w2, u, a, z), NoEnd(w, u), z \notin Members(f2[a].infos),
           \A o, I : Subject(f2, w2, z, o, I) => Current(f2, w2, u, z, o, I),
           f[z].state = "joining" /\ ~Admitted(w, z) => ~Told(w, z)
    PROVE  Good(f2, w2, u, new)
<1>1. f2[z].state # "hosting"
    BY DEF Announces, GoodBut, Single, Hosting
<1>2. f2[z].state \in {"hosting", "joining"} /\ ~Admitted(w2, z) => ~Told(w2, z)
    BY <1>1, Announced
<1> QED
    BY <1>2, HostAnnounces

(* A member leaves.                                                          *)
LEMMA GoodLeave ==
    ASSUME NEW f, NEW f2, NEW w, NEW w1, NEW w2, NEW u, NEW new, EntriesAre(f),
           Good(f, w, u, new), NoEnd(w, u), NEW a \in Peers, NEW z \in Peers \ {a}, NEW m,
           Read(w, w1, z, a, m), m.type = "leave", Announces(f, f2, w1, w2, u, a, z),
           z \notin Members(f2[a].infos)
    PROVE  Good(f2, w2, u, new)
<1>1. ~IsWord(m) /\ ~IsAdmission(m)
    BY DEF IsWord, IsAdmission
<1>2. GoodBut(f, w1, u, new, z)
    BY <1>1, ReadBut
<1>3. NoEnd(w1, u)
    BY NoEndRead
<1>4. f[z].state = "none"
    <2>1. Sends(w, z, "leave")
        BY ReadSends
    <2> QED
        BY <2>1 DEF Good, Settling, Leavers, Leaving
<1>5. \A o, I : ~Subject(f2, w2, z, o, I)
    BY <1>4, Announced DEF Subject
<1> QED
    BY <1>2, <1>3, <1>4, <1>5, HostUnseats

(* A member is gone.                                                         *)
LEMMA GoodGone ==
    ASSUME NEW f, NEW f2, NEW w, NEW w1, NEW w2, NEW u, NEW new, EntriesAre(f),
           Good(f, w, u, new), NoEnd(w, u), NEW a \in Peers, NEW z \in Peers \ {a}, NEW m,
           Read(w, w1, z, a, m), m.type = "eof", Announces(f, f2, w1, w2, u, a, z),
           z \notin Members(f2[a].infos),
           ~Met(u, z, a), \A q \in Peers \ {z} : Empty(Line(w, q, z))
    PROVE  Good(f2, w2, u, new)
<1>1. ~IsWord(m) /\ ~IsAdmission(m)
    BY DEF IsWord, IsAdmission
<1>2. GoodBut(f, w1, u, new, z)
    BY <1>1, ReadBut
<1>3. NoEnd(w1, u)
    BY NoEndRead
<1>4. ~Told(w, z) /\ ~Admitted(w, z) /\ \A o : ~OnlyAdmission(w, z, o)
    BY DEF Empty, Told, Some, Admitted, Admits, OnlyAdmission, OneAdmits
<1>5. Speaks(f, w, a, f[a].infos) /\ Single(f, w)
    BY DEF Speaks, Announces, Good, Settling
<1>6. ASSUME NEW o, NEW I
      PROVE  ~Subject(f, w, z, o, I)
    <2>1. SUFFICES ASSUME Subject(f, w, z, o, I)
                   PROVE  FALSE
        OBVIOUS
    <2>2. Follows(f, w, u, z, o, I, TRUE)
        BY <2>1, CurrentIs DEF Good, Settling, AllFollow
    <2>3. PICK n, h : Trail(w, z, o, n, h) /\ Ends(f, w, u, z, o, I, TRUE, n, h)
        BY <2>2 DEF Follows
    <2>4. n = 0
        BY <1>4, <2>3, TrailLength
    <2>5. ~(n > 0)
        BY <2>4
    <2>6. UpToDate(f, w, u, z, I, TRUE)
        BY <2>3, <2>5 DEF Ends
    <2>7. PICK s, K : Speaks(f, w, s, K) /\ (s = z \/ Met(u, z, s))
        BY <2>6 DEF UpToDate
    <2>8. s = a
        BY <1>5, <2>7, OneSpeaks
    <2> QED
        BY <2>7, <2>8
<1>7. \A o, I : Subject(f2, w2, z, o, I) => Subject(f, w, z, o, I)
    <2>1. \A o : OnlyAdmission(w2, z, o) => OnlyAdmission(w1, z, o)
        BY Announced
    <2>2. \A o : OnlyAdmission(w1, z, o) => OnlyAdmission(w, z, o)
        BY <1>1, OnlyRead
    <2>3. f2[z] = f[z]
        BY DEF Announces
    <2> QED
        BY <1>4, <2>1, <2>2, <2>3 DEF Subject
<1>8. ~Told(w1, z)
    BY <1>4, ReadTold
<1> QED
    BY <1>2, <1>3, <1>6, <1>7, <1>8, HostUnseats

(* It is what is said from then on.                                          *)
LEMMA AnnouncedSaid ==
    ASSUME NEW f, NEW f2, NEW w, NEW w2, NEW u, NEW a \in Peers, NEW z,
           Announces(f, f2, w, w2, u, a, z), Single(f, w)
    PROVE  /\ Single(f2, w2)
           /\ \A s, K : Speaks(f2, w2, s, K) <=> s = a /\ K = f2[a].infos
<1> DEFINE to == Members(f2[a].infos) \ {a}
<1>1. PICK m : m.type = "infos" /\ m.body = f2[a].infos /\ Sent(w, w2, u, a, to, m)
    BY DEF Announces
<1>2. \A r \in to : ~IsNaming(m, r)
    BY <1>1 DEF IsNaming, Announces
<1> HIDE DEF to
<1>3. \A x \in Peers : Hosting(f2, x) => Hosting(f, x)
    BY DEF Announces, Hosting
<1>4. Single(f2, w2)
    BY <1>1, <1>2, <1>3, SingleSent
<1>5. Hosting(f2, a)
    BY DEF Announces
<1>6. \A s, K : Speaks(f2, w2, s, K) <=> s = a /\ K = f2[a].infos
    BY <1>4, <1>5, SpeaksAnew
<1> QED
    BY <1>4, <1>6

LEMMA AnnouncedLines ==
    ASSUME NEW f, NEW f2, NEW w, NEW w2, NEW u, NEW a \in Peers, NEW z,
           Announces(f, f2, w, w2, u, a, z), NEW x \in Peers \ {a}
    PROVE  IF x \in Members(f2[a].infos) /\ Met(u, a, x)
           THEN \E m : /\ m.type = "infos" /\ m.body = f2[a].infos
                       /\ Put(Line(w, a, x), Line(w2, a, x), m)
                       /\ \A q \in Peers \ {x} : q # a => Line(w2, q, x) = Line(w, q, x)
           ELSE \A q \in Peers \ {x} : Line(w2, q, x) = Line(w, q, x)
<1> DEFINE to == Members(f2[a].infos) \ {a}
<1>1. PICK m : m.type = "infos" /\ m.body = f2[a].infos /\ Sent(w, w2, u, a, to, m)
    BY DEF Announces
<1>2. x \in to <=> x \in Members(f2[a].infos)
    OBVIOUS
<1> HIDE DEF to
<1>3. x \in to /\ Met(u, a, x) => Put(Line(w, a, x), Line(w2, a, x), m)
    BY <1>1 DEF Sent
<1>4. \A q \in Peers \ {x} : ~(q = a /\ x \in to /\ Met(u, a, x)) => Line(w2, q, x) = Line(w, q, x)
    BY <1>1 DEF Sent
<1> QED
    BY <1>1, <1>2, <1>3, <1>4

(* The host changes the settings and what its own attributes are.             *)
LEMMA GoodSettings ==
    ASSUME NEW f, NEW f2, NEW w, NEW w2, NEW u, NEW new, NEW new2, EntriesAre(f),
           Good(f, w, u, new), NoEnd(w, u), NEW a \in Peers, Announces(f, f2, w, w2, u, a, a),
           \A x \in Peers \ {a} : new2[x] = new[x],
           new2[a] # 0 /\ Heeded(f2, w2, a) => KeptBy(w2, a, a, f2[a].infos, new2[a])
    PROVE  Good(f2, w2, u, new2)
<1>1. GoodBut(f, w, u, new, a)
    BY ButAll
<1>2. f[a].state = "hosting" /\ f2[a].state = "hosting"
    BY DEF Announces, Hosting
<1>3. ~Admitted(w2, a) => ~Told(w2, a)
    <2>1. ~Admitted(w, a) => ~Told(w, a)
        BY <1>2 DEF Good, Settling, Untold
    <2>2. Admitted(w2, a) <=> Admitted(w, a)
        BY Announced
    <2>3. Told(w2, a) => Told(w, a) \/ (a \in Members(f2[a].infos) /\ a # a /\ Met(u, a, a))
        BY Announced
    <2> QED
        BY <2>1, <2>2, <2>3
<1> QED
    BY <1>1, <1>3, HostAnnounces

(* The heir tells the others that it hosts now.                               *)
LEMMA GoodHeir ==
    ASSUME NEW f, NEW w, NEW w2, NEW u, NEW new, EntriesAre(f),
           Good(f, w, u, new), NoEnd(w, u), NEW a \in Peers, Announces(f, f, w, w2, u, a, a)
    PROVE  Good(f, w2, u, new)
<1>1. ASSUME new[a] # 0, Heeded(f, w2, a)
      PROVE  KeptBy(w2, a, a, f[a].infos, new[a])
    <2>1. Heeded(f, w, a)
        BY <1>1, Announced DEF Heeded
    <2>2. Speaks(f, w, a, f[a].infos) /\ a \in Members(f[a].infos)
        BY DEF Speaks, Announces
    <2>3. KeptBy(w, a, a, f[a].infos, new[a])
        BY <1>1, <2>1, <2>2 DEF Good, Kept
    <2>4. \A r \in Peers \ {a} : Some(Line(w2, a, r), "update") <=> Some(Line(w, a, r), "update")
        BY Announced
    <2>5. Updating(w2, a) <=> Updating(w, a)
        BY <2>4 DEF Updating, Sends
    <2> QED
        BY <2>3, <2>4, <2>5 DEF KeptBy
<1> QED
    BY <1>1, GoodSettings

(* The host puts out one that has a seat.                                     *)
LEMMA GoodKick ==
    ASSUME NEW f, NEW f2, NEW w, NEW w1, NEW w2, NEW u, NEW new, EntriesAre(f),
           Good(f, w, u, new), NoEnd(w, u), NEW a \in Peers, NEW z \in Peers \ {a}, NEW m,
           Sent(w, w1, u, a, {z}, m), m.type = "destroy", Announces(f, f2, w1, w2, u, a, z),
           z \in Members(f[a].infos), z \notin Members(f2[a].infos)
    PROVE  Good(f2, w2, u, new)
<1> DEFINE to == {z}
<1>1. Sent(w, w1, u, a, to, m) /\ (\A x : x \in to <=> x = z)
    OBVIOUS
<1>2. GoodBut(f, w, u, new, z)
    BY ButAll
<1>3. GoodBut(f, w1, u, new, z) /\ (\A s, K : Speaks(f, w1, s, K) <=> Speaks(f, w, s, K))
    BY <1>2, SentBut
<1> HIDE DEF to
<1>4. NoEnd(w1, u)
    BY <1>1, NoEndSent
<1>5. IsWord(m) /\ ~IsAdmission(m) /\ Single(f, w) /\ Hosting(f, a) /\ z # a
    BY DEF IsWord, IsAdmission, Good, Settling, Announces
<1>6. Speaks(f, w, a, f[a].infos)
    BY DEF Speaks, Announces
<1>7. f[z].state # "hosting"
    BY <1>5 DEF Single, Hosting
<1>8. ASSUME f[z].state = "joining", ~Admitted(w1, z)
      PROVE  ~Told(w1, z)
    <2>1. ~Admitted(w, z)
        BY <1>1, <1>8, SentAdmitted
    <2>2. ~Told(w, z)
        BY <1>8, <2>1 DEF Good, Settling, Untold
    <2>3. HeldSeat(f, w, a, z)
        BY <1>6 DEF Good, Settling, Seats
    <2>4. ~Leaving(w, z)
        BY <1>8 DEF Good, Settling, Leavers
    <2>5. Some(Line(w, z, a), "eof")
        BY <1>8, <2>1, <2>3, <2>4 DEF HeldSeat, InIt
    <2>6. ~Met(u, a, z)
        BY <2>5 DEF NoEnd
    <2> QED
        BY <1>1, <2>2, <2>6, SentTold
<1>9. \A s, K : Speaks(f2, w2, s, K) => K = f2[a].infos
    BY <1>3, AnnouncedSaid DEF GoodBut
<1>10. Out(f2, w2, z)
    BY <1>9 DEF Out
<1>11. \A q \in Peers \ {z} : Line(w2, q, z) = Line(w1, q, z)
    BY AnnouncedLines
<1>12. ASSUME NEW o, NEW I, Subject(f2, w2, z, o, I)
       PROVE  Current(f2, w2, u, z, o, I)
    <2>1. OnlyAdmission(w2, z, o) => OnlyAdmission(w1, z, o)
        BY Announced
    <2>2. OnlyAdmission(w1, z, o) => OnlyAdmission(w, z, o)
        BY <1>1, <1>5, OnlySent
    <2>3. Admitted(w2, z) <=> Admitted(w1, z)
        BY Announced
    <2>4. Admitted(w1, z) <=> Admitted(w, z)
        BY <1>1, <1>5, SentAdmitted
    <2>5. f2[z] = f[z]
        BY DEF Announces
    <2>6. Subject(f, w, z, o, I)
        BY <1>12, <2>1, <2>2, <2>3, <2>4, <2>5 DEF Subject
    <2>7. Follows(f, w, u, z, o, I, TRUE)
        BY <2>6, CurrentIs DEF Good, Settling, AllFollow
    <2>8. Met(u, z, a) => /\ Put(Line(w, a, z), Line(w2, a, z), m)
                          /\ \A q \in Peers \ {z} : q # a => Line(w2, q, z) = Line(w, q, z)
        BY <1>1, <1>11 DEF Sent, Met
    <2>9. ASSUME NEW free \in BOOLEAN, NEW free2 \in BOOLEAN, Follows(f, w, u, z, o, I, free)
          PROVE  Follows(f2, w2, u, z, o, I, free2)
        <3>1. /\ z \in Members(f[a].infos) /\ Met(u, z, a) =>
                    /\ Put(Line(w, a, z), Line(w2, a, z), m)
                    /\ \A q \in Peers \ {z} : q # a => Line(w2, q, z) = Line(w, q, z)
                    /\ m.type = "infos" => UpToDate(f2, w2, u, z, m.body, free2)
                    /\ m.type = "destroy" => Out(f2, w2, z)
              /\ z \notin Members(f[a].infos) =>
                    /\ \A q \in Peers \ {z} : Line(w2, q, z) = Line(w, q, z)
                    /\ Out(f2, w2, z)
            BY <1>10, <2>8
        <3>2. a \in Peers \ {z}
            OBVIOUS
        <3> QED
            BY <1>5, <2>9, <3>1, <3>2, FollowsTold
    <2>10. Follows(f2, w2, u, z, o, I, FALSE)
        BY <2>7, <2>9
    <2> QED
        BY <2>10, CurrentIs
<1> QED
    BY <1>3, <1>4, <1>8, <1>12, HostUnseats

(* Who keeps its seat will have it as the host says.                          *)
LEMMA FollowsAnnounced ==
    ASSUME NEW f, NEW f2, NEW w, NEW w2, NEW u, NEW a \in Peers, NEW z,
           Announces(f, f2, w, w2, u, a, z), Single(f, w), NEW x \in Peers, x # a,
           x \in Members(f[a].infos), x \in Members(f2[a].infos),
           NEW o, NEW I, NEW free \in BOOLEAN, NEW free2 \in BOOLEAN,
           Follows(f, w, u, x, o, I, free)
    PROVE  Follows(f2, w2, u, x, o, I, free2)
<1> DEFINE to == Members(f2[a].infos) \ {a}
<1>1. PICK m : m.type = "infos" /\ m.body = f2[a].infos /\ Sent(w, w2, u, a, to, m)
    BY DEF Announces
<1>2. x \in to /\ IsWord(m) /\ m.type # "destroy"
    BY <1>1 DEF IsWord
<1> HIDE DEF to
<1>3. \A s, K : Speaks(f2, w2, s, K) <=> s = a /\ K = f2[a].infos
    BY AnnouncedSaid
<1>4. Met(u, x, a) => UpToDate(f2, w2, u, x, m.body, free2)
    BY <1>1, <1>3 DEF UpToDate, Alike, Announces
<1>5. Met(u, x, a) => /\ Put(Line(w, a, x), Line(w2, a, x), m)
                      /\ \A q \in Peers \ {x} : q # a => Line(w2, q, x) = Line(w, q, x)
    BY <1>1, <1>2 DEF Sent, Met
<1>6. Hosting(f, a) /\ a \in Peers \ {x}
    BY DEF Announces
<1>7. /\ x \in Members(f[a].infos) /\ Met(u, x, a) =>
            /\ Put(Line(w, a, x), Line(w2, a, x), m)
            /\ \A q \in Peers \ {x} : q # a => Line(w2, q, x) = Line(w, q, x)
            /\ m.type = "infos" => UpToDate(f2, w2, u, x, m.body, free2)
            /\ m.type = "destroy" => Out(f2, w2, x)
      /\ x \notin Members(f[a].infos) =>
            /\ \A q \in Peers \ {x} : Line(w2, q, x) = Line(w, q, x)
            /\ Out(f2, w2, x)
    BY <1>2, <1>4, <1>5
<1>8. IsWord(m)
    BY <1>2
<1> QED
    BY <1>6, <1>7, <1>8, FollowsTold

(* The host takes a member's attributes from it.                              *)
LEMMA GoodRenewed ==
    ASSUME NEW f, NEW f2, NEW w, NEW w1, NEW w2, NEW u, NEW new, EntriesAre(f),
           Good(f, w, u, new), NoEnd(w, u), NEW a \in Peers, NEW z \in Peers \ {a}, NEW m,
           Read(w, w1, z, a, m), m.type = "update", Announces(f, f2, w1, w2, u, a, z),
           z \in Members(f[a].infos), z \in Members(f2[a].infos), f2[a].infos.roster[z] = m.body
    PROVE  Good(f2, w2, u, new)
<1>1. ~IsWord(m) /\ ~IsAdmission(m) /\ z # a
    BY DEF IsWord, IsAdmission
<1>2. GoodBut(f, w1, u, new, z) /\ (\A s, K : Speaks(f, w1, s, K) <=> Speaks(f, w, s, K))
    BY <1>1, ReadBut
<1>3. NoEnd(w1, u)
    BY NoEndRead
<1>4. /\ Speaks(f, w, a, f[a].infos) /\ Single(f, w) /\ Hosting(f, a)
      /\ f2[z] = f[z]
    BY DEF Speaks, Announces, Good, Settling
<1>5. \A s, K : Speaks(f2, w2, s, K) <=> s = a /\ K = f2[a].infos
    BY <1>2, AnnouncedSaid DEF GoodBut
<1>6. Admitted(w2, z) <=> Admitted(w, z)
    <2>1. Admitted(w2, z) <=> Admitted(w1, z)
        BY Announced
    <2>2. Admitted(w1, z) <=> Admitted(w, z)
        BY <1>1, ReadAdmitted
    <2> QED
        BY <2>1, <2>2
<1>7. \A o : OnlyAdmission(w2, z, o) => OnlyAdmission(w, z, o)
    <2>1. \A o : OnlyAdmission(w2, z, o) => OnlyAdmission(w1, z, o)
        BY Announced
    <2>2. \A o : OnlyAdmission(w1, z, o) => OnlyAdmission(w, z, o)
        BY <1>1, OnlyRead
    <2> QED
        BY <2>1, <2>2
<1>8. HeldSeat(f, w, a, z)
    BY <1>4 DEF Good, Settling, Seats
<1>9. HeldSeat(f2, w2, a, z)
    <2>1. Leaving(w2, z) <=> Leaving(w1, z)
        BY Announced DEF Leaving
    <2>2. Leaving(w, z) => Leaving(w1, z)
        BY ReadSends DEF Leaving
    <2>3. Some(Line(w2, z, a), "eof") <=> Some(Line(w1, z, a), "eof")
        BY Announced
    <2>4. Some(Line(w, z, a), "eof") => Some(Line(w1, z, a), "eof")
        BY ReadMsg
    <2> QED
        BY <1>4, <1>6, <1>8, <2>1, <2>2, <2>3, <2>4 DEF HeldSeat, InIt
<1>10. ASSUME f2[z].state \in {"hosting", "joining"}, ~Admitted(w2, z)
       PROVE  ~Told(w2, z)
    <2>1. f[z].state = "joining"
        BY <1>1, <1>4, <1>10 DEF Single, Hosting
    <2>2. ~Told(w, z)
        BY <1>6, <1>10, <2>1 DEF Good, Settling, Untold
    <2>3. ~Leaving(w, z)
        BY <2>1 DEF Good, Settling, Leavers
    <2>4. Some(Line(w, z, a), "eof")
        BY <1>6, <1>8, <1>10, <2>1, <2>3 DEF HeldSeat, InIt
    <2>5. ~Met(u, a, z)
        BY <2>4 DEF NoEnd
    <2>6. Told(w2, z) => Told(w1, z)
        BY <2>5, Announced
    <2>7. Told(w1, z) => Told(w, z)
        BY ReadTold
    <2> QED
        BY <2>2, <2>6, <2>7
<1>11. ASSUME NEW o, NEW I, Subject(f2, w2, z, o, I)
       PROVE  Current(f2, w2, u, z, o, I)
    <2>1. Subject(f, w, z, o, I)
        BY <1>4, <1>6, <1>7, <1>11 DEF Subject
    <2>2. Follows(f, w, u, z, o, I, TRUE)
        BY <2>1, CurrentIs DEF Good, Settling, AllFollow
    <2>3. ASSUME NEW free \in BOOLEAN, NEW free2 \in BOOLEAN, Follows(f, w, u, z, o, I, free)
          PROVE  Follows(f2, w2, u, z, o, I, free2)
        <3>1. \A n, h : Trail(w, z, o, n, h) => Trail(w1, z, o, n, h)
            BY <1>1, TrailRead
        <3>2. Follows(f, w1, u, z, o, I, free)
            BY <1>2, <2>3, <3>1, FollowsSame
        <3>3. Single(f, w1)
            BY <1>2 DEF GoodBut
        <3> QED
            BY <1>1, <3>2, <3>3, FollowsAnnounced
    <2>4. Follows(f2, w2, u, z, o, I, FALSE)
        BY <2>2, <2>3
    <2> QED
        BY <2>4, CurrentIs
<1>12. ASSUME new[z] # 0, Heeded(f2, w2, z)
       PROVE  KeptBy(w2, z, a, f2[a].infos, new[z])
    <2>1. Heeded(f, w, z)
        BY <1>4, <1>6, <1>12 DEF Heeded, InIt
    <2>2. KeptBy(w, z, a, f[a].infos, new[z])
        BY <1>4, <1>12, <2>1 DEF Good, Kept
    <2>3. Updating(w, z)
        BY ReadSends DEF Updating
    <2>4. \A r \in Peers \ {z} : Line(w2, z, r) = Line(w1, z, r)
        BY <1>1, AnnouncedOthers
    <2>5. \A r \in Peers \ {z} : r # a => Line(w1, z, r) = Line(w, z, r)
        BY DEF Read
    <2>6. LastUpdate(Line(w, z, a), new[z]) =>
             \/ LastUpdate(Line(w1, z, a), new[z])
             \/ new[z] \in m.body /\ ~Some(Line(w1, z, a), "update")
        <3>1. Took(Line(w, z, a), Line(w1, z, a), m)
            BY DEF Read
        <3> QED
            BY <3>1, TookUpdate
    <2>7. CASE \E r \in Peers \ {z} : r # a /\ Some(Line(w, z, r), "update")
        BY <2>4, <2>5, <2>7 DEF KeptBy
    <2>8. CASE ~\E r \in Peers \ {z} : r # a /\ Some(Line(w, z, r), "update")
        <3>1. LastUpdate(Line(w, z, a), new[z])
            BY <2>2, <2>3, <2>8 DEF KeptBy
        <3>2. CASE LastUpdate(Line(w1, z, a), new[z])
            BY <1>1, <2>4, <3>2 DEF KeptBy
        <3>3. CASE new[z] \in m.body /\ ~Some(Line(w1, z, a), "update")
            <4>1. ~Updating(w2, z)
                BY <2>4, <2>5, <2>8, <3>3 DEF Updating, Sends
            <4> QED
                BY <3>3, <4>1 DEF KeptBy
        <3> QED
            BY <2>6, <3>1, <3>2, <3>3
    <2> QED
        BY <2>7, <2>8
<1> QED
    BY <1>2, <1>3, <1>9, <1>10, <1>11, <1>12, HostAnnounces

(* The host lets in one that has asked, or tells a member again that it is in.  *)
LEMMA GoodAdmits ==
    ASSUME NEW f, NEW f2, NEW w, NEW w1, NEW w2, NEW w3, NEW u, NEW new, EntriesAre(f),
           Good(f, w, u, new), NoEnd(w, u), NEW a \in Peers, NEW z \in Peers \ {a}, Met(u, a, z),
           NEW m, Read(w, w1, z, a, m), m.type = "request",
           NEW m2, Sent(w1, w2, u, a, {z}, m2), IsAdmission(m2),
           Announces(f, f2, w2, w3, u, a, z), z \in Members(f2[a].infos)
    PROVE  Good(f2, w3, u, new)
<1> DEFINE to == {z}
<1>1. Sent(w1, w2, u, a, to, m2) /\ (\A x : x \in to <=> x = z) /\ z \in Peers /\ z # a
    OBVIOUS
<1>2. ~IsWord(m) /\ ~IsAdmission(m) /\ ~IsWord(m2) /\ m2.type = "response"
    BY DEF IsWord, IsAdmission
<1>3. GoodBut(f, w1, u, new, z) /\ (\A s, K : Speaks(f, w1, s, K) <=> Speaks(f, w, s, K))
    BY <1>2, ReadBut
<1>4. Some(Line(w, z, a), "request")
    BY ReadMsg
<1>5. f[z].state = "joining" => f[z].infos.owner \in {None, a}
    BY <1>4 DEF Good, Settling, Requests
<1>6. GoodBut(f, w2, u, new, z)
    BY <1>2, <1>3, <1>5, SentBut
<1> HIDE DEF to
<1>7. NoEnd(w2, u)
    <2>1. NoEnd(w1, u)
        BY NoEndRead
    <2> QED
        BY <1>1, <1>2, <2>1, NoEndSent
<1>8. Admitted(w3, z)
    <2>1. Admitted(w2, z)
        BY <1>1, SentAdmitted
    <2> QED
        BY <2>1, Announced
<1>9. f2[z] = f[z] /\ Single(f, w2)
    BY <1>6 DEF Announces, GoodBut
<1>10. ASSUME NEW o, NEW I, Subject(f2, w3, z, o, I)
       PROVE  Current(f2, w3, u, z, o, I)
    <2>1. f[z].state = "joining" /\ OnlyAdmission(w3, z, o) /\ I = NoInfos
        BY <1>8, <1>9, <1>10 DEF Subject
    <2>2. OnlyAdmission(w2, z, o)
        BY <2>1, Announced
    <2>3. o = a /\ ~Admitted(w1, z)
        BY <1>1, <2>2, OnlySent
    <2>4. ~Admitted(w, z)
        BY <1>2, <2>3, ReadAdmitted
    <2>5. ~Told(w, z)
        BY <2>1, <2>4 DEF Good, Settling, Untold
    <2>6. ~Told(w1, z)
        BY <2>5, ReadTold
    <2>7. ~Told(w2, z)
        BY <1>1, <1>2, <2>6, SentTold
    <2>8. PICK m3 : /\ m3.type = "infos" /\ m3.body = f2[a].infos
                    /\ Put(Line(w2, a, z), Line(w3, a, z), m3)
                    /\ \A q \in Peers \ {z} : q # a => Line(w3, q, z) = Line(w2, q, z)
        BY AnnouncedLines
    <2>9. \A s, K : Speaks(f2, w3, s, K) <=> s = a /\ K = f2[a].infos
        BY <1>9, AnnouncedSaid
    <2>10. Met(u, z, a) /\ a \in Peers \ {z}
        BY DEF Met
    <2>11. UpToDate(f2, w3, u, z, m3.body, FALSE)
        BY <2>8, <2>9, <2>10 DEF UpToDate, Alike, Announces
    <2>12. Follows(f2, w3, u, z, a, NoInfos, FALSE)
        BY <2>7, <2>8, <2>10, <2>11, FollowsFirst
    <2> QED
        BY <2>1, <2>3, <2>12, CurrentIs
<1>11. HeldSeat(f2, w3, a, z)
    BY <1>8 DEF HeldSeat
<1>12. ASSUME new[z] # 0, Heeded(f2, w3, z)
       PROVE  KeptBy(w3, z, a, f2[a].infos, new[z])
    <2>1. f[z].state = "joining"
        BY <1>8, <1>9, <1>12 DEF Heeded
    <2>2. AskedBefore(Line(w, z, a), new[z])
        BY <1>5, <1>12, <2>1 DEF Good, Asked
    <2>3. Took(Line(w, z, a), Line(w1, z, a), m)
        BY DEF Read
    <2>4. LastUpdate(Line(w, z, a), new[z])
        BY <2>2, <2>3, TookUpdate
    <2>5. LastUpdate(Line(w1, z, a), new[z])
        BY <2>3, <2>4, TookUpdate
    <2>6. Line(w2, z, a) = Line(w1, z, a)
        BY <1>1 DEF Sent
    <2>7. Line(w3, z, a) = Line(w2, z, a)
        BY <1>1, AnnouncedOthers
    <2> QED
        BY <1>1, <2>5, <2>6, <2>7 DEF KeptBy
<1> QED
    BY <1>6, <1>7, <1>8, <1>10, <1>11, <1>12, HostAnnounces

LEMMA GoodMet ==
    ASSUME NEW f, NEW w, NEW u, NEW u2, NEW new, Good(f, w, u, new),
           \A x, y \in Peers : Met(u, x, y) => Met(u2, x, y)
    PROVE  Good(f, w, u2, new)
<1>1. ASSUME NEW x \in Peers, NEW o, NEW I, Subject(f, w, x, o, I)
      PROVE  Current(f, w, u2, x, o, I)
    <2>1. Current(f, w, u, x, o, I)
        BY <1>1 DEF Good, Settling, AllFollow
    <2>2. \A s, K : Speaks(f, w, s, K) /\ Met(u, x, s) => Met(u2, x, s)
        BY DEF Speaks
    <2> QED
        BY <2>1, <2>2, CurrentSame
<1>2. AllFollow(f, w, u2)
    BY <1>1 DEF AllFollow
<1> QED
    BY <1>2 DEF Good, Settling

(* Who is joining and was not let in gets nothing of what the host says.      *)
LEMMA JoinersUntold ==
    ASSUME NEW f, NEW w, NEW u, NEW new, Good(f, w, u, new), NoEnd(w, u),
           NEW a \in Peers, Hosting(f, a), NEW x \in Peers, f[x].state = "joining",
           ~Admitted(w, x), Met(u, a, x)
    PROVE  x \notin Members(f[a].infos)
<1>1. SUFFICES ASSUME x \in Members(f[a].infos)
               PROVE  FALSE
    OBVIOUS
<1>2. Speaks(f, w, a, f[a].infos)
    BY DEF Speaks
<1>3. HeldSeat(f, w, a, x)
    BY <1>1, <1>2 DEF Good, Settling, Seats
<1>4. ~Leaving(w, x)
    BY DEF Good, Settling, Leavers
<1>5. x # a
    BY DEF Hosting
<1>6. ~Some(Line(w, x, a), "eof")
    BY <1>5 DEF NoEnd
<1> QED
    BY <1>3, <1>4, <1>6 DEF HeldSeat, InIt

(* The host names its successor, while no word of a member's is under way.     *)
LEMMA GoodNames ==
    ASSUME NEW f, NEW f2, NEW w, NEW w2, NEW u, NEW new, EntriesAre(f), Good(f, w, u, new),
           NoEnd(w, u), NEW a \in Peers, Hosting(f, a),
           \A x \in Peers : \A y \in Peers \ {x} : Met(u, x, y),
           \A x \in Peers : ~Updating(w, x) /\ ~Leaving(w, x),
           NEW m, m.type = "infos", NEW to, Sent(w, w2, u, a, to, m),
           \A x : x \in to <=> x \in Members(m.body) /\ x # a,
           NEW o \in Peers \ {a}, m.body.owner = o, o \in to,
           \A x \in Peers \ {a} : x \in Members(m.body) <=> x \in Members(f[a].infos),
           \A x \in Peers : m.body.roster[x] = f[a].infos.roster[x] \/ x \notin Members(m.body),
           \A x \in Peers \ {a} : f2[x] = f[x],
           \/ f2[a].state = "joined" /\ f2[a].infos = m.body /\ a \in Members(m.body)
           \/ f2[a].state = "none" /\ a \notin Members(m.body)
    PROVE  Good(f2, w2, u, new)
<1> DEFINE K == f[a].infos
           J == m.body
<1>1. IsWord(m) /\ ~IsAdmission(m) /\ Met(u, a, o) /\ ~Hosting(f2, a)
    BY DEF IsWord, IsAdmission, Hosting
<1>2. Single(f2, w2) /\ \A s, L : Speaks(f2, w2, s, L) <=> s = o /\ L = J
    BY <1>1, SpeaksNaming DEF Good, Settling
<1>3. Speaks(f, w, a, K) /\ Single(f, w)
    BY DEF Speaks, Good, Settling
<1>4. \A x \in Peers : \A type : type # "infos" => (Sends(w2, x, type) <=> Sends(w, x, type))
    BY SentSends
<1>5. \A x \in Peers : Told(w2, x) => Told(w, x) \/ (x \in to /\ Met(u, a, x))
    BY SentTold
<1>6. \A x \in Peers : Admitted(w2, x) <=> Admitted(w, x)
    BY <1>1, SentAdmitted
<1>7. \A q \in Peers : \A r \in Peers \ {q} : \A type : type # "infos" =>
         (Some(Line(w2, q, r), type) <=> Some(Line(w, q, r), type))
    BY SentMsg
<1>8. ASSUME NEW x \in Peers, x # a, NEW p, NEW I, Subject(f2, w2, x, p, I)
      PROVE  Current(f2, w2, u, x, p, I)
    <2>1. OnlyAdmission(w2, x, p) => OnlyAdmission(w, x, p)
        BY <1>1, OnlySent
    <2>2. Subject(f, w, x, p, I)
        BY <1>6, <1>8, <2>1 DEF Subject
    <2>3. Current(f, w, u, x, p, I)
        BY <2>2 DEF Good, Settling, AllFollow
    <2>4. ASSUME NEW free \in BOOLEAN, Follows(f, w, u, x, p, I, free)
          PROVE  Follows(f2, w2, u, x, p, I, free)
        <3>1. ASSUME x \in Members(J)
              PROVE  UpToDate(f2, w2, u, x, J, free)
            <4>1. o = x \/ Met(u, x, o)
                OBVIOUS
            <4> QED
                BY <1>2, <3>1, <4>1 DEF UpToDate, Alike
        <3>2. x \notin Members(J) => Out(f2, w2, x)
            BY <1>2 DEF Out
        <3>3. x \in Members(J) =>
                 /\ Put(Line(w, a, x), Line(w2, a, x), m)
                 /\ \A q \in Peers \ {x} : q # a => Line(w2, q, x) = Line(w, q, x)
            BY <1>8 DEF Sent
        <3>4. x \notin Members(J) => \A q \in Peers \ {x} : Line(w2, q, x) = Line(w, q, x)
            BY <1>8 DEF Sent
        <3>5. x \in Members(K) <=> x \in Members(J)
            BY <1>8
        <3>6. /\ x \in Members(f[a].infos) /\ Met(u, x, a) =>
                    /\ Put(Line(w, a, x), Line(w2, a, x), m)
                    /\ \A q \in Peers \ {x} : q # a => Line(w2, q, x) = Line(w, q, x)
                    /\ m.type = "infos" => UpToDate(f2, w2, u, x, m.body, free)
                    /\ m.type = "destroy" => Out(f2, w2, x)
              /\ x \notin Members(f[a].infos) =>
                    /\ \A q \in Peers \ {x} : Line(w2, q, x) = Line(w, q, x)
                    /\ Out(f2, w2, x)
            BY <3>1, <3>2, <3>3, <3>4, <3>5
        <3>7. a \in Peers \ {x}
            BY <1>8
        <3> QED
            BY <1>1, <1>3, <1>8, <2>4, <3>6, <3>7, FollowsTold
    <2>5. Updating(w2, x) <=> Updating(w, x)
        BY <1>4 DEF Updating
    <2> QED
        BY <2>3, <2>4, <2>5 DEF Current
<1>9. ASSUME NEW p, NEW I, Subject(f2, w2, a, p, I)
      PROVE  Current(f2, w2, u, a, p, I)
    <2>1. f2[a].infos = J /\ a \in Members(J) /\ ~Admitted(w2, a) /\ I = J /\ p = o
        BY <1>9, <1>1 DEF Subject, Good, Settling, Hosting, OnlyAdmission, OneAdmits, Admitted
    <2>2. ~Told(w, a)
        BY <1>6, <2>1 DEF Good, Settling, Untold, Hosting
    <2>3. ~Told(w2, a)
        BY <1>5, <2>2
    <2>4. Met(u, a, o)
        BY <1>1
    <2>5. UpToDate(f2, w2, u, a, J, FALSE)
        BY <1>2, <2>1, <2>4 DEF UpToDate, Alike
    <2>6. Follows(f2, w2, u, a, J.owner, J, FALSE)
        BY <2>3, <2>5, FollowsFresh
    <2> QED
        BY <2>1, <2>6, CurrentIs
<1>10. AllFollow(f2, w2, u)
    BY <1>8, <1>9 DEF AllFollow
<1>11. ASSUME NEW x \in Peers, f2[x].state \in {"hosting", "joining"}, ~Admitted(w2, x)
       PROVE  ~Told(w2, x)
    <2>1. x # a /\ f2[x] = f[x]
        BY <1>11
    <2>2. f[x].state # "hosting"
        BY <1>3, <2>1 DEF Single, Hosting
    <2>3. f[x].state = "joining" /\ ~Admitted(w, x)
        BY <1>6, <1>11, <2>1, <2>2
    <2>4. ~Told(w, x)
        BY <2>3 DEF Good, Settling, Untold
    <2>5. x \notin Members(K)
        BY <2>1, <2>3, JoinersUntold
    <2> QED
        BY <1>5, <2>1, <2>4, <2>5
<1>12. Requests(f2, w2)
    BY <1>7 DEF Good, Settling, Requests
<1>13. ASSUME NEW x \in Peers, x \in Members(J)
       PROVE  HeldSeat(f2, w2, o, x)
    <2>1. CASE x = a
        BY <1>13, <2>1 DEF HeldSeat, InIt
    <2>2. CASE x # a
        <3>1. x \in Members(K)
            BY <1>13, <2>2
        <3>2. HeldSeat(f, w, a, x)
            BY <1>3, <3>1 DEF Good, Settling, Seats
        <3>3. ~Some(Line(w, x, a), "eof")
            BY <2>2 DEF NoEnd
        <3> QED
            BY <1>6, <2>2, <3>2, <3>3 DEF HeldSeat, InIt
    <2> QED
        BY <2>1, <2>2
<1>14. Seats(f2, w2)
    BY <1>2, <1>13 DEF Seats
<1>15. Leavers(f2, w2)
    BY <1>4 DEF Leavers, Leaving
<1>16. NotOwn(f2)
    BY DEF Good, Settling, NotOwn
<1>17. Addressed(w2)
    BY SentAddressed DEF Good, Settling
<1>18. Settling(f2, w2, u)
    BY <1>2, <1>10, <1>11, <1>12, <1>14, <1>15, <1>16, <1>17 DEF Settling, Untold
<1>19. Seated(f2, new)
    BY DEF Good, Seated
<1>20. ASSUME NEW x \in Peers, new[x] # 0, Heeded(f2, w2, x), x \in Members(J)
       PROVE  KeptBy(w2, x, o, J, new[x])
    <2>1. Heeded(f, w, x) /\ x \in Members(K)
        <3>1. CASE x = a
            <4>1. f[a].infos.owner = a /\ a \in Members(K)
                BY DEF EntriesAre, EntryOK, Hosting
            <4>2. ~Admitted(w, x)
                BY <1>6, <1>20, <3>1 DEF Heeded
            <4> QED
                BY <3>1, <4>1, <4>2 DEF Heeded, InIt, Hosting
        <3>2. CASE x # a
            BY <1>6, <1>20, <3>2 DEF Heeded, InIt
        <3> QED
            BY <3>1, <3>2
    <2>2. KeptBy(w, x, a, K, new[x])
        BY <1>3, <1>20, <2>1 DEF Good, Kept
    <2>3. ~Updating(w, x) /\ ~Updating(w2, x)
        BY <1>4 DEF Updating
    <2>4. new[x] \in K.roster[x]
        BY <2>2, <2>3, NoUpdate DEF KeptBy, Updating, Sends
    <2>5. J.roster[x] = K.roster[x]
        BY <1>20
    <2> QED
        BY <2>3, <2>4, <2>5 DEF KeptBy
<1>21. Kept(f2, w2, new)
    BY <1>2, <1>20 DEF Kept
<1>22. ASSUME NEW x \in Peers, f2[x].state = "joining", new[x] # 0
       PROVE  f2[x].infos.owner # None /\ AskedBefore(Line(w2, x, f2[x].infos.owner), new[x])
    <2>1. f2[x] = f[x]
        BY <1>22
    <2>2. f[x].infos.owner # None /\ AskedBefore(Line(w, x, f[x].infos.owner), new[x])
        BY <1>22, <2>1 DEF Good, Asked
    <2>3. f[x].infos.owner \in Peers \ {x}
        BY <1>22, <2>1, <2>2, OwnerIs DEF Good, Settling
    <2> QED
        BY <2>1, <2>2, <2>3, AskedSent
<1> QED
    BY <1>18, <1>19, <1>21, <1>22 DEF Good, Asked

(* The host closes it for everyone.                                          *)
LEMMA GoodCloses ==
    ASSUME NEW f, NEW f2, NEW w, NEW w2, NEW u, NEW new, EntriesAre(f), Good(f, w, u, new),
           NoEnd(w, u), NEW a \in Peers, Hosting(f, a),
           NEW m, m.type = "destroy", NEW to, Sent(w, w2, u, a, to, m),
           \A x : x \in to <=> x \in Members(f[a].infos) /\ x # a,
           \A x \in Peers \ {a} : f2[x] = f[x], f2[a].state = "none"
    PROVE  Good(f2, w2, u, new)
<1>1. IsWord(m) /\ ~IsAdmission(m) /\ ~Hosting(f2, a)
    BY DEF IsWord, IsAdmission, Hosting
<1>2. Single(f2, w2) /\ \A s, L : ~Speaks(f2, w2, s, L)
    BY <1>1, SpeaksNobody DEF Good, Settling
<1>3. Single(f, w)
    BY DEF Good, Settling
<1>4. \A x \in Peers : \A type : type # "destroy" => (Sends(w2, x, type) <=> Sends(w, x, type))
    BY SentSends
<1>5. \A x \in Peers : Told(w2, x) => Told(w, x) \/ (x \in to /\ Met(u, a, x))
    BY SentTold
<1>6. \A x \in Peers : Admitted(w2, x) <=> Admitted(w, x)
    BY <1>1, SentAdmitted
<1>7. \A q \in Peers : \A r \in Peers \ {q} : \A type : type # "destroy" =>
         (Some(Line(w2, q, r), type) <=> Some(Line(w, q, r), type))
    BY SentMsg
<1>8. ASSUME NEW x \in Peers, x # a, NEW p, NEW I, Subject(f2, w2, x, p, I)
      PROVE  Current(f2, w2, u, x, p, I)
    <2>1. OnlyAdmission(w2, x, p) => OnlyAdmission(w, x, p)
        BY <1>1, OnlySent
    <2>2. Subject(f, w, x, p, I)
        BY <1>6, <1>8, <2>1 DEF Subject
    <2>3. Current(f, w, u, x, p, I)
        BY <2>2 DEF Good, Settling, AllFollow
    <2>4. ASSUME NEW free \in BOOLEAN, Follows(f, w, u, x, p, I, free)
          PROVE  Follows(f2, w2, u, x, p, I, free)
        <3>1. Out(f2, w2, x)
            BY <1>2 DEF Out
        <3>2. x \in Members(f[a].infos) /\ Met(u, x, a) =>
                 /\ Put(Line(w, a, x), Line(w2, a, x), m)
                 /\ \A q \in Peers \ {x} : q # a => Line(w2, q, x) = Line(w, q, x)
            BY <1>8 DEF Sent, Met
        <3>3. x \notin Members(f[a].infos) => \A q \in Peers \ {x} : Line(w2, q, x) = Line(w, q, x)
            BY <1>8 DEF Sent
        <3>4. /\ x \in Members(f[a].infos) /\ Met(u, x, a) =>
                    /\ Put(Line(w, a, x), Line(w2, a, x), m)
                    /\ \A q \in Peers \ {x} : q # a => Line(w2, q, x) = Line(w, q, x)
                    /\ m.type = "infos" => UpToDate(f2, w2, u, x, m.body, free)
                    /\ m.type = "destroy" => Out(f2, w2, x)
              /\ x \notin Members(f[a].infos) =>
                    /\ \A q \in Peers \ {x} : Line(w2, q, x) = Line(w, q, x)
                    /\ Out(f2, w2, x)
            BY <3>1, <3>2, <3>3
        <3>5. a \in Peers \ {x}
            BY <1>8
        <3> QED
            BY <1>1, <1>3, <1>8, <2>4, <3>4, <3>5, FollowsTold
    <2>5. Updating(w2, x) <=> Updating(w, x)
        BY <1>4 DEF Updating
    <2> QED
        BY <2>3, <2>4, <2>5 DEF Current
<1>9. \A p, I : ~Subject(f2, w2, a, p, I)
    BY DEF Subject
<1>10. AllFollow(f2, w2, u)
    BY <1>8, <1>9 DEF AllFollow
<1>11. ASSUME NEW x \in Peers, f2[x].state \in {"hosting", "joining"}, ~Admitted(w2, x)
       PROVE  ~Told(w2, x)
    <2>1. x # a /\ f2[x] = f[x]
        BY <1>11
    <2>2. f[x].state # "hosting"
        BY <1>3, <2>1 DEF Single, Hosting
    <2>3. f[x].state = "joining" /\ ~Admitted(w, x)
        BY <1>6, <1>11, <2>1, <2>2
    <2>4. ~Told(w, x)
        BY <2>3 DEF Good, Settling, Untold
    <2>5. Met(u, a, x) => x \notin Members(f[a].infos)
        BY <2>1, <2>3, JoinersUntold
    <2> QED
        BY <1>5, <2>1, <2>4, <2>5
<1>12. Requests(f2, w2)
    BY <1>7 DEF Good, Settling, Requests
<1>13. Leavers(f2, w2)
    BY <1>4 DEF Good, Settling, Leavers, Leaving
<1>14. NotOwn(f2)
    BY DEF Good, Settling, NotOwn
<1>15. Addressed(w2)
    BY SentAddressed DEF Good, Settling
<1>16. Settling(f2, w2, u)
    BY <1>2, <1>10, <1>11, <1>12, <1>13, <1>14, <1>15 DEF Settling, Untold, Seats
<1>17. Seated(f2, new)
    BY DEF Good, Seated
<1>18. Kept(f2, w2, new)
    BY <1>2 DEF Kept
<1>19. ASSUME NEW x \in Peers, f2[x].state = "joining", new[x] # 0
       PROVE  f2[x].infos.owner # None /\ AskedBefore(Line(w2, x, f2[x].infos.owner), new[x])
    <2>1. f2[x] = f[x]
        BY <1>19
    <2>2. f[x].infos.owner # None /\ AskedBefore(Line(w, x, f[x].infos.owner), new[x])
        BY <1>19, <2>1 DEF Good, Asked
    <2>3. f[x].infos.owner \in Peers \ {x}
        BY <1>19, <2>1, <2>2, OwnerIs DEF Good, Settling
    <2> QED
        BY <2>1, <2>2, <2>3, AskedSent
<1> QED
    BY <1>16, <1>17, <1>18, <1>19 DEF Good, Asked

-----------------------------------------------------------------------------
(* What everyone holds.                                                    *)

LEMMA PassedOK ==
    ASSUME NEW infos \in LobbyInfos
    PROVE  /\ Passed(infos) \in LobbyInfos
           /\ Members(Passed(infos)) = Members(infos) \ {infos.owner}
           /\ Passed(infos).owner \in (Members(infos) \ {infos.owner}) \cup {None}
<1> DEFINE left == Unseat(infos, infos.owner)
           heir == ElectOwner(left, infos.owner)
<1>1. left \in LobbyInfos /\ Members(left) = Members(infos) \ {infos.owner}
    BY UnseatOK
<1>2. heir \in (Members(infos) \ {infos.owner}) \cup {None}
    BY <1>1, HeirStays
<1>3. Members(infos) \subseteq Peers
    BY InfosParts
<1>4. Passed(infos) = [left EXCEPT !.owner = heir]
    BY DEF Passed
<1> HIDE DEF left, heir
<1> QED
    BY <1>1, <1>2, <1>3, <1>4, OwnedBy

LEMMA AfterLossOK ==
    ASSUME NEW p \in Peers, NEW infos \in LobbyInfos
    PROVE  EntryOK(p, AfterLoss(p, infos))
<1>1. CASE Passed(infos).owner = None
    BY <1>1, AbsentOK DEF AfterLoss
<1>2. CASE Passed(infos).owner # None
    <2> DEFINE state == IF Passed(infos).owner = p THEN "hosting" ELSE "joined"
    <2>1. AfterLoss(p, infos) = [state |-> state, infos |-> Passed(infos)]
        BY <1>2 DEF AfterLoss
    <2>2. state \in States /\ Passed(infos) \in LobbyInfos /\ state # "none"
          /\ (state = "hosting" => Passed(infos).owner = p)
        BY PassedOK DEF States
    <2>3. Passed(infos).owner = p => p \in Members(Passed(infos))
        BY <1>2, PassedOK
    <2> HIDE DEF state
    <2> QED
        BY <1>2, <2>1, <2>2, <2>3, EntryOf
<1> QED
    BY <1>1, <1>2

LEMMA ViewOf ==
    ASSUME NEW e, NEW w, NEW p \in Peers
    PROVE  /\ Lost(e, w, p) => Views(e, w)[p] = AfterLoss(p, e[p].infos)
           /\ ~Lost(e, w, p) => Views(e, w)[p] = e[p]
    BY DEF Views

LEMMA ViewsAre ==
    ASSUME NEW e, EntriesAre(e), NEW w
    PROVE  EntriesAre(Views(e, w))
<1> SUFFICES ASSUME NEW p \in Peers PROVE EntryOK(p, Views(e, w)[p])
    BY DEF EntriesAre
<1>1. EntryOK(p, e[p]) /\ e[p].infos \in LobbyInfos
    BY DEF EntriesAre, EntryOK
<1> QED
    BY <1>1, ViewOf, AfterLossOK

(* The same ends are under way.                                              *)
SameEnds(w, w2) ==
    \A x \in Peers : \A y \in Peers \ {x} :
        Some(Line(w2, x, y), "eof") <=> Some(Line(w, x, y), "eof")

LEMMA OtherViews ==
    ASSUME NEW e, NEW e2, NEW w, NEW w2, EntriesAre(e), SameEnds(w, w2), NEW p,
           \A x \in Peers \ {p} : e2[x] = e[x]
    PROVE  \A x \in Peers \ {p} : Views(e2, w2)[x] = Views(e, w)[x]
<1> SUFFICES ASSUME NEW x \in Peers \ {p} PROVE Views(e2, w2)[x] = Views(e, w)[x]
    OBVIOUS
<1>1. e2[x] = e[x]
    OBVIOUS
<1>2. e[x].state = "joined" => e[x].infos.owner \in Peers
    <2>1. EntryOK(x, e[x])
        BY DEF EntriesAre
    <2>2. e[x].state = "joined" => e[x].infos \in LobbyInfos /\ e[x].infos.owner # None
        BY <2>1 DEF EntryOK
    <2> QED
        BY <2>2, InfosParts
<1>3. Lost(e2, w2, x) <=> Lost(e, w, x)
    BY <1>1, <1>2 DEF Lost, SameEnds
<1> QED
    BY <1>1, <1>3, ViewOf

(* Nothing changes but what is under way.                                    *)
LEMMA SameViews ==
    ASSUME NEW e, NEW w, NEW w2, EntriesAre(e), SameEnds(w, w2)
    PROVE  Views(e, w2) = Views(e, w)
<1>1. \A x \in Peers : Views(e, w2)[x] = Views(e, w)[x]
    <2>1. \A x \in Peers \ {None} : Views(e, w2)[x] = Views(e, w)[x]
        BY OtherViews
    <2> QED
        BY <2>1, LobbyAssumption
<1>2. \A v : Views(e, v) = [x \in Peers |-> Views(e, v)[x]]
    BY DEF Views
<1> QED
    BY <1>1, <1>2

-----------------------------------------------------------------------------
(* Who has met whom, and whose end is under way: one machine at a time goes    *)
(* away, with nothing else under way, and the others have all met.           *)

Linked(u, p) == \E r \in Peers : <<p, r>> \in u

HalfOf(w, u, p, q) ==
    /\ <<p, q>> \in u /\ <<q, p>> \notin u => Ended(Line(w, q, p)) /\ Empty(Line(w, p, q))
    /\ <<p, q>> \notin u /\ <<q, p>> \notin u => Empty(Line(w, q, p))

Calm(w, u) ==
    /\ NoEnd(w, u)
    /\ \A p \in Peers : \A q \in Peers \ {p} : HalfOf(w, u, p, q)
    /\ \A p \in Peers : \A q \in Peers \ {p} : Linked(u, p) /\ Linked(u, q) => Met(u, p, q)
    /\ \A p, x \in Peers : \A q \in Peers \ {p} : \A y \in Peers \ {x} :
         Some(Line(w, q, p), "eof") /\ Some(Line(w, y, x), "eof") => q = y

(* Only what is between two that have met changes, and no end.                *)
Steady(w, w2, u) ==
    /\ SameEnds(w, w2)
    /\ \A x \in Peers : \A y \in Peers \ {x} : ~Met(u, x, y) => Line(w2, x, y) = Line(w, x, y)

LEMMA SteadyStep ==
    ASSUME NEW w, NEW w2, NEW u, NEW w3, Steady(w, w2, u), Steady(w2, w3, u)
    PROVE  Steady(w, w3, u)
    BY DEF Steady, SameEnds

LEMMA SentSteady ==
    ASSUME NEW w, NEW w2, NEW u, NEW p, NEW to, NEW m, Sent(w, w2, u, p, to, m), m.type # "eof"
    PROVE  Steady(w, w2, u)
<1>1. SameEnds(w, w2)
    BY SentMsg DEF SameEnds
<1>2. \A x \in Peers : \A y \in Peers \ {x} : ~Met(u, x, y) => Line(w2, x, y) = Line(w, x, y)
    BY DEF Sent
<1> QED
    BY <1>1, <1>2 DEF Steady

LEMMA ReadSteady ==
    ASSUME NEW w, NEW w2, NEW u, NEW q \in Peers, NEW p \in Peers \ {q}, NEW m,
           Read(w, w2, q, p, m), m.type # "eof", Met(u, p, q)
    PROVE  Steady(w, w2, u)
<1>1. SameEnds(w, w2)
    BY ReadMsg DEF SameEnds
<1>2. \A x \in Peers : \A y \in Peers \ {x} : ~Met(u, x, y) => Line(w2, x, y) = Line(w, x, y)
    BY DEF Read, Met
<1> QED
    BY <1>1, <1>2 DEF Steady

LEMMA CalmSteady ==
    ASSUME NEW w, NEW w2, NEW u, Calm(w, u), Steady(w, w2, u)
    PROVE  Calm(w2, u)
<1>1. NoEnd(w2, u)
    BY DEF Calm, NoEnd, Steady, SameEnds
<1>2. ASSUME NEW p \in Peers, NEW q \in Peers \ {p}
      PROVE  HalfOf(w2, u, p, q)
    <2>1. HalfOf(w, u, p, q)
        BY DEF Calm
    <2>2. ~Met(u, p, q) => Line(w2, p, q) = Line(w, p, q) /\ Line(w2, q, p) = Line(w, q, p)
        BY DEF Steady, Met
    <2> QED
        BY <2>1, <2>2 DEF HalfOf, Met
<1>3. \A p, x \in Peers : \A q \in Peers \ {p} : \A y \in Peers \ {x} :
         Some(Line(w2, q, p), "eof") /\ Some(Line(w2, y, x), "eof") => q = y
    BY DEF Calm, Steady, SameEnds
<1> QED
    BY <1>1, <1>2, <1>3 DEF Calm

(* Whose line has another message first than the end has been met.             *)
LEMMA MetBy ==
    ASSUME NEW w, NEW u, Calm(w, u), Streams(w, Words), NEW p \in Peers, NEW q \in Peers \ {p},
           <<p, q>> \in u, w[<<q, p>>] # <<>>, Head(w[<<q, p>>]) # Eof
    PROVE  Met(u, p, q) /\ Met(u, q, p)
<1>1. Head(w[<<q, p>>]) = Line(w, q, p)[1]
    BY LineType DEF Line
<1>2. ~Ended(Line(w, q, p))
    BY <1>1 DEF Ended
<1>3. <<q, p>> \in u
    BY <1>2 DEF Calm, HalfOf
<1> QED
    BY <1>3 DEF Met

(* Whose end is under way has not been met, and nothing else is.               *)
LEMMA EndBy ==
    ASSUME NEW w, NEW u, Calm(w, u), NEW p \in Peers, NEW q \in Peers \ {p},
           <<p, q>> \in u, Some(Line(w, q, p), "eof")
    PROVE  <<q, p>> \notin u /\ Ended(Line(w, q, p)) /\ Empty(Line(w, p, q))
<1>1. ~Met(u, p, q)
    BY DEF Calm, NoEnd
<1> QED
    BY <1>1 DEF Calm, HalfOf, Met

(* One whose end is under way is gone.                                       *)
LEMMA GoneBy ==
    ASSUME NEW w, NEW u, Calm(w, u), NEW p \in Peers, NEW q \in Peers \ {p},
           <<p, q>> \in u, Some(Line(w, q, p), "eof"), NEW r \in Peers \ {q}
    PROVE  <<q, r>> \notin u /\ Empty(Line(w, r, q))
<1>1. <<q, p>> \notin u
    BY EndBy
<1>2. ~Linked(u, q)
    BY <1>1 DEF Calm, Linked, Met
<1>3. <<q, r>> \notin u
    BY <1>2 DEF Linked
<1>4. HalfOf(w, u, r, q) /\ HalfOf(w, u, q, r)
    BY DEF Calm
<1> QED
    BY <1>3, <1>4 DEF HalfOf

(* Everyone speaks of itself as the owner.                                   *)
OwnWords(w) ==
    \A q \in Peers : \A p \in Peers \ {q} : \A i \in 1 .. Len(Line(w, q, p)) :
        Line(w, q, p)[i].type = "infos" => Line(w, q, p)[i].body.owner = q

(* There is no lobby yet.                                                    *)
Unasked(w) ==
    \A q \in Peers : \A p \in Peers \ {q} : \A type :
        Some(Line(w, q, p), type) => type \in {"request", "eof"}

UnmadeBy(e, d, new) ==
    \A p \in Peers : /\ e[p].state \in {"none", "joining"} /\ e[p].infos = NoInfos
                     /\ d[p] = NoInfos /\ new[p] = 0

Unmade == UnmadeBy(entry, details, newest) /\ Unasked(wire)

(* As long as nothing disturbs it.                                           *)
Firm ==
    /\ accepting = {} /\ \A p \in Peers : late[p] = <<>>
    /\ Calm(wire, up)
    /\ spent["crashes"] = 0 => up = Pairs
    /\ spent["handovers"] = 0 => OwnWords(wire)
    /\ spent["creates"] = 0 => Unmade
    /\ Good(Views(entry, wire), wire, up, newest)

LEMMA SentOwn ==
    ASSUME NEW w, NEW w2, NEW u, NEW p, NEW to, NEW m, Sent(w, w2, u, p, to, m), OwnWords(w),
           m.type = "infos" => m.body.owner = p
    PROVE  OwnWords(w2)
<1> SUFFICES ASSUME NEW q \in Peers, NEW r \in Peers \ {q}, NEW i \in 1 .. Len(Line(w2, q, r)),
                    Line(w2, q, r)[i].type = "infos"
             PROVE  Line(w2, q, r)[i].body.owner = q
    BY DEF OwnWords
<1>1. CASE q = p /\ r \in to /\ Met(u, q, r)
    <2>1. Put(Line(w, q, r), Line(w2, q, r), m)
        BY <1>1 DEF Sent
    <2>2. /\ Len(Line(w, q, r)) \in Nat /\ Len(Line(w2, q, r)) = Len(Line(w, q, r)) + 1
          /\ Line(w2, q, r)[Len(Line(w, q, r)) + 1] = m
          /\ \A j \in 1 .. Len(Line(w, q, r)) : Line(w2, q, r)[j] = Line(w, q, r)[j]
        BY <2>1 DEF Put
    <2>3. i \in 1 .. Len(Line(w, q, r)) \/ Line(w2, q, r)[i] = m
        BY <2>2
    <2> QED
        BY <1>1, <2>2, <2>3 DEF OwnWords
<1>2. CASE ~(q = p /\ r \in to /\ Met(u, q, r))
    BY <1>2 DEF Sent, OwnWords
<1> QED
    BY <1>1, <1>2

LEMMA ReadOwn ==
    ASSUME NEW w, NEW w2, NEW q \in Peers, NEW p \in Peers \ {q}, NEW m, Read(w, w2, q, p, m),
           OwnWords(w)
    PROVE  OwnWords(w2) /\ (m.type = "infos" => m.body.owner = q)
<1>1. Took(Line(w, q, p), Line(w2, q, p), m)
    BY DEF Read
<1>2. /\ 1 \in 1 .. Len(Line(w, q, p)) /\ Line(w, q, p)[1] = m
      /\ \A i \in 1 .. Len(Line(w2, q, p)) : i + 1 \in 1 .. Len(Line(w, q, p))
                                             /\ Line(w2, q, p)[i] = Line(w, q, p)[i + 1]
    BY <1>1, TookIndex
<1>3. \A x \in Peers : \A y \in Peers \ {x} : \A i \in 1 .. Len(Line(w2, x, y)) :
         \E j \in 1 .. Len(Line(w, x, y)) : Line(w2, x, y)[i] = Line(w, x, y)[j]
    BY <1>2 DEF Read
<1> QED
    BY <1>2, <1>3 DEF OwnWords

LEMMA SentUnasked ==
    ASSUME NEW w, NEW w2, NEW u, NEW p, NEW to, NEW m, Sent(w, w2, u, p, to, m), Unasked(w),
           m.type = "request"
    PROVE  Unasked(w2)
    BY SentMsg DEF Unasked

LEMMA ReadUnasked ==
    ASSUME NEW w, NEW w2, NEW q \in Peers, NEW p \in Peers \ {q}, NEW m, Read(w, w2, q, p, m),
           Unasked(w)
    PROVE  Unasked(w2) /\ m.type \in {"request", "eof"}
<1>1. \A x \in Peers : \A y \in Peers \ {x} : \A type :
         Some(Line(w2, x, y), type) => Some(Line(w, x, y), type)
    BY ReadMsg
<1>2. Some(Line(w, q, p), m.type)
    BY ReadMsg
<1> QED
    BY <1>1, <1>2 DEF Unasked

-----------------------------------------------------------------------------
(* A step from where all is in order, of which nothing disturbs it.           *)
Orderly == IInv /\ IInv' /\ Firm /\ Undisturbed'

LEMMA Order ==
    ASSUME Orderly
    PROVE  /\ Streams(wire, Words) /\ Streams(wire', Words)
           /\ EntriesAre(entry) /\ EntriesAre(entry')
           /\ EntriesAre(Views(entry, wire)) /\ EntriesAre(Views(entry', wire'))
           /\ accepting = {} /\ up \subseteq Pairs
           /\ NoEnd(wire, up) /\ Calm(wire, up)
           /\ Good(Views(entry, wire), wire, up, newest)
           /\ NotOwn(Views(entry, wire)) /\ Single(Views(entry, wire), wire)
           /\ HistoryOK /\ HistoryOK'
           /\ \A p \in Peers : late[p] = <<>>
<1>1. EntriesAre(entry) /\ EntriesAre(entry')
    BY DEF Orderly, IInv, EntriesOK, EntriesAre
<1>2. EntriesAre(Views(entry, wire)) /\ EntriesAre(Views(entry', wire'))
    BY <1>1, ViewsAre
<1>3. Streams(wire, Words) /\ Streams(wire', Words) /\ up \subseteq Pairs
    BY DEF Orderly, IInv, LinkTyped
<1> QED
    BY <1>1, <1>2, <1>3 DEF Orderly, IInv, Firm, Calm, Good, Settling

(* What is spent only grows.                                                 *)
Grown == \A k \in Kinds : spent[k] \in Nat /\ spent'[k] \in Nat /\ spent'[k] >= spent[k]

LEMMA SpendGrows ==
    ASSUME HistoryOK, NEW kind \in Kinds, Spend(kind)
    PROVE  Grown /\ spent'[kind] = spent[kind] + 1 /\ spent[kind] < Bounds[kind]
           /\ \A k \in Kinds : k \notin {kind, "all"} => spent'[k] = spent[k]
<1>1. \A k \in Kinds : spent[k] \in Nat
    BY DEF HistoryOK
<1> QED
    BY <1>1 DEF Spend, Grown

LEMMA Firmly ==
    ASSUME Orderly, UNCHANGED <<up, accepting, late>>, Steady(wire, wire', up),
           Grown \/ UNCHANGED spent,
           spent'["handovers"] = 0 /\ OwnWords(wire) => OwnWords(wire'),
           spent'["creates"] = 0 /\ Unmade => Unmade',
           Good(Views(entry', wire'), wire', up, newest')
    PROVE  Firm'
<1>1. \A k \in Kinds : spent'[k] = 0 => spent[k] = 0
    BY DEF Grown
<1>2. "crashes" \in Kinds /\ "handovers" \in Kinds /\ "creates" \in Kinds
    BY DEF Kinds
<1>3. Calm(wire', up)
    BY Order, CalmSteady
<1>4. /\ accepting' = {} /\ \A p \in Peers : late'[p] = <<>>
      /\ spent'["crashes"] = 0 => up' = Pairs
    BY <1>1, <1>2 DEF Orderly, Firm
<1>5. /\ spent'["handovers"] = 0 => OwnWords(wire')
      /\ spent'["creates"] = 0 => Unmade'
    BY <1>1, <1>2 DEF Orderly, Firm
<1>6. up' = up
    OBVIOUS
<1> QED
    BY <1>3, <1>4, <1>5, <1>6 DEF Firm

-----------------------------------------------------------------------------
(* A lobby that is new, or none.                                             *)
LEMMA GoodAlone ==
    ASSUME NEW f, NEW w, NEW u, NEW new, Unasked(w), NEW p,
           \A x \in Peers : \/ f[x].state = "none"
                            \/ f[x].state = "joining" /\ f[x].infos.owner = None
                            \/ x = p /\ Hosting(f, x) /\ Members(f[x].infos) = {x},
           \A x \in Peers : f[x].state # "none" => new[x] = 0
    PROVE  Good(f, w, u, new)
<1>1. \A q \in Peers : \A r \in Peers \ {q} : \A i \in 1 .. Len(Line(w, q, r)) :
         Line(w, q, r)[i].type \in {"request", "eof"}
    BY DEF Unasked, Some
<1>2. \A s, K : Speaks(f, w, s, K) => s = p /\ Hosting(f, s) /\ Members(K) = {p}
    BY <1>1 DEF Speaks, Named, IsNaming, Hosting
<1>3. \A x \in Peers : ~Admitted(w, x) /\ ~Told(w, x) /\ ~Leaving(w, x)
    BY <1>1 DEF Admitted, Admits, IsAdmission, Told, Leaving, Sends, Some
<1>4. Single(f, w)
    <2>1. \A r, s, i : ~Names(w, r, s, i)
        BY <1>1 DEF Names, IsNaming
    <2> QED
        BY <2>1 DEF Single, Hosting
<1>5. \A x \in Peers : \A o, I : ~Subject(f, w, x, o, I)
    <2>1. \A x \in Peers : \A o : OnlyAdmission(w, x, o) => Admitted(w, x)
        BY DEF OnlyAdmission, OneAdmits, Admitted
    <2> QED
        BY <1>3, <2>1 DEF Subject, Hosting
<1>6. Untold(f, w) /\ Leavers(f, w)
    BY <1>3 DEF Untold, Leavers
<1>7. Requests(f, w) /\ NotOwn(f)
    BY LobbyAssumption DEF Requests, NotOwn, Hosting
<1>8. Seats(f, w)
    BY <1>2 DEF Seats, HeldSeat, InIt, Hosting
<1>9. Addressed(w)
    BY <1>1 DEF Addressed
<1>10. Settling(f, w, u)
    BY <1>4, <1>5, <1>6, <1>7, <1>8, <1>9 DEF Settling, AllFollow
<1>11. Seated(f, new) /\ Kept(f, w, new) /\ Asked(f, w, new)
    BY DEF Seated, Kept, Asked, Heeded, InIt
<1> QED
    BY <1>10, <1>11 DEF Good

-----------------------------------------------------------------------------
(* Nothing is under way but the end of one that is gone.                       *)
Still(w) ==
    \A q \in Peers : \A p \in Peers \ {q} : \A type : Some(Line(w, q, p), type) => type = "eof"

(* Everyone in the lobby has what its host has.                               *)
LEMMA GoodStill ==
    ASSUME NEW f, NEW w, NEW u, NEW new, Still(w), NEW h \in Peers, NEW K, Hosting(f, h),
           f[h].infos = K, K.owner = h, h \in Members(K),
           \A x \in Peers \ {h} :
             \/ f[x].state = "none" /\ (x \in Members(K) => Some(Line(w, x, h), "eof"))
             \/ f[x].state = "joined" /\ f[x].infos = K /\ x \in Members(K) /\ Met(u, x, h),
           \A x \in Peers : InIt(f, x) /\ new[x] # 0 => new[x] \in K.roster[x]
    PROVE  Good(f, w, u, new)
<1>1. \A q \in Peers : \A r \in Peers \ {q} : \A i \in 1 .. Len(Line(w, q, r)) :
         Line(w, q, r)[i].type = "eof"
    BY DEF Still, Some
<1>2. ASSUME NEW x \in Peers
      PROVE  ~Admitted(w, x) /\ ~Told(w, x) /\ ~Leaving(w, x) /\ ~Updating(w, x)
    BY <1>1 DEF Admitted, Admits, IsAdmission, Told, Leaving, Updating, Sends, Some
<1>3. \A s, J : Speaks(f, w, s, J) <=> s = h /\ J = K
    BY <1>1 DEF Speaks, Named, IsNaming, Hosting
<1>4. Single(f, w)
    <2>1. \A r, s, i : ~Names(w, r, s, i)
        BY <1>1 DEF Names, IsNaming
    <2> QED
        BY <2>1 DEF Single, Hosting
<1>5. ASSUME NEW x \in Peers, NEW o, NEW I, Subject(f, w, x, o, I)
      PROVE  Current(f, w, u, x, o, I)
    <2>1. ~OnlyAdmission(w, x, o)
        BY <1>2 DEF OnlyAdmission, OneAdmits, Admitted
    <2>2. x # h /\ f[x].state = "joined" /\ o = f[x].infos.owner /\ I = f[x].infos
        BY <1>5, <2>1 DEF Subject, Hosting
    <2>3. I = K /\ o = I.owner /\ x \in Members(K) /\ Met(u, x, h)
        BY <2>2
    <2>4. UpToDate(f, w, u, x, I, FALSE)
        BY <1>3, <2>3 DEF UpToDate, Alike
    <2>5. Follows(f, w, u, x, I.owner, I, FALSE)
        <3> DEFINE free == FALSE
        <3>1. UpToDate(f, w, u, x, I, free)
            BY <2>4
        <3> HIDE DEF free
        <3>2. Follows(f, w, u, x, I.owner, I, free)
            BY <1>2, <3>1, FollowsFresh
        <3> QED
            BY <3>2 DEF free
    <2> QED
        BY <2>3, <2>5, CurrentIs
<1>6. Untold(f, w) /\ Leavers(f, w)
    BY <1>2 DEF Untold, Leavers
<1>7. Requests(f, w) /\ NotOwn(f)
    BY DEF Requests, NotOwn, Hosting
<1>8. Seats(f, w)
    <2>1. ASSUME NEW m \in Peers, m \in Members(K)
          PROVE  HeldSeat(f, w, h, m)
        BY <2>1 DEF HeldSeat, InIt, Hosting
    <2> QED
        BY <1>3, <2>1 DEF Seats
<1>9. Addressed(w)
    BY <1>1 DEF Addressed
<1>10. AllFollow(f, w, u)
    BY <1>5 DEF AllFollow
<1>11. Settling(f, w, u)
    BY <1>4, <1>6, <1>7, <1>8, <1>9, <1>10 DEF Settling
<1>12. Seated(f, new) /\ Asked(f, w, new)
    BY DEF Seated, Asked, Hosting
<1>13. ASSUME NEW x \in Peers, new[x] # 0, Heeded(f, w, x)
       PROVE  KeptBy(w, x, h, K, new[x])
    BY <1>2, <1>13 DEF KeptBy, Heeded
<1>14. Kept(f, w, new)
    BY <1>3, <1>13 DEF Kept
<1> QED
    BY <1>11, <1>12, <1>14 DEF Good

-----------------------------------------------------------------------------
(* The start.                                                              *)

Blank(w) == \A q \in Peers : \A p \in Peers \ {q} : Empty(Line(w, q, p))

LEMMA BlankHas ==
    ASSUME NEW w, Blank(w)
    PROVE  \A q \in Peers : \A p \in Peers \ {q} : \A type : ~Some(Line(w, q, p), type)
    BY DEF Blank, Empty, Some

LEMMA NoneLost ==
    ASSUME NEW e, EntriesAre(e), NEW w, Blank(w), NEW p \in Peers
    PROVE  ~Lost(e, w, p) /\ Views(e, w)[p] = e[p]
<1>1. e[p].state = "joined" => e[p].infos.owner \in Peers
    <2>1. EntryOK(p, e[p])
        BY DEF EntriesAre
    <2>2. e[p].state = "joined" => e[p].infos \in LobbyInfos /\ e[p].infos.owner # None
        BY <2>1 DEF EntryOK
    <2> QED
        BY <2>2, InfosParts
<1>2. ~Lost(e, w, p)
    BY <1>1, BlankHas DEF Lost
<1> QED
    BY <1>2, ViewOf

LEMMA CalmBlank ==
    ASSUME NEW w, NEW u, Blank(w), \A p, q \in Peers : <<p, q>> \in u => <<q, p>> \in u,
           \A p \in Peers : \A q \in Peers \ {p} : Linked(u, p) /\ Linked(u, q) => Met(u, p, q)
    PROVE  Calm(w, u)
<1>1. NoEnd(w, u)
    BY BlankHas DEF NoEnd
<1>2. \A p \in Peers : \A q \in Peers \ {p} : HalfOf(w, u, p, q)
    BY DEF HalfOf, Blank
<1> QED
    BY <1>1, <1>2, BlankHas DEF Calm

LEMMA FirmInit == Init => Firm
<1> SUFFICES ASSUME Init PROVE Firm
    OBVIOUS
<1>1. IInv
    BY InitOK
<1>2. /\ up = Pairs /\ accepting = {} /\ wire = [pq \in Pairs |-> <<>>]
      /\ late = [p \in Peers |-> <<>>]
    BY DEF Init, LinkInitMet
<1>3. Blank(wire)
    <2>1. \A q \in Peers : \A p \in Peers \ {q} : Line(wire, q, p) = <<>>
        BY <1>2 DEF Line, Pairs
    <2> QED
        BY <2>1 DEF Blank, Empty
<1>4. \A p, q \in Peers : p # q => Met(up, p, q)
    BY <1>2 DEF Met, Pairs
<1>5. Calm(wire, up)
    <2>1. \A p, q \in Peers : <<p, q>> \in up => <<q, p>> \in up
        BY <1>2 DEF Pairs
    <2> QED
        BY <1>3, <1>4, <2>1, CalmBlank
<1>6. OwnWords(wire)
    BY <1>3 DEF OwnWords, Blank, Empty
<1>7. Unasked(wire) /\ Still(wire)
    BY <1>3, BlankHas DEF Unasked, Still
<1>8. EntriesAre(entry)
    BY <1>1 DEF IInv, EntriesOK, EntriesAre
<1>9. \A p \in Peers : Views(entry, wire)[p] = entry[p]
    BY <1>3, <1>8, NoneLost
<1>10. \A p \in Peers : newest[p] = 0 /\ details[p] = NoInfos
    BY DEF Init
<1>11. "creates" \in Kinds
    BY DEF Kinds
<1>12. PICK I \in Formed \cup {NoInfos} :
         /\ entry = [p \in Peers |->
                       IF p \notin Members(I) THEN Absent
                       ELSE [state |-> IF p = I.owner THEN "hosting" ELSE "joined", infos |-> I]]
         /\ spent = [kind \in Kinds |-> IF kind = "creates" /\ I # NoInfos THEN 1 ELSE 0]
    BY DEF Init
<1>13. Absent.state = "none" /\ Absent.infos = NoInfos
    BY DEF Absent
<1>14. CASE I = NoInfos
    <2>1. \A p \in Peers : entry[p].state = "none" /\ entry[p].infos = NoInfos
        BY <1>12, <1>13, <1>14, NoInfosOK
    <2>2. Unmade
        BY <1>7, <1>10, <2>1 DEF Unmade, UnmadeBy
    <2>3. Good(Views(entry, wire), wire, up, newest)
        <3> DEFINE f == Views(entry, wire)
        <3>1. \A p \in Peers : f[p].state = "none"
            BY <1>9, <2>1
        <3> HIDE DEF f
        <3>2. Good(f, wire, up, newest)
            BY <1>7, <3>1, GoodAlone
        <3> QED
            BY <3>2 DEF f
    <2> QED
        BY <1>2, <1>5, <1>6, <2>2, <2>3 DEF Firm
<1>15. CASE I # NoInfos
    <2>1. IsInfos(I) /\ I.owner \in Members(I)
        BY <1>15, LobbyAssumption
    <2>2. I.owner \in Peers
        BY <2>1 DEF IsInfos
    <2>3. spent["creates"] = 1
        BY <1>11, <1>12, <1>15
    <2>4. Good(Views(entry, wire), wire, up, newest)
        <3> DEFINE f == Views(entry, wire)
                   h == I.owner
        <3>1. ASSUME NEW x \in Peers
              PROVE  /\ x \notin Members(I) => f[x].state = "none"
                     /\ x \in Members(I) => f[x].infos = I
                     /\ x \in Members(I) /\ x = h => f[x].state = "hosting"
                     /\ x \in Members(I) /\ x # h => f[x].state = "joined"
            <4> DEFINE state == IF x = I.owner THEN "hosting" ELSE "joined"
            <4>1. entry[x] = IF x \notin Members(I) THEN Absent ELSE [state |-> state, infos |-> I]
                BY <1>12
            <4>2. f[x] = entry[x]
                BY <1>9
            <4>3. /\ x = h => state = "hosting"
                  /\ x # h => state = "joined"
                OBVIOUS
            <4> HIDE DEF f, h, state
            <4> QED
                BY <1>13, <4>1, <4>2, <4>3
        <3>2. h \in Peers /\ h \in Members(I) /\ I.owner = h
            BY <2>1, <2>2
        <3> HIDE DEF f, h
        <3>3. f[h].state = "hosting" /\ f[h].infos = I
            BY <3>1, <3>2
        <3>4. ASSUME NEW x \in Peers \ {h}
              PROVE  \/ f[x].state = "none" /\ x \notin Members(I)
                     \/ f[x].state = "joined" /\ f[x].infos = I /\ x \in Members(I)
            BY <1>13, <3>1
        <3>5. ASSUME NEW x \in Peers \ {h} PROVE Met(up, x, h)
            BY <1>4, <3>2
        <3>6. Good(f, wire, up, newest)
            BY <1>7, <1>10, <3>2, <3>3, <3>4, <3>5, GoodStill DEF Hosting
        <3> QED
            BY <3>6 DEF f
    <2> QED
        BY <1>2, <1>5, <1>6, <2>3, <2>4 DEF Firm
<1> QED
    BY <1>14, <1>15

-----------------------------------------------------------------------------
(* What everyone holds after p did something.                                 *)
LEMMA OneTurns ==
    ASSUME Orderly, NEW p \in Peers, \A x \in Peers \ {p} : entry'[x] = entry[x],
           SameEnds(wire, wire'), ~Lost(entry, wire, p), ~Lost(entry', wire', p)
    PROVE  /\ \A x \in Peers \ {p} : Views(entry', wire')[x] = Views(entry, wire)[x]
           /\ Views(entry, wire)[p] = entry[p]
           /\ Views(entry', wire')[p] = entry'[p]
<1>1. \A x \in Peers \ {p} : Views(entry', wire')[x] = Views(entry, wire)[x]
    BY Order, OtherViews
<1>2. Views(entry, wire)[p] = entry[p] /\ Views(entry', wire')[p] = entry'[p]
    BY ViewOf
<1> QED
    BY <1>1, <1>2

LEMMA SameSteady ==
    ASSUME NEW w, NEW u
    PROVE  Steady(w, w, u) /\ SameEnds(w, w)
    BY DEF Steady, SameEnds

-----------------------------------------------------------------------------
(* The game.                                                               *)

LEMMA NotLost ==
    ASSUME Orderly, NEW p \in Peers, State(p) # "joined" \/ Infos(p).owner = p
    PROVE  ~Lost(entry, wire, p) /\ Views(entry, wire)[p] = entry[p]
<1>1. ~Lost(entry, wire, p)
    BY DEF Lost, State, Infos
<1> QED
    BY <1>1, ViewOf

LEMMA CreateLobbyFirm ==
    ASSUME Orderly, NEW p \in Peers, NEW room \in Rooms, NEW migrate \in Migrations,
           CreateLobby(p, room, migrate)
    PROVE  Firm'
<1> DEFINE infos == [owner |-> p, roster |-> [m \in {p} |-> {}], room |-> room,
                     migrate |-> migrate]
           f == Views(entry, wire)
           f2 == Views(entry', wire')
<1>1. "creates" \in Kinds
    BY DEF Kinds
<1>2. /\ Spend("creates") /\ Becomes(p, "hosting", infos) /\ UNCHANGED <<details, newest, linkVars>>
    BY DEF CreateLobby
<1>3. Grown /\ spent'["creates"] = spent["creates"] + 1 /\ spent["creates"] < Bounds["creates"]
    BY <1>1, <1>2, Order, SpendGrows
<1>4. spent["creates"] = 0
    BY <1>1, <1>3, LobbyAssumption DEF Grown
<1>5. Unmade
    BY <1>4 DEF Orderly, Firm
<1>6. Members(infos) = {p}
    <2> DEFINE r == [m \in {p} |-> {}]
    <2>1. DOMAIN r = {p}
        OBVIOUS
    <2>2. infos.roster = r
        OBVIOUS
    <2> QED
        BY <2>1, <2>2 DEF Members
<1> HIDE DEF infos
<1>7. /\ entry'[p].state = "hosting" /\ entry'[p].infos = infos
      /\ \A x \in Peers \ {p} : entry'[x] = entry[x]
    BY <1>2 DEF Becomes, Orderly, IInv, EntriesOK
<1>8. UNCHANGED <<wire, up, accepting, late, newest, details>>
    BY <1>2 DEF linkVars
<1>9. \A x \in Peers : ~Lost(entry', wire', x)
    BY <1>5, <1>7 DEF Unmade, UnmadeBy, Lost
<1>10. \A x \in Peers : f2[x] = entry'[x]
    BY <1>9, ViewOf
<1>11. \A x \in Peers : \/ f2[x].state = "none"
                        \/ f2[x].state = "joining" /\ f2[x].infos.owner = None
                        \/ x = p /\ Hosting(f2, x) /\ Members(f2[x].infos) = {x}
    BY <1>5, <1>6, <1>7, <1>10, NoInfosOK DEF Unmade, UnmadeBy, Hosting
<1> HIDE DEF f2
<1>12. Unasked(wire') /\ \A x \in Peers : newest'[x] = 0
    BY <1>5, <1>8 DEF Unmade, UnmadeBy
<1>13. Good(f2, wire', up, newest')
    BY <1>11, <1>12, GoodAlone
<1>14. spent'["creates"] # 0
    BY <1>3, <1>4
<1>15. Steady(wire, wire', up)
    BY <1>8, SameSteady
<1> QED
    BY <1>3, <1>8, <1>13, <1>14, <1>15, Firmly DEF f2

LEMMA FindLobbyFirm ==
    ASSUME Orderly, NEW p \in Peers, NEW h \in Peers, FindLobby(p, h)
    PROVE  Firm'
<1>1. UNCHANGED <<entry, newest, wire, up, accepting, late>> /\ Spend("finds")
      /\ details' = [details EXCEPT ![p] = Infos(h)]
    BY DEF FindLobby, linkVars
<1>2. "finds" \in Kinds
    BY DEF Kinds
<1>3. Grown
    BY <1>1, <1>2, Order, SpendGrows
<1>4. Unmade => Unmade'
    BY <1>1 DEF Unmade, UnmadeBy, Infos, Orderly, IInv, DetailsOK
<1>5. Steady(wire, wire', up)
    BY <1>1, SameSteady
<1>6. Good(Views(entry', wire'), wire', up, newest')
    BY <1>1, Order
<1> QED
    BY <1>1, <1>3, <1>4, <1>5, <1>6, Firmly

LEMMA NothingUnderWay ==
    ASSUME Orderly, NEW p \in Peers, ~UnderWay(p), NEW q \in Peers \ {p}
    PROVE  Empty(Line(wire, p, q)) /\ Empty(Line(wire, q, p))
<1>1. <<p, q>> \in Pairs /\ <<q, p>> \in Pairs
    BY DEF Pairs
<1>2. wire[<<p, q>>] = <<>> /\ wire[<<q, p>>] = <<>>
    BY <1>1 DEF UnderWay
<1>3. Len(wire[<<p, q>>]) = 0 /\ Len(wire[<<q, p>>]) = 0
    BY <1>2
<1> QED
    BY <1>3 DEF Empty, Line

(* It asks somebody to join.                                                 *)
LEMMA AskFirm ==
    ASSUME Orderly, NEW p \in Peers, State(p) = "none", Spend("joins"), NEW infos, NEW to, NEW b,
           b \in BOOLEAN, Becomes(p, "joining", infos), AwaitJoin(p),
           wire' = SendTo(wire, p, to, "request", b), UNCHANGED <<details, up, accepting, late>>,
           infos.owner # p, infos.owner # None => to = {infos.owner} /\ ~Unmade,
           infos.owner = None => infos = NoInfos
    PROVE  Firm'
<1> DEFINE m == [type |-> "request", body |-> b]
           f == Views(entry, wire)
           f2 == Views(entry', wire')
<1>1. "joins" \in Kinds
    BY DEF Kinds
<1>2. Grown
    BY <1>1, Order, SpendGrows
<1>3. m \in Words
    BY WordsOf
<1>4. Sent(wire, wire', up, p, to, m)
    BY <1>3, Order, SendLines
<1>5. m.type = "request"
    OBVIOUS
<1> HIDE DEF m
<1>6. Steady(wire, wire', up)
    BY <1>4, <1>5, SentSteady
<1>7. OwnWords(wire) => OwnWords(wire')
    BY <1>4, <1>5, SentOwn
<1>8. ~UnderWay(p)
    BY DEF AwaitJoin, GoesAstray, Orderly, Undisturbed
<1>9. \A q \in Peers \ {p} : Empty(Line(wire, p, q)) /\ Empty(Line(wire, q, p))
    BY <1>8, NothingUnderWay
<1>10. /\ entry'[p].state = "joining" /\ entry'[p].infos = infos
       /\ \A x \in Peers \ {p} : entry'[x] = entry[x]
    BY DEF Becomes, Orderly, IInv, EntriesOK
<1>11. /\ newest'[p] = 0 /\ \A x \in Peers \ {p} : newest'[x] = newest[x]
    BY DEF AwaitJoin, Orderly, IInv, HistoryOK
<1>12. ~Lost(entry, wire, p) /\ ~Lost(entry', wire', p)
    BY <1>10 DEF Lost, State
<1>13. /\ \A x \in Peers \ {p} : f2[x] = f[x]
       /\ f[p] = entry[p] /\ f2[p] = entry'[p]
    BY <1>6, <1>10, <1>12, OneTurns DEF Steady
<1>14. EntriesAre(f) /\ Good(f, wire, up, newest)
    BY Order
<1>15. f[p].state = "none"
    BY <1>13 DEF State
<1> HIDE DEF f, f2
<1>16. Good(f2, wire', up, newest')
    BY <1>4, <1>5, <1>9, <1>10, <1>11, <1>13, <1>14, <1>15, GoodAsks
<1>17. Unmade => Unmade'
    <2> SUFFICES ASSUME Unmade PROVE Unmade'
        OBVIOUS
    <2>1. Unasked(wire')
        BY <1>4, <1>5, SentUnasked DEF Unmade
    <2>2. infos = NoInfos
        OBVIOUS
    <2> QED
        BY <1>10, <1>11, <2>1, <2>2 DEF Unmade, UnmadeBy
<1> QED
    BY <1>2, <1>6, <1>7, <1>16, <1>17, Firmly DEF f2

LEMMA JoinLobbyFirm ==
    ASSUME Orderly, NEW p \in Peers, JoinLobby(p)
    PROVE  Firm'
<1> DEFINE owner == details[p].owner
           to == {owner}
<1>1. owner # None /\ owner # p
    BY Order DEF JoinLobby, Pairs
<1>2. ~Unmade
    BY <1>1, NoInfosOK DEF Unmade, UnmadeBy
<1>3. /\ State(p) = "none" /\ Spend("joins") /\ Becomes(p, "joining", details[p])
      /\ AwaitJoin(p) /\ wire' = SendTo(wire, p, to, "request", FALSE)
      /\ UNCHANGED <<details, up, accepting, late>>
    BY DEF JoinLobby
<1>4. details[p].owner = owner /\ to = {owner}
    OBVIOUS
<1> HIDE DEF owner, to
<1> QED
    BY <1>1, <1>2, <1>3, <1>4, AskFirm

LEMMA JoinLobbyByIdFirm ==
    ASSUME Orderly, NEW p \in Peers, JoinLobbyById(p)
    PROVE  Firm'
<1> DEFINE to == {q \in Peers : <<p, q>> \in up}
<1>1. /\ State(p) = "none" /\ Spend("joins") /\ Becomes(p, "joining", NoInfos)
      /\ AwaitJoin(p) /\ wire' = SendTo(wire, p, to, "request", TRUE)
      /\ UNCHANGED <<details, up, accepting, late>>
    BY DEF JoinLobbyById
<1> HIDE DEF to
<1>2. NoInfos.owner = None /\ NoInfos.owner # p
    BY NoInfosOK, LobbyAssumption
<1> QED
    BY <1>1, <1>2, AskFirm

-----------------------------------------------------------------------------
(* The tick.                                                               *)

LEMMA JoinAnsweredFirm ==
    ASSUME Orderly, NEW p \in Peers, NEW i, JoinAnswered(p, i)
    PROVE  Firm'
<1>1. UNCHANGED <<entry, details, newest, spent, wire, up, accepting, late>>
    BY DEF JoinAnswered, linkVars
<1>2. Steady(wire, wire', up)
    BY <1>1, SameSteady
<1>3. Good(Views(entry', wire'), wire', up, newest')
    BY <1>1, Order
<1>4. Unmade => Unmade'
    BY <1>1 DEF Unmade
<1> QED
    BY <1>1, <1>2, <1>3, <1>4, Firmly

LEMMA JoinTimedOutFirm ==
    ASSUME Orderly, NEW p \in Peers, NEW i, JoinTimedOut(p, i)
    PROVE  Firm'
<1> DEFINE f == Views(entry, wire)
           f2 == Views(entry', wire')
<1>1. UNCHANGED <<details, newest, wire, up, accepting, late>> /\ Spend("timeouts")
      /\ IF State(p) = "joining" THEN Erase(p) ELSE UNCHANGED entry
    BY DEF JoinTimedOut, linkVars
<1>2. "timeouts" \in Kinds
    BY DEF Kinds
<1>3. Grown
    BY <1>1, <1>2, Order, SpendGrows
<1>4. Steady(wire, wire', up)
    BY <1>1, SameSteady
<1>5. CASE State(p) # "joining"
    <2>1. Good(f2, wire', up, newest')
        BY <1>1, <1>5, Order
    <2>2. Unmade => Unmade'
        BY <1>1, <1>5 DEF Unmade
    <2> QED
        BY <1>1, <1>3, <1>4, <2>1, <2>2, Firmly
<1>6. CASE State(p) = "joining"
    <2>1. /\ entry'[p] = Absent /\ \A x \in Peers \ {p} : entry'[x] = entry[x]
        BY <1>1, <1>6 DEF Erase, Orderly, IInv, EntriesOK
    <2>2. entry'[p].state = "none" /\ entry'[p].infos = NoInfos
        BY <2>1 DEF Absent
    <2>3. ~Lost(entry, wire, p) /\ ~Lost(entry', wire', p)
        BY <1>6, <2>2 DEF Lost, State
    <2>4. /\ \A x \in Peers \ {p} : f2[x] = f[x]
          /\ f[p] = entry[p] /\ f2[p] = entry'[p]
        BY <1>4, <2>1, <2>3, OneTurns DEF Steady
    <2>5. EntriesAre(f) /\ Good(f, wire, up, newest) /\ Streams(wire, Words)
        BY Order
    <2>6. f[p].state = "joining" /\ f2[p].state = "none"
        BY <1>6, <2>2, <2>4 DEF State
    <2> HIDE DEF f, f2
    <2>7. Good(f2, wire, up, newest)
        BY <2>4, <2>5, <2>6, GoodStops
    <2>8. Unmade => Unmade'
        BY <1>1, <2>1, <2>2 DEF Unmade, UnmadeBy
    <2> QED
        BY <1>1, <1>3, <1>4, <2>7, <2>8, Firmly DEF f2
<1> QED
    BY <1>5, <1>6

-----------------------------------------------------------------------------
(* What the host says of the others on the roster.                            *)

LEMMA SeatRoster ==
    ASSUME NEW infos \in LobbyInfos, NEW m, NEW attributes
    PROVE  /\ \A x \in Members(infos) : x # m => Seat(infos, m, attributes).roster[x] = infos.roster[x]
           /\ Seat(infos, m, attributes).roster[m] = attributes
           /\ Seat(infos, m, attributes).room = infos.room
           /\ Seat(infos, m, attributes).migrate = infos.migrate
<1> DEFINE S == Members(infos) \cup {m}
           r == [x \in S |-> IF x = m THEN attributes ELSE infos.roster[x]]
<1>1. Seat(infos, m, attributes) = [infos EXCEPT !.roster = r]
    BY DEF Seat
<1>2. /\ \A x \in Members(infos) : x # m => r[x] = infos.roster[x]
      /\ r[m] = attributes
    OBVIOUS
<1> HIDE DEF r
<1>3. /\ [infos EXCEPT !.roster = r].roster = r
      /\ [infos EXCEPT !.roster = r].room = infos.room
      /\ [infos EXCEPT !.roster = r].migrate = infos.migrate
    BY DEF LobbyInfos
<1> QED
    BY <1>1, <1>2, <1>3

LEMMA UnseatRoster ==
    ASSUME NEW infos \in LobbyInfos, NEW m
    PROVE  \A x \in Members(infos) : x # m => Unseat(infos, m).roster[x] = infos.roster[x]
<1> DEFINE r == [x \in Members(infos) \ {m} |-> infos.roster[x]]
<1>1. Unseat(infos, m) = [infos EXCEPT !.roster = r]
    BY DEF Unseat, Restrict
<1>2. \A x \in Members(infos) : x # m => r[x] = infos.roster[x]
    OBVIOUS
<1> HIDE DEF r
<1>3. [infos EXCEPT !.roster = r].roster = r
    BY DEF LobbyInfos
<1> QED
    BY <1>1, <1>2, <1>3

LEMMA OtherFields ==
    ASSUME NEW infos \in LobbyInfos, NEW v
    PROVE  /\ [infos EXCEPT !.room = v].roster = infos.roster
           /\ [infos EXCEPT !.owner = v].roster = infos.roster
           /\ [infos EXCEPT !.owner = v].room = infos.room
           /\ [infos EXCEPT !.owner = v].migrate = infos.migrate
    BY DEF LobbyInfos

LEMMA BroadcastSteady ==
    ASSUME NEW w, Streams(w, Words), accepting = {}, NEW p, NEW infos \in SeatedInfos
    PROVE  Steady(w, BroadcastLobby(w, p, infos), up)
<1> DEFINE m == [type |-> "infos", body |-> infos]
<1>1. m \in Words
    BY DEF Words
<1>2. Sent(w, BroadcastLobby(w, p, infos), up, p, Members(infos) \ {p}, m)
    BY <1>1, SendLines DEF BroadcastLobby
<1>3. m.type = "infos"
    OBVIOUS
<1> HIDE DEF m
<1> QED
    BY <1>2, <1>3, SentSteady

LEMMA BroadcastTells ==
    ASSUME NEW f, NEW f2, NEW w, Streams(w, Words), accepting = {}, NEW p \in Peers,
           NEW infos \in SeatedInfos, infos.owner = p, Hosting(f, p), Hosting(f2, p),
           f2[p].infos = infos, \A x \in Peers \ {p} : f2[x] = f[x], NEW z,
           \A x \in Peers \ {z} :
               /\ x \in Members(infos) <=> x \in Members(f[p].infos)
               /\ x \in Members(infos) => infos.roster[x] = f[p].infos.roster[x],
           NEW w2, w2 = BroadcastLobby(w, p, infos)
    PROVE  /\ Announces(f, f2, w, w2, up, p, z)
           /\ Steady(w, w2, up)
           /\ OwnWords(w) => OwnWords(w2)
<1> DEFINE to == Members(infos) \ {p}
           m == [type |-> "infos", body |-> infos]
<1>1. m \in Words
    BY DEF Words
<1>2. w2 = SendTo(w, p, to, "infos", infos)
    BY DEF BroadcastLobby
<1>3. Sent(w, w2, up, p, to, m)
    BY <1>1, <1>2, SendLines
<1>4. m.type = "infos" /\ m.body = infos
    OBVIOUS
<1>5. Sent(w, w2, up, p, Members(infos) \ {p}, m)
    BY <1>3
<1> HIDE DEF m, to
<1>6. Steady(w, w2, up)
    BY <1>3, <1>4, SentSteady
<1>7. OwnWords(w) => OwnWords(w2)
    BY <1>3, <1>4, SentOwn
<1>8. Announces(f, f2, w, w2, up, p, z)
    BY <1>4, <1>5 DEF Announces, SeatedInfos
<1> QED
    BY <1>6, <1>7, <1>8

-----------------------------------------------------------------------------
(* The host's calls.                                                       *)

LEMMA HostFacts ==
    ASSUME Orderly, NEW p \in Peers, State(p) = "hosting"
    PROVE  /\ Infos(p) \in LobbyInfos /\ Infos(p).owner = p /\ p \in Members(Infos(p))
           /\ Views(entry, wire)[p] = entry[p]
           /\ Hosting(Views(entry, wire), p) /\ Views(entry, wire)[p].infos = Infos(p)
           /\ ~Unmade
<1>1. Views(entry, wire)[p] = entry[p]
    BY NotLost
<1>2. Infos(p) \in LobbyInfos /\ Infos(p).owner = p /\ p \in Members(Infos(p))
    BY HostSits DEF Orderly, IInv
<1> QED
    BY <1>1, <1>2 DEF Hosting, State, Infos, Unmade, UnmadeBy

LEMMA OneBecomes ==
    ASSUME Orderly, NEW p \in Peers, NEW state, NEW infos, Becomes(p, state, infos),
           SameEnds(wire, wire'), ~Lost(entry, wire, p), state # "joined" \/ infos.owner = p
    PROVE  /\ \A x \in Peers \ {p} : Views(entry', wire')[x] = Views(entry, wire)[x]
           /\ Views(entry, wire)[p] = entry[p]
           /\ Views(entry', wire')[p].state = state
           /\ Views(entry', wire')[p].infos = infos
<1>1. /\ entry'[p].state = state /\ entry'[p].infos = infos
      /\ \A x \in Peers \ {p} : entry'[x] = entry[x]
    BY DEF Becomes, Orderly, IInv, EntriesOK
<1>2. ~Lost(entry', wire', p)
    BY <1>1 DEF Lost
<1> QED
    BY <1>1, <1>2, OneTurns

LEMMA UpdateLobbyFirm ==
    ASSUME Orderly, NEW p \in Peers, NEW room \in Rooms, UpdateLobby(p, room)
    PROVE  Firm'
<1> DEFINE infos == [Updated(p) EXCEPT !.room = room]
           f == Views(entry, wire)
           f2 == Views(entry', wire')
<1>1. /\ Spend("updates") /\ Becomes(p, State(p), infos) /\ wire' = BroadcastLobby(wire, p, infos)
      /\ RecordUpdate(p) /\ State(p) # "none" /\ Infos(p).owner = p
      /\ UNCHANGED <<details, up, accepting, late>>
    BY DEF UpdateLobby
<1>2. f[p] = entry[p] /\ ~Lost(entry, wire, p)
    BY <1>1, NotLost
<1>3. State(p) = "hosting"
    <2>1. f[p].state \notin {"joining", "joined"}
        BY <1>1, <1>2, Order DEF NotOwn, Infos
    <2>2. entry[p].state \in States
        BY Order DEF EntriesAre, EntryOK
    <2> QED
        BY <1>1, <1>2, <2>1, <2>2 DEF State, States
<1>4. Infos(p) \in LobbyInfos /\ p \in Members(Infos(p)) /\ ~Unmade
      /\ Hosting(f, p) /\ f[p].infos = Infos(p)
    BY <1>3, HostFacts
<1>5. /\ Updated(p) \in LobbyInfos /\ Members(Updated(p)) = Members(Infos(p))
      /\ Updated(p).owner = p
    BY <1>1, UpdatedOK DEF Orderly
<1>6. Updated(p) = Seat(Infos(p), p, Infos(p).roster[p] \cup {spent.updates + 1})
    BY <1>4 DEF Updated
<1>7. /\ \A x \in Members(Infos(p)) : x # p => Updated(p).roster[x] = Infos(p).roster[x]
      /\ Updated(p).roster[p] = Infos(p).roster[p] \cup {spent.updates + 1}
    BY <1>4, <1>6, SeatRoster
<1>8. infos \in LobbyInfos /\ Members(infos) = Members(Infos(p)) /\ infos.owner = p
      /\ infos.roster = Updated(p).roster
    BY <1>5, RoomOK, OtherFields, LobbyAssumption
<1> HIDE DEF infos
<1>9. infos \in SeatedInfos
    BY <1>4, <1>8 DEF SeatedInfos
<1>10. SameEnds(wire, wire')
    BY <1>1, <1>9, Order, BroadcastSteady DEF Steady
<1>11. /\ \A x \in Peers \ {p} : f2[x] = f[x]
       /\ f2[p].state = "hosting" /\ f2[p].infos = infos
    BY <1>1, <1>2, <1>3, <1>10, OneBecomes
<1>12. /\ newest'[p] = spent.updates + 1 /\ \A x \in Peers \ {p} : newest'[x] = newest[x]
    BY <1>1, <1>4, Order DEF RecordUpdate, HistoryOK
<1>13. EntriesAre(f) /\ Good(f, wire, up, newest) /\ NoEnd(wire, up) /\ Streams(wire, Words)
       /\ accepting = {}
    BY Order
<1> HIDE DEF f, f2
<1>14. \A x \in Peers \ {p} :
           /\ x \in Members(infos) <=> x \in Members(f[p].infos)
           /\ x \in Members(infos) => infos.roster[x] = f[p].infos.roster[x]
    BY <1>4, <1>7, <1>8
<1>15. Hosting(f2, p)
    BY <1>11 DEF Hosting
<1>16. /\ Announces(f, f2, wire, wire', up, p, p)
       /\ Steady(wire, wire', up)
       /\ OwnWords(wire) => OwnWords(wire')
    BY <1>1, <1>4, <1>8, <1>9, <1>11, <1>13, <1>14, <1>15, BroadcastTells
<1>17. newest'[p] \in infos.roster[p]
    BY <1>7, <1>8, <1>12
<1>18. KeptBy(wire', p, p, f2[p].infos, newest'[p])
    <2>1. ~Updating(wire', p) => newest'[p] \in f2[p].infos.roster[p]
        BY <1>11, <1>17
    <2>2. Updating(wire', p) => \E q \in Peers \ {p} : q # p /\ Some(Line(wire', p, q), "update")
        BY DEF Updating, Sends
    <2> QED
        BY <2>1, <2>2 DEF KeptBy
<1>19. Good(f2, wire', up, newest')
    BY <1>12, <1>13, <1>16, <1>18, GoodSettings
<1>20. Grown
    BY <1>1, Order, SpendGrows DEF Kinds
<1> QED
    BY <1>1, <1>4, <1>16, <1>19, <1>20, Firmly DEF f2

LEMMA KickMemberFirm ==
    ASSUME Orderly, NEW p \in Peers, NEW z \in Peers, KickMember(p, z)
    PROVE  Firm'
<1> DEFINE infos == Unseat(Infos(p), z)
           w1 == SendTo(wire, p, {z}, "destroy", None)
           f == Views(entry, wire)
           f2 == Views(entry', wire')
           m == [type |-> "destroy", body |-> None]
           to == {z}
<1>1. /\ Spend("kicks") /\ Becomes(p, "hosting", infos) /\ wire' = BroadcastLobby(w1, p, infos)
      /\ State(p) = "hosting" /\ z \in Members(Infos(p)) /\ z # Infos(p).owner
      /\ UNCHANGED <<details, newest, up, accepting, late>>
    BY DEF KickMember
<1>2. Infos(p) \in LobbyInfos /\ Infos(p).owner = p /\ p \in Members(Infos(p)) /\ ~Unmade
      /\ f[p] = entry[p] /\ Hosting(f, p) /\ f[p].infos = Infos(p)
    BY <1>1, HostFacts
<1>3. /\ infos \in LobbyInfos /\ Members(infos) = Members(Infos(p)) \ {z} /\ infos.owner = p
      /\ \A x \in Members(Infos(p)) : x # z => infos.roster[x] = Infos(p).roster[x]
    BY <1>2, UnseatOK, UnseatRoster
<1> HIDE DEF infos
<1>4. infos \in SeatedInfos
    BY <1>1, <1>2, <1>3 DEF SeatedInfos
<1>5. m \in Words
    BY WordsOf
<1>6. Sent(wire, w1, up, p, to, m)
    BY <1>5, Order, SendLines
<1>7. m.type = "destroy" /\ w1 = SendTo(wire, p, to, "destroy", None)
    OBVIOUS
<1>8. Sent(wire, w1, up, p, {z}, m)
    BY <1>6
<1> HIDE DEF m, w1, to
<1>9. Steady(wire, w1, up) /\ (OwnWords(wire) => OwnWords(w1))
    BY <1>6, <1>7, SentSteady, SentOwn
<1>10. Streams(w1, Words)
    BY <1>6 DEF Sent
<1>11. SameEnds(wire, wire')
    BY <1>1, <1>4, <1>9, <1>10, Order, BroadcastSteady DEF Steady, SameEnds
<1>12. ~Lost(entry, wire, p)
    BY <1>1, NotLost
<1>13. /\ \A x \in Peers \ {p} : f2[x] = f[x]
       /\ f2[p].state = "hosting" /\ f2[p].infos = infos
    BY <1>1, <1>11, <1>12, OneBecomes
<1>14. EntriesAre(f) /\ Good(f, wire, up, newest) /\ NoEnd(wire, up) /\ accepting = {}
    BY Order
<1> HIDE DEF f, f2
<1>15. \A x \in Peers \ {z} :
           /\ x \in Members(infos) <=> x \in Members(f[p].infos)
           /\ x \in Members(infos) => infos.roster[x] = f[p].infos.roster[x]
    BY <1>2, <1>3
<1>16. Hosting(f2, p)
    BY <1>13 DEF Hosting
<1>17. /\ Announces(f, f2, w1, wire', up, p, z)
       /\ Steady(w1, wire', up)
       /\ OwnWords(w1) => OwnWords(wire')
    BY <1>1, <1>2, <1>3, <1>4, <1>10, <1>13, <1>14, <1>15, <1>16, BroadcastTells
<1>18. /\ z \in Members(f[p].infos) /\ z \notin Members(f2[p].infos) /\ z \in Peers \ {p}
    BY <1>1, <1>2, <1>3, <1>13
<1>19. Good(f2, wire', up, newest)
    BY <1>7, <1>8, <1>14, <1>17, <1>18, GoodKick
<1>20. Grown
    BY <1>1, Order, SpendGrows DEF Kinds
<1>21. Steady(wire, wire', up)
    BY <1>9, <1>17, SteadyStep
<1> QED
    BY <1>1, <1>2, <1>9, <1>17, <1>19, <1>20, <1>21, Firmly DEF f2

-----------------------------------------------------------------------------
(* What a member tells the owner.                                            *)

(* The owner hears it, or the member would be out of step.                     *)
LEMMA Heard ==
    ASSUME Orderly, NEW p \in Peers, Infos(p).owner # p, ~Unheard(p, Infos(p).owner)
    PROVE  /\ Infos(p).owner \in Peers \ {p} /\ Infos(p).owner # None
           /\ Met(up, p, Infos(p).owner)
           /\ TheOwner(p) = {Infos(p).owner}
           /\ ~Some(Line(wire, Infos(p).owner, p), "eof")
           /\ ~Lost(entry, wire, p) /\ ~Unmade
<1> DEFINE o == Infos(p).owner
<1>1. o # None /\ <<p, o>> \in up /\ Reads(o, p)
    BY DEF Unheard
<1>2. o \in Peers \ {p}
    BY <1>1, Order DEF Pairs
<1>3. Met(up, p, o)
    BY <1>1, Order DEF Reads, Met
<1>4. TheOwner(p) = {o}
    BY <1>1 DEF TheOwner
<1>5. ~Some(Line(wire, o, p), "eof")
    BY <1>2, <1>3, Order DEF NoEnd
<1>6. ~Lost(entry, wire, p)
    BY <1>5 DEF Lost, Infos
<1>7. ~Unmade
    BY <1>1, NoInfosOK DEF Unmade, UnmadeBy, Infos
<1> QED
    BY <1>1, <1>2, <1>3, <1>4, <1>5, <1>6, <1>7

LEMMA UpdateMemberFirm ==
    ASSUME Orderly, NEW p \in Peers, UpdateMember(p)
    PROVE  Firm'
<1> DEFINE body == OwnAttributes(Updated(p), p)
           m == [type |-> "update", body |-> body]
           o == Infos(p).owner
           to == {o}
           f == Views(entry, wire)
           f2 == Views(entry', wire')
<1>1. /\ Spend("updates") /\ Becomes(p, State(p), Updated(p)) /\ RecordUpdate(p)
      /\ wire' = SendTo(wire, p, TheOwner(p), "update", body)
      /\ State(p) # "none" /\ Infos(p).owner # p
      /\ UNCHANGED <<details, up, accepting, late>>
    BY DEF UpdateMember
<1>2. ~Unheard(p, Infos(p).owner)
    BY DEF UpdateMember, GoesAstray, Orderly, Undisturbed
<1>3. /\ o \in Peers \ {p} /\ Met(up, p, o) /\ TheOwner(p) = {o}
      /\ ~Some(Line(wire, o, p), "eof") /\ ~Lost(entry, wire, p) /\ ~Unmade
    BY <1>1, <1>2, Heard
<1>4. /\ Updated(p) \in LobbyInfos /\ Members(Updated(p)) = Members(Infos(p))
      /\ Updated(p).owner = o /\ body \in SUBSET Nat
    BY UpdatedOK DEF Orderly
<1>5. Infos(p) \in LobbyInfos /\ State(p) \in States /\ (State(p) = "hosting" => o = p)
    BY EntryParts DEF Orderly, IInv
<1>6. State(p) \in {"joining", "joined"}
    BY <1>1, <1>5 DEF States
<1>7. Alike(p, Updated(p), Infos(p), TRUE)
    <2>1. CASE p \in Members(Infos(p))
        <3>1. Updated(p) = Seat(Infos(p), p, Infos(p).roster[p] \cup {spent.updates + 1})
            BY <2>1 DEF Updated
        <3>2. /\ \A x \in Members(Infos(p)) : x # p => Updated(p).roster[x] = Infos(p).roster[x]
              /\ Updated(p).room = Infos(p).room /\ Updated(p).migrate = Infos(p).migrate
            BY <1>5, <3>1, SeatRoster
        <3> QED
            BY <1>4, <3>2 DEF Alike
    <2>2. CASE p \notin Members(Infos(p))
        BY <2>2 DEF Updated, Alike
    <2> QED
        BY <2>1, <2>2
<1>8. IF p \in Members(Infos(p)) THEN newest'[p] \in body ELSE newest'[p] = newest[p]
    <2>1. CASE p \in Members(Infos(p))
        <3>1. Updated(p) = Seat(Infos(p), p, Infos(p).roster[p] \cup {spent.updates + 1})
            BY <2>1 DEF Updated
        <3>2. Updated(p).roster[p] = Infos(p).roster[p] \cup {spent.updates + 1}
            BY <1>5, <3>1, SeatRoster
        <3>3. newest'[p] = spent.updates + 1
            BY <1>1, <2>1, Order DEF RecordUpdate, HistoryOK
        <3> QED
            BY <1>4, <2>1, <3>2, <3>3 DEF OwnAttributes
    <2>2. CASE p \notin Members(Infos(p))
        BY <1>1, <2>2, Order DEF RecordUpdate, HistoryOK
    <2> QED
        BY <2>1, <2>2
<1>9. \A x \in Peers \ {p} : newest'[x] = newest[x]
    BY <1>1, Order DEF RecordUpdate, HistoryOK
<1>10. m \in Words
    BY <1>4, WordsOf
<1>11. wire' = SendTo(wire, p, to, "update", body)
    BY <1>1, <1>3
<1>12. Sent(wire, wire', up, p, to, m)
    BY <1>10, <1>11, Order, SendLines
<1>13. m.type = "update" /\ m.body = body
    OBVIOUS
<1>14. Sent(wire, wire', up, p, {o}, m)
    BY <1>12
<1> HIDE DEF m, body, to
<1>15. Steady(wire, wire', up) /\ (OwnWords(wire) => OwnWords(wire'))
    BY <1>12, <1>13, SentSteady, SentOwn
<1>16. /\ entry'[p].state = State(p) /\ entry'[p].infos = Updated(p)
       /\ \A x \in Peers \ {p} : entry'[x] = entry[x]
    BY <1>1 DEF Becomes, Orderly, IInv, EntriesOK
<1>17. ~Lost(entry', wire', p)
    <2>1. ~Some(Line(wire', o, p), "eof")
        BY <1>3, <1>15 DEF Steady, SameEnds
    <2>2. entry'[p].infos.owner = o
        BY <1>4, <1>16
    <2> QED
        BY <2>1, <2>2 DEF Lost
<1>18. /\ \A x \in Peers \ {p} : f2[x] = f[x]
       /\ f[p] = entry[p] /\ f2[p] = entry'[p]
    BY <1>3, <1>15, <1>16, <1>17, OneTurns DEF Steady
<1>19. EntriesAre(f) /\ Good(f, wire, up, newest)
    BY Order
<1>20. f[p].state = State(p) /\ f[p].infos = Infos(p)
    BY <1>18 DEF State, Infos
<1> HIDE DEF f, f2
<1>21. /\ f[p].state \in {"joining", "joined"} /\ f2[p].state = f[p].state
       /\ \A x \in Peers \ {p} : f2[x] = f[x] /\ newest'[x] = newest[x]
       /\ o = f[p].infos.owner
    BY <1>6, <1>9, <1>16, <1>18, <1>20
<1>22. Alters(p, f2[p].infos, f[p].infos)
    BY <1>7, <1>16, <1>18, <1>20 DEF Alters
<1>23. IF p \in Members(f[p].infos) THEN newest'[p] \in m.body ELSE newest'[p] = newest[p]
    BY <1>8, <1>13, <1>20
<1> HIDE DEF o
<1>24. o \in Peers \ {p} /\ Met(up, p, o)
    BY <1>3
<1>25. Good(f2, wire', up, newest')
    BY <1>13, <1>14, <1>19, <1>21, <1>22, <1>23, <1>24, GoodUpdates
<1>26. Grown
    BY <1>1, Order, SpendGrows DEF Kinds
<1> QED
    BY <1>1, <1>3, <1>15, <1>25, <1>26, Firmly DEF f2

LEMMA MemberLeavesFirm ==
    ASSUME Orderly, NEW p \in Peers, LeaveLobby(p), State(p) # "hosting"
    PROVE  Firm'
<1> DEFINE m == [type |-> "leave", body |-> None]
           o == Infos(p).owner
           to == {o}
           f == Views(entry, wire)
           f2 == Views(entry', wire')
<1>1. /\ Spend("leaves") /\ Erase(p) /\ wire' = SendTo(wire, p, TheOwner(p), "leave", None)
      /\ State(p) # "none" /\ UNCHANGED <<details, newest, up, accepting, late>>
    BY DEF LeaveLobby
<1>2. ~Unheard(p, Infos(p).owner)
    BY DEF LeaveLobby, GoesAstray, Orderly, Undisturbed
<1>3. State(p) \in {"joining", "joined"}
    BY EntryParts DEF Orderly, IInv, States, LeaveLobby
<1>4. o # p
    <2>1. ASSUME o = p PROVE FALSE
        <3>1. f[p] = entry[p]
            BY <2>1, NotLost
        <3> QED
            BY <1>3, <2>1, <3>1, Order DEF NotOwn, State, Infos
    <2> QED
        BY <2>1
<1>5. /\ o \in Peers \ {p} /\ Met(up, p, o) /\ TheOwner(p) = {o}
      /\ ~Lost(entry, wire, p) /\ ~Unmade
    BY <1>2, <1>4, Heard
<1>6. m \in Words
    BY WordsOf
<1>7. wire' = SendTo(wire, p, to, "leave", None)
    BY <1>1, <1>5
<1>8. Sent(wire, wire', up, p, to, m)
    BY <1>6, <1>7, Order, SendLines
<1>9. m.type = "leave"
    OBVIOUS
<1>10. Sent(wire, wire', up, p, {o}, m)
    BY <1>8
<1> HIDE DEF m, to
<1>11. Steady(wire, wire', up) /\ (OwnWords(wire) => OwnWords(wire'))
    BY <1>8, <1>9, SentSteady, SentOwn
<1>12. /\ entry'[p] = Absent /\ \A x \in Peers \ {p} : entry'[x] = entry[x]
    BY <1>1 DEF Erase, Orderly, IInv, EntriesOK
<1>13. entry'[p].state = "none"
    BY <1>12 DEF Absent
<1>14. ~Lost(entry', wire', p)
    BY <1>13 DEF Lost
<1>15. /\ \A x \in Peers \ {p} : f2[x] = f[x]
       /\ f[p] = entry[p] /\ f2[p] = entry'[p]
    BY <1>5, <1>11, <1>12, <1>14, OneTurns DEF Steady
<1>16. EntriesAre(f) /\ Good(f, wire, up, newest)
    BY Order
<1>17. f[p].state \in {"joining", "joined"} /\ f2[p].state = "none"
    BY <1>3, <1>13, <1>15 DEF State
<1> HIDE DEF f, f2, o
<1>18. Good(f2, wire', up, newest)
    BY <1>5, <1>9, <1>10, <1>15, <1>16, <1>17, GoodQuits
<1>19. Grown
    BY <1>1, Order, SpendGrows DEF Kinds
<1> QED
    BY <1>1, <1>5, <1>11, <1>18, <1>19, Firmly DEF f2

-----------------------------------------------------------------------------
(* The host gives the lobby up.                                              *)

LEMMA HandingOver ==
    ASSUME Orderly, Spend("handovers")
    PROVE  /\ Grown /\ spent'["handovers"] # 0
           /\ up = Pairs
           /\ \A x \in Peers : \A y \in Peers \ {x} : Met(up, x, y)
<1>1. "handovers" \in Kinds /\ "crashes" \in Kinds
    BY DEF Kinds
<1>2. Grown /\ spent'["handovers"] = spent["handovers"] + 1
    BY <1>1, Order, SpendGrows
<1>3. spent'["handovers"] # 0
    BY <1>1, <1>2 DEF Grown
<1>4. spent'["crashes"] = 0
    BY <1>3 DEF Orderly, Undisturbed
<1>5. spent["crashes"] = 0
    BY <1>1, <1>2, <1>4 DEF Grown
<1>6. up = Pairs
    BY <1>5 DEF Orderly, Firm
<1>7. \A x \in Peers : \A y \in Peers \ {x} : Met(up, x, y)
    BY <1>6 DEF Met, Pairs
<1> QED
    BY <1>2, <1>3, <1>6, <1>7

LEMMA NoWords ==
    ASSUME Streams(wire, Words), ~WordsForOwner, NEW x \in Peers
    PROVE  ~Updating(wire, x) /\ ~Leaving(wire, x)
<1>1. ASSUME NEW q \in Peers \ {x}, NEW type \in {"update", "leave"}, Some(Line(wire, x, q), type)
      PROVE  FALSE
    <2>1. PICK i \in 1 .. Len(Line(wire, x, q)) : Line(wire, x, q)[i].type = type
        BY <1>1 DEF Some
    <2>2. <<x, q>> \in Pairs /\ Line(wire, x, q) = wire[<<x, q>>]
        BY DEF Pairs, Line
    <2>3. i \in DOMAIN wire[<<x, q>>]
        BY <2>1, <2>2, LineType
    <2>4. wire[<<x, q>>][i] \in Range(wire[<<x, q>>])
        BY <2>3 DEF Range
    <2> QED
        BY <2>1, <2>2, <2>4 DEF WordsForOwner
<1> QED
    BY <1>1 DEF Updating, Leaving, Sends

(* To one that is on its roster.                                             *)
LEMMA NamesFirm ==
    ASSUME Orderly, NEW p \in Peers, State(p) = "hosting", Spend("handovers"), ~WordsForOwner,
           NEW infos \in SeatedInfos, infos.owner \in Peers \ {p},
           wire' = BroadcastLobby(wire, p, infos),
           \A x \in Peers \ {p} : x \in Members(infos) <=> x \in Members(Infos(p)),
           \A x \in Members(infos) : infos.roster[x] = Infos(p).roster[x],
           \A x \in Peers \ {p} : entry'[x] = entry[x],
           \/ entry'[p].state = "joined" /\ entry'[p].infos = infos /\ p \in Members(infos)
           \/ entry'[p].state = "none" /\ p \notin Members(infos),
           UNCHANGED <<details, newest, up, accepting, late>>
    PROVE  Firm'
<1> DEFINE m == [type |-> "infos", body |-> infos]
           to == Members(infos) \ {p}
           o == infos.owner
           f == Views(entry, wire)
           f2 == Views(entry', wire')
<1>1. /\ f[p] = entry[p] /\ Hosting(f, p) /\ f[p].infos = Infos(p) /\ ~Unmade
      /\ ~Lost(entry, wire, p)
    BY HostFacts, NotLost
<1>2. Grown /\ spent'["handovers"] # 0 /\ \A x \in Peers : \A y \in Peers \ {x} : Met(up, x, y)
    BY HandingOver
<1>3. \A x \in Peers : ~Updating(wire, x) /\ ~Leaving(wire, x)
    BY Order, NoWords
<1>4. Steady(wire, wire', up)
    BY Order, BroadcastSteady
<1>5. m \in Words
    BY DEF Words
<1>6. Sent(wire, wire', up, p, to, m)
    BY <1>5, Order, SendLines DEF BroadcastLobby
<1>7. m.type = "infos" /\ m.body = infos /\ \A x : x \in to <=> x \in Members(infos) /\ x # p
    OBVIOUS
<1>8. o \in to /\ o \in Peers \ {p} /\ infos.owner = o
    BY DEF SeatedInfos
<1>9. ~Some(Line(wire, o, p), "eof")
    BY <1>2, <1>8, Order DEF NoEnd
<1>10. ~Lost(entry', wire', p)
    <2>1. ~Some(Line(wire', o, p), "eof")
        BY <1>4, <1>8, <1>9 DEF Steady, SameEnds
    <2> QED
        BY <2>1 DEF Lost
<1>11. /\ \A x \in Peers \ {p} : f2[x] = f[x]
       /\ f2[p] = entry'[p]
    BY <1>1, <1>4, <1>10, OneTurns DEF Steady
<1>12. EntriesAre(f) /\ Good(f, wire, up, newest) /\ NoEnd(wire, up)
    BY Order
<1> HIDE DEF m, to, o, f, f2
<1>13. /\ \A x \in Peers \ {p} : x \in Members(m.body) <=> x \in Members(f[p].infos)
       /\ \A x \in Peers : m.body.roster[x] = f[p].infos.roster[x] \/ x \notin Members(m.body)
       /\ \A x : x \in to <=> x \in Members(m.body) /\ x # p
       /\ m.body.owner = o
    BY <1>1, <1>7, <1>8
<1>14. \/ f2[p].state = "joined" /\ f2[p].infos = m.body /\ p \in Members(m.body)
       \/ f2[p].state = "none" /\ p \notin Members(m.body)
    BY <1>7, <1>11
<1>15. Good(f2, wire', up, newest)
    BY <1>1, <1>2, <1>3, <1>6, <1>7, <1>8, <1>11, <1>12, <1>13, <1>14, GoodNames
<1> QED
    BY <1>1, <1>2, <1>4, <1>15, Firmly DEF f2

LEMMA PromoteMemberFirm ==
    ASSUME Orderly, NEW p \in Peers, NEW o \in Peers, PromoteMember(p, o)
    PROVE  Firm'
<1> DEFINE infos == [Infos(p) EXCEPT !.owner = o]
<1>1. /\ State(p) = "hosting" /\ o \in Members(infos) /\ Spend("handovers")
      /\ Becomes(p, "joined", infos) /\ wire' = BroadcastLobby(wire, p, infos)
      /\ UNCHANGED <<details, newest, up, accepting, late>>
    BY DEF PromoteMember
<1>2. o # p /\ ~WordsForOwner
    BY DEF PromoteMember, GoesAstray, Orderly, Undisturbed
<1>3. Infos(p) \in LobbyInfos /\ p \in Members(Infos(p))
    BY <1>1, HostFacts
<1>4. infos \in LobbyInfos /\ Members(infos) = Members(Infos(p)) /\ infos.owner = o
      /\ infos.roster = Infos(p).roster
    BY <1>3, OwnedBy, OtherFields
<1> HIDE DEF infos
<1>5. infos \in SeatedInfos
    BY <1>1, <1>4 DEF SeatedInfos
<1>6. /\ entry'[p].state = "joined" /\ entry'[p].infos = infos
      /\ \A x \in Peers \ {p} : entry'[x] = entry[x]
    BY <1>1 DEF Becomes, Orderly, IInv, EntriesOK
<1> QED
    BY <1>1, <1>2, <1>3, <1>4, <1>5, <1>6, NamesFirm

LEMMA HostLeavesFirm ==
    ASSUME Orderly, NEW p \in Peers, LeaveLobby(p), State(p) = "hosting"
    PROVE  Firm'
<1> DEFINE heir == ElectOwner(Infos(p), p)
           left == Unseat(Infos(p), p)
           passed == [left EXCEPT !.owner = heir]
           f == Views(entry, wire)
           f2 == Views(entry', wire')
<1>1. /\ Spend("handovers") /\ Erase(p) /\ UNCHANGED <<details, newest, up, accepting, late>>
      /\ wire' = IF heir = None
                 THEN SendTo(wire, p, Members(Infos(p)) \ {p}, "destroy", None)
                 ELSE BroadcastLobby(wire, p, passed)
    BY DEF LeaveLobby, CloseHostedLobby
<1>2. ~WordsForOwner
    BY DEF LeaveLobby, GoesAstray, Orderly, Undisturbed
<1>3. /\ Infos(p) \in LobbyInfos /\ ~Unmade
      /\ f[p] = entry[p] /\ Hosting(f, p) /\ f[p].infos = Infos(p) /\ ~Lost(entry, wire, p)
    BY HostFacts, NotLost
<1>4. heir \in (Members(Infos(p)) \ {p}) \cup {None}
    BY <1>3, HeirStays
<1>5. /\ left \in LobbyInfos /\ Members(left) = Members(Infos(p)) \ {p}
      /\ \A x \in Members(Infos(p)) : x # p => left.roster[x] = Infos(p).roster[x]
    BY <1>3, UnseatOK, UnseatRoster
<1>6. /\ entry'[p] = Absent /\ \A x \in Peers \ {p} : entry'[x] = entry[x]
    BY <1>1 DEF Erase, Orderly, IInv, EntriesOK
<1>7. entry'[p].state = "none"
    BY <1>6 DEF Absent
<1> HIDE DEF heir, left
<1>8. CASE heir = None
    <2> DEFINE m == [type |-> "destroy", body |-> None]
               to == Members(Infos(p)) \ {p}
    <2>1. m \in Words
        BY WordsOf
    <2>2. Sent(wire, wire', up, p, to, m)
        BY <1>1, <1>8, <2>1, Order, SendLines
    <2>3. m.type = "destroy"
          /\ \A x : x \in to <=> x \in Members(f[p].infos) /\ x # p
        BY <1>3
    <2> HIDE DEF m, to
    <2>4. Steady(wire, wire', up)
        BY <2>2, <2>3, SentSteady
    <2>5. ~Lost(entry', wire', p)
        BY <1>7 DEF Lost
    <2>6. /\ \A x \in Peers \ {p} : f2[x] = f[x]
          /\ f2[p] = entry'[p]
        BY <1>3, <1>6, <2>4, <2>5, OneTurns DEF Steady
    <2>7. EntriesAre(f) /\ Good(f, wire, up, newest) /\ NoEnd(wire, up)
        BY Order
    <2> HIDE DEF f, f2
    <2>8. f2[p].state = "none"
        BY <1>7, <2>6
    <2>9. Good(f2, wire', up, newest)
        BY <1>3, <2>2, <2>3, <2>6, <2>7, <2>8, GoodCloses
    <2>10. Grown /\ spent'["handovers"] # 0
        BY <1>1, HandingOver
    <2> QED
        BY <1>1, <1>3, <2>4, <2>9, <2>10, Firmly DEF f2
<1>9. CASE heir # None
    <2>1. heir \in Members(left) /\ heir \in Peers \ {p}
        BY <1>3, <1>4, <1>5, <1>9, InfosParts
    <2>2. /\ passed \in LobbyInfos /\ Members(passed) = Members(left) /\ passed.owner = heir
          /\ passed.roster = left.roster
        BY <1>5, <2>1, OwnedBy, OtherFields
    <2>3. wire' = BroadcastLobby(wire, p, passed)
        BY <1>1, <1>9
    <2> HIDE DEF passed
    <2>4. passed \in SeatedInfos
        BY <2>1, <2>2 DEF SeatedInfos
    <2>5. /\ \A x \in Peers \ {p} : x \in Members(passed) <=> x \in Members(Infos(p))
          /\ \A x \in Members(passed) : passed.roster[x] = Infos(p).roster[x]
          /\ p \notin Members(passed)
        BY <1>5, <2>2
    <2> QED
        BY <1>1, <1>2, <1>6, <1>7, <2>1, <2>2, <2>3, <2>4, <2>5, NamesFirm
<1> QED
    BY <1>8, <1>9

LEMMA GameFirm ==
    ASSUME Orderly, NEW p \in Peers, Game(p)
    PROVE  Firm'
<1>1. ASSUME NEW room \in Rooms, NEW migrate \in Migrations, CreateLobby(p, room, migrate)
      PROVE  Firm'
    BY <1>1, CreateLobbyFirm
<1>2. ASSUME NEW h \in Peers, FindLobby(p, h) PROVE Firm'
    BY <1>2, FindLobbyFirm
<1>3. CASE JoinLobby(p)
    BY <1>3, JoinLobbyFirm
<1>4. CASE JoinLobbyById(p)
    BY <1>4, JoinLobbyByIdFirm
<1>5. CASE LeaveLobby(p)
    BY <1>5, MemberLeavesFirm, HostLeavesFirm
<1>6. ASSUME NEW room \in Rooms, UpdateLobby(p, room) PROVE Firm'
    BY <1>6, UpdateLobbyFirm
<1>7. CASE UpdateMember(p)
    BY <1>7, UpdateMemberFirm
<1>8. ASSUME NEW m \in Peers, PromoteMember(p, m) PROVE Firm'
    BY <1>8, PromoteMemberFirm
<1>9. ASSUME NEW m \in Peers, KickMember(p, m) PROVE Firm'
    BY <1>9, KickMemberFirm
<1> QED
    BY <1>1, <1>2, <1>3, <1>4, <1>5, <1>6, <1>7, <1>8, <1>9 DEF Game

-----------------------------------------------------------------------------
(* p takes m, the first message of q, which leaves w; what it holds of the     *)
(* lobby and what it sends are up to what it makes of it.                      *)
Takes(p, q, m, w) ==
    /\ Orderly
    /\ p \in Peers /\ q \in Peers \ {p} /\ Met(up, p, q) /\ Met(up, q, p)
    /\ Read(wire, w, q, p, m) /\ m.type # "eof"
    /\ UNCHANGED <<details, newest, spent, up, accepting, late>>

LEMMA Taken ==
    ASSUME NEW p, NEW q, NEW m, NEW w, Takes(p, q, m, w)
    PROVE  /\ Orderly /\ p \in Peers /\ q \in Peers \ {p}
           /\ Steady(wire, w, up) /\ Streams(w, Words) /\ accepting = {}
           /\ OwnWords(wire) => OwnWords(w) /\ (m.type = "infos" => m.body.owner = q)
           /\ Unmade => Unasked(w) /\ m.type = "request"
           /\ Some(Line(wire, q, p), m.type)
<1>1. p \in Peers /\ q \in Peers \ {p} /\ Read(wire, w, q, p, m) /\ m.type # "eof" /\ Met(up, p, q)
    BY DEF Takes
<1>2. Steady(wire, w, up)
    BY <1>1, ReadSteady
<1>3. Streams(w, Words)
    BY <1>1 DEF Read
<1>4. OwnWords(wire) => OwnWords(w) /\ (m.type = "infos" => m.body.owner = q)
    BY <1>1, ReadOwn
<1>5. Unmade => Unasked(w) /\ m.type = "request"
    BY <1>1, ReadUnasked DEF Unmade
<1>6. Some(Line(wire, q, p), m.type)
    BY <1>1, ReadMsg
<1>7. Orderly /\ accepting = {}
    BY Order DEF Takes
<1> QED
    BY <1>1, <1>2, <1>3, <1>4, <1>5, <1>6, <1>7

(* It makes nothing of it.                                                   *)
LEMMA IgnoredFirm ==
    ASSUME NEW p, NEW q, NEW m, NEW w, Takes(p, q, m, w), UNCHANGED entry, wire' = w,
           NoMatter(Views(entry, wire), wire, q, p, m)
    PROVE  Firm'
<1> DEFINE f == Views(entry, wire)
<1>1. /\ Orderly /\ p \in Peers /\ q \in Peers \ {p} /\ Steady(wire, w, up)
      /\ OwnWords(wire) => OwnWords(w)
      /\ Unmade => Unasked(w)
    BY Taken
<1>2. Read(wire, w, q, p, m) /\ UNCHANGED <<details, newest, spent, up, accepting, late>>
    BY DEF Takes
<1>3. EntriesAre(f) /\ Good(f, wire, up, newest) /\ EntriesAre(entry)
    BY <1>1, Order
<1>4. Views(entry, w) = f
    BY <1>1, <1>3, SameViews DEF Steady
<1> HIDE DEF f
<1>5. Good(f, w, up, newest)
    BY <1>1, <1>2, <1>3, GoodNoMatter DEF f
<1>6. Good(Views(entry', wire'), wire', up, newest')
    BY <1>2, <1>4, <1>5
<1>7. Unmade => Unmade'
    BY <1>1, <1>2 DEF Unmade
<1> QED
    BY <1>1, <1>2, <1>6, <1>7, Firmly

(* Nothing else changes than what it holds.                                   *)
LEMMA HeededFirm ==
    ASSUME NEW p, NEW q, NEW m, NEW w, Takes(p, q, m, w), wire' = w, ~Unmade,
           Good(Views(entry', wire'), wire', up, newest)
    PROVE  Firm'
<1>1. /\ Orderly /\ Steady(wire, w, up) /\ (OwnWords(wire) => OwnWords(w))
    BY Taken
<1>2. UNCHANGED <<details, newest, spent, up, accepting, late>>
    BY DEF Takes
<1> QED
    BY <1>1, <1>2, Firmly

LEMMA OnRequestFirm ==
    ASSUME NEW p, NEW q, NEW m, NEW w, Takes(p, q, m, w), m.type = "request",
           OnRequest(p, q, m.body, w)
    PROVE  Firm'
<1> DEFINE f == Views(entry, wire)
           f2 == Views(entry', wire')
           seated == q \in Members(Infos(p))
           infos == IF seated THEN Infos(p) ELSE Seat(Infos(p), q, {})
<1>1. /\ Orderly /\ p \in Peers /\ q \in Peers \ {p} /\ Steady(wire, w, up) /\ Streams(w, Words)
      /\ accepting = {} /\ (OwnWords(wire) => OwnWords(w)) /\ Some(Line(wire, q, p), m.type)
    BY Taken
<1>2. /\ Read(wire, w, q, p, m) /\ UNCHANGED <<details, newest, spent, up, accepting, late>>
      /\ Met(up, p, q)
    BY DEF Takes
<1>3. NoMatter(f, wire, q, p, m)
    BY DEF NoMatter, IsAdmission, IsNaming, IsWord
<1>4. EntriesAre(f) /\ Good(f, wire, up, newest) /\ EntriesAre(entry) /\ NoEnd(wire, up)
    BY <1>1, Order
<1>5. \/ State(p) # "hosting" /\ wire' = w /\ UNCHANGED entry
      \/ /\ State(p) = "hosting" /\ Becomes(p, "hosting", infos)
         /\ wire' = BroadcastLobby(SendTo(w, p, {q}, "response", TRUE), p, infos)
      \/ State(p) = "hosting" /\ wire' = SendTo(w, p, {q}, "response", FALSE) /\ UNCHANGED entry
    BY Zenon DEF OnRequest
<1> HIDE DEF infos
<1>6. CASE wire' = w /\ UNCHANGED entry
    BY <1>3, <1>6, IgnoredFirm
<1>7. CASE State(p) = "hosting" /\ wire' = SendTo(w, p, {q}, "response", FALSE) /\ UNCHANGED entry
    <2> DEFINE m2 == [type |-> "response", body |-> FALSE]
               to == {q}
    <2>1. m2 \in Words
        BY WordsOf
    <2>2. wire' = SendTo(w, p, to, "response", FALSE)
        BY <1>7
    <2>3. Sent(w, wire', up, p, to, m2)
        BY <1>1, <2>1, <2>2, SendLines
    <2>4. Sent(w, wire', up, p, {q}, m2)
        BY <2>3
    <2>5. m2.type = "response" /\ ~IsAdmission(m2)
        BY DEF IsAdmission
    <2> HIDE DEF m2, to
    <2>6. Steady(w, wire', up) /\ (OwnWords(w) => OwnWords(wire'))
        BY <2>3, <2>5, SentSteady, SentOwn
    <2>7. Steady(wire, wire', up)
        BY <1>1, <2>6, SteadyStep
    <2>8. ~Unmade /\ Hosting(f, p)
        BY <1>1, <1>7, HostFacts
    <2>9. f2 = f
        BY <1>4, <1>7, <2>7, SameViews DEF Steady
    <2> HIDE DEF f, f2
    <2>10. Good(f, w, up, newest)
        BY <1>1, <1>2, <1>3, <1>4, GoodNoMatter
    <2>11. f[q].state = "joining" => f[q].infos.owner \in {None, p}
        BY <1>1, <1>4 DEF Good, Settling, Requests
    <2>12. Good(f, wire', up, newest)
        BY <1>1, <1>4, <2>4, <2>5, <2>8, <2>10, <2>11, GoodRefuse
    <2> QED
        BY <1>1, <1>2, <2>6, <2>7, <2>8, <2>9, <2>12, Firmly DEF f2
<1>8. CASE /\ State(p) = "hosting" /\ Becomes(p, "hosting", infos)
           /\ wire' = BroadcastLobby(SendTo(w, p, {q}, "response", TRUE), p, infos)
    <2> DEFINE m2 == [type |-> "response", body |-> TRUE]
               to == {q}
               w2 == SendTo(w, p, to, "response", TRUE)
    <2>1. m2 \in Words
        BY WordsOf
    <2>2. Sent(w, w2, up, p, to, m2)
        BY <1>1, <2>1, SendLines
    <2>3. Sent(w, w2, up, p, {q}, m2)
        BY <2>2
    <2>4. m2.type = "response" /\ IsAdmission(m2) /\ wire' = BroadcastLobby(w2, p, infos)
        BY <1>8 DEF IsAdmission
    <2> HIDE DEF m2, to, w2
    <2>5. Steady(w, w2, up) /\ (OwnWords(w) => OwnWords(w2)) /\ Streams(w2, Words)
        <3>1. m2.type # "eof" /\ m2.type # "infos"
            BY <2>4
        <3>2. Steady(w, w2, up)
            BY <2>2, <3>1, SentSteady
        <3>3. OwnWords(w) => OwnWords(w2)
            BY <2>2, <3>1, SentOwn
        <3>4. Streams(w2, Words)
            BY <2>2, Zenon DEF Sent
        <3> QED
            BY <3>2, <3>3, <3>4
    <2>6. Infos(p) \in LobbyInfos /\ Infos(p).owner = p /\ p \in Members(Infos(p)) /\ ~Unmade
          /\ Hosting(f, p) /\ f[p].infos = Infos(p) /\ ~Lost(entry, wire, p)
        BY <1>1, <1>8, HostFacts, NotLost
    <2>7. /\ infos \in LobbyInfos /\ Members(infos) = Members(Infos(p)) \cup {q} /\ infos.owner = p
          /\ \A x \in Members(Infos(p)) : x # q => infos.roster[x] = Infos(p).roster[x]
        <3>1. CASE seated
            BY <2>6, <3>1 DEF infos
        <3>2. CASE ~seated
            <4>1. {} \in SUBSET Nat /\ infos = Seat(Infos(p), q, {})
                BY <3>2 DEF infos
            <4> QED
                BY <1>1, <2>6, <4>1, SeatOK, SeatRoster
        <3> QED
            BY <3>1, <3>2
    <2>8. infos \in SeatedInfos
        BY <2>6, <2>7 DEF SeatedInfos
    <2>9. Steady(w2, wire', up)
        BY <1>1, <2>4, <2>5, <2>8, BroadcastSteady
    <2>10. Steady(w, wire', up)
        BY <2>5, <2>9, SteadyStep
    <2>11. Steady(wire, wire', up)
        BY <1>1, <2>10, SteadyStep
    <2>12. /\ \A x \in Peers \ {p} : f2[x] = f[x]
           /\ f2[p].state = "hosting" /\ f2[p].infos = infos
        <3> DEFINE state == "hosting"
        <3>1. Becomes(p, state, infos) /\ state = "hosting"
            BY <1>8
        <3>2. SameEnds(wire, wire')
            BY <2>11 DEF Steady
        <3>3. state # "joined" \/ infos.owner = p
            BY <3>1
        <3> HIDE DEF state
        <3> QED
            BY <1>1, <2>6, <3>1, <3>2, <3>3, OneBecomes
    <2> HIDE DEF f, f2
    <2>13. Hosting(f2, p)
        BY <2>12 DEF Hosting
    <2>14. \A x \in Peers \ {q} :
             /\ x \in Members(infos) <=> x \in Members(f[p].infos)
             /\ x \in Members(infos) => infos.roster[x] = f[p].infos.roster[x]
        BY <2>6, <2>7
    <2>15. /\ Announces(f, f2, w2, wire', up, p, q)
           /\ OwnWords(w2) => OwnWords(wire')
        BY <1>1, <2>4, <2>5, <2>6, <2>7, <2>8, <2>12, <2>13, <2>14, BroadcastTells
    <2>16. q \in Members(f2[p].infos)
        BY <2>7, <2>12
    <2>17. Good(f2, wire', up, newest)
        BY <1>1, <1>2, <1>4, <2>3, <2>4, <2>15, <2>16, GoodAdmits
    <2> QED
        BY <1>1, <1>2, <2>5, <2>6, <2>11, <2>15, <2>17, Firmly DEF f2
<1> QED
    BY <1>5, <1>6, <1>7, <1>8

(* It will hear of it if its owner is gone.                                   *)
Hears(e, p) ==
    e.state = "joined" /\ e.infos.owner # p =>
        e.infos.owner \in Peers /\ Met(up, p, e.infos.owner)

LEMMA HearsNotLost ==
    ASSUME NEW e, NEW w, NEW p \in Peers, Hears(e[p], p), NoEnd(w, up)
    PROVE  ~Lost(e, w, p)
    BY DEF Hears, Lost, NoEnd

(* What it holds changes, and nothing else.                                   *)
LEMMA ReaderTurns ==
    ASSUME NEW p, NEW q, NEW m, NEW w, Takes(p, q, m, w), wire' = w,
           \A x \in Peers \ {p} : entry'[x] = entry[x],
           Hears(entry[p], p), Hears(entry'[p], p)
    PROVE  /\ \A x \in Peers \ {p} : Views(entry', wire')[x] = Views(entry, wire)[x]
           /\ Views(entry, wire)[p] = entry[p]
           /\ Views(entry', wire')[p] = entry'[p]
           /\ EntriesAre(Views(entry, wire)) /\ Good(Views(entry, wire), wire, up, newest)
<1>1. Orderly /\ p \in Peers /\ Steady(wire, w, up)
    BY Taken
<1>2. NoEnd(wire, up) /\ Calm(wire, up)
    BY <1>1, Order
<1>3. NoEnd(wire', up)
    BY <1>1, <1>2, CalmSteady DEF Calm
<1>4. ~Lost(entry, wire, p) /\ ~Lost(entry', wire', p)
    BY <1>1, <1>2, <1>3, HearsNotLost
<1>5. SameEnds(wire, wire')
    BY <1>1 DEF Steady
<1> QED
    BY <1>1, <1>4, <1>5, OneTurns, Order

LEMMA BecomesThis ==
    ASSUME Orderly, NEW p \in Peers, NEW state, NEW infos, Becomes(p, state, infos)
    PROVE  /\ entry'[p].state = state /\ entry'[p].infos = infos
           /\ \A x \in Peers \ {p} : entry'[x] = entry[x]
    BY DEF Becomes, Orderly, IInv, EntriesOK

LEMMA ErasesIt ==
    ASSUME Orderly, NEW p \in Peers, Erase(p)
    PROVE  /\ entry'[p].state = "none" /\ entry'[p].infos = NoInfos
           /\ \A x \in Peers \ {p} : entry'[x] = entry[x]
<1>1. /\ entry'[p] = Absent /\ \A x \in Peers \ {p} : entry'[x] = entry[x]
    BY DEF Erase, Orderly, IInv, EntriesOK
<1> QED
    BY <1>1 DEF Absent

LEMMA NotAstray ==
    ASSUME Orderly, NEW when, GoesAstray(when)
    PROVE  ~when
    BY DEF GoesAstray, Orderly, Undisturbed

-----------------------------------------------------------------------------
(* An answer.                                                              *)

LEMMA AdmittedFirm ==
    ASSUME NEW p, NEW q, NEW m, NEW w, Takes(p, q, m, w), m.type = "response", m.body = TRUE,
           OnResponse(p, q, m.body, w)
    PROVE  Firm'
<1> DEFINE f == Views(entry, wire)
           f2 == Views(entry', wire')
           infos == [Infos(p) EXCEPT !.owner = q]
           state == "joined"
<1>1. /\ Orderly /\ p \in Peers /\ q \in Peers \ {p} /\ Some(Line(wire, q, p), "response")
      /\ ~Unmade
    BY Taken
<1>2. Read(wire, w, q, p, m) /\ Met(up, p, q) /\ UNCHANGED newest
    BY DEF Takes
<1>3. State(p) = "joining"
    BY <1>1, NotAstray DEF OnResponse
<1>4. EntriesAre(f) /\ Good(f, wire, up, newest) /\ JoinsOK /\ f[p] = entry[p]
    BY <1>1, <1>3, Order, NotLost DEF Orderly, IInv
<1>5. Infos(p).owner \in {None, q}
    BY <1>1, <1>3, <1>4 DEF Good, Settling, Requests, State, Infos
<1>6. pending[p] # <<>>
    <2>1. "waiting" \in Range(pending[p]) /\ pending[p] \in Seq({"waiting", "answered"})
        BY <1>1, <1>3, <1>4 DEF JoinsOK, JoiningIsPending
    <2> QED
        BY <2>1 DEF Range
<1>7. wire' = w /\ Becomes(p, state, infos)
    BY <1>3, <1>5, <1>6 DEF OnResponse
<1>8. Infos(p) \in LobbyInfos
    BY <1>1, EntryParts DEF Orderly, IInv
<1>9. infos.owner = q /\ Members(infos) = Members(Infos(p))
    BY <1>8, OtherFields DEF LobbyInfos, Members
<1>10. state = "joined"
    OBVIOUS
<1> HIDE DEF infos, state
<1>11. /\ entry'[p].state = state /\ entry'[p].infos = infos
       /\ \A x \in Peers \ {p} : entry'[x] = entry[x]
    BY <1>1, <1>7, BecomesThis
<1>12. Hears(entry[p], p) /\ Hears(entry'[p], p)
    BY <1>1, <1>2, <1>3, <1>9, <1>11 DEF Hears, State
<1>13. /\ \A x \in Peers \ {p} : f2[x] = f[x]
       /\ f2[p] = entry'[p]
    BY <1>7, <1>11, <1>12, ReaderTurns
<1>14. /\ f[p].state = "joining" /\ f2[p].state = "joined" /\ f2[p].infos.owner = q
       /\ Members(f2[p].infos) = Members(f[p].infos)
    BY <1>3, <1>4, <1>9, <1>10, <1>11, <1>13 DEF State, Infos
<1>15. IsAdmission(m)
    BY DEF IsAdmission
<1> HIDE DEF f, f2
<1>16. Good(f2, w, up, newest)
    BY <1>1, <1>2, <1>4, <1>13, <1>14, <1>15, GoodAdmitted
<1>17. UNCHANGED up
    BY DEF Takes
<1> QED
    BY <1>1, <1>7, <1>16, <1>17, HeededFirm DEF f2

LEMMA RefusedFirm ==
    ASSUME NEW p, NEW q, NEW m, NEW w, Takes(p, q, m, w), m.type = "response", m.body = FALSE,
           OnResponse(p, q, m.body, w)
    PROVE  Firm'
<1> DEFINE f == Views(entry, wire)
           f2 == Views(entry', wire')
<1>1. Orderly /\ p \in Peers /\ q \in Peers \ {p} /\ ~Unmade /\ Streams(w, Words)
    BY Taken
<1>2. Read(wire, w, q, p, m) /\ UNCHANGED <<newest, up>>
    BY DEF Takes
<1>3. NoMatter(f, wire, q, p, m)
    BY DEF NoMatter, IsAdmission, IsNaming, IsWord
<1>4. wire' = w /\ (UNCHANGED entry \/ (State(p) = "joining" /\ Erase(p)))
    BY DEF OnResponse
<1>5. CASE UNCHANGED entry
    BY <1>3, <1>4, <1>5, IgnoredFirm
<1>6. CASE State(p) = "joining" /\ Erase(p)
    <2>1. /\ entry'[p].state = "none" /\ \A x \in Peers \ {p} : entry'[x] = entry[x]
        BY <1>1, <1>6, ErasesIt
    <2>2. Hears(entry[p], p) /\ Hears(entry'[p], p)
        BY <1>6, <2>1 DEF Hears, State
    <2>3. /\ \A x \in Peers \ {p} : f2[x] = f[x]
          /\ f[p] = entry[p] /\ f2[p] = entry'[p]
          /\ EntriesAre(f) /\ Good(f, wire, up, newest)
        BY <1>4, <2>1, <2>2, ReaderTurns
    <2>4. f[p].state = "joining" /\ f2[p].state = "none"
        BY <1>6, <2>1, <2>3 DEF State
    <2> HIDE DEF f, f2
    <2>5. Good(f, w, up, newest)
        BY <1>1, <1>2, <1>3, <2>3, GoodNoMatter
    <2>6. Good(f2, w, up, newest)
        BY <1>1, <2>3, <2>4, <2>5, GoodStops
    <2> QED
        BY <1>1, <1>2, <1>4, <2>6, HeededFirm DEF f2
<1> QED
    BY <1>4, <1>5, <1>6

-----------------------------------------------------------------------------
(* A word of the lobby.                                                     *)

LEMMA OnInfosFirm ==
    ASSUME NEW p, NEW q, NEW m, NEW w, Takes(p, q, m, w), m.type = "infos", m.body \in SeatedInfos,
           OnInfos(p, q, m.body, w)
    PROVE  Firm'
<1> DEFINE f == Views(entry, wire)
           f2 == Views(entry', wire')
           state == IF m.body.owner = p THEN "hosting" ELSE "joined"
           heeded == State(p) \notin {"none", "hosting"} /\ Infos(p).owner = q
<1>1. /\ Orderly /\ p \in Peers /\ q \in Peers \ {p} /\ ~Unmade
      /\ OwnWords(wire) => m.body.owner = q
    BY Taken
<1>2. Read(wire, w, q, p, m) /\ Met(up, p, q) /\ UNCHANGED <<newest, up, spent>>
    BY DEF Takes
<1>3. wire' = w
    BY DEF OnInfos
<1>4. ~(IF heeded THEN State(p) = "joining" ELSE State(p) # "none" \/ m.body.owner = p)
    BY <1>1, NotAstray DEF OnInfos
<1>5. CASE ~heeded
    <2>1. State(p) = "none" /\ m.body.owner # p /\ UNCHANGED entry
        BY <1>4, <1>5 DEF OnInfos
    <2>2. f[p].state = "none"
        BY <1>1, <2>1, NotLost DEF State
    <2>3. NoMatter(f, wire, q, p, m)
        BY <2>1, <2>2 DEF NoMatter, IsAdmission, IsNaming, IsWord
    <2> QED
        BY <1>3, <2>1, <2>3, IgnoredFirm
<1>6. CASE heeded
    <2>1. State(p) = "joined" /\ Infos(p).owner = q /\ Becomes(p, state, m.body)
        <3>1. State(p) \in States
            BY <1>1, EntryParts DEF Orderly, IInv
        <3> QED
            BY <1>4, <1>6, <3>1 DEF OnInfos, States
    <2>2. /\ entry'[p].state = state /\ entry'[p].infos = m.body
          /\ \A x \in Peers \ {p} : entry'[x] = entry[x]
        BY <1>1, <2>1, BecomesThis
    <2>3. m.body.owner \in Peers
        BY InfosParts DEF SeatedInfos
    <2>4. m.body.owner # p => Met(up, p, m.body.owner)
        <3>1. CASE spent["handovers"] = 0
            BY <1>1, <1>2, <3>1 DEF Orderly, Firm
        <3>2. CASE spent["handovers"] # 0
            <4>1. up = Pairs
                BY <1>1, <1>2, <3>2 DEF Orderly, Firm, Undisturbed
            <4> QED
                BY <1>1, <2>3, <4>1 DEF Met, Pairs
        <3> QED
            BY <3>1, <3>2
    <2>5. Hears(entry[p], p) /\ Hears(entry'[p], p)
        BY <1>1, <1>2, <2>1, <2>2, <2>3, <2>4 DEF Hears, State, Infos
    <2>6. /\ \A x \in Peers \ {p} : f2[x] = f[x]
          /\ f[p] = entry[p] /\ f2[p] = entry'[p]
          /\ EntriesAre(f) /\ Good(f, wire, up, newest)
        BY <1>3, <2>2, <2>5, ReaderTurns
    <2>7. /\ f[p].state = "joined" /\ f[p].infos.owner = q /\ f2[p].infos = m.body
          /\ f2[p].state = IF m.body.owner = p THEN "hosting" ELSE "joined"
        BY <2>1, <2>2, <2>6 DEF State, Infos
    <2> HIDE DEF f, f2
    <2>8. Good(f2, w, up, newest)
        BY <1>1, <1>2, <2>6, <2>7, GoodHeeds
    <2> QED
        BY <1>1, <1>2, <1>3, <2>8, HeededFirm DEF f2
<1> QED
    BY <1>5, <1>6

LEMMA OnDestroyFirm ==
    ASSUME NEW p, NEW q, NEW m, NEW w, Takes(p, q, m, w), m.type = "destroy", OnDestroy(p, q, w)
    PROVE  Firm'
<1> DEFINE f == Views(entry, wire)
           f2 == Views(entry', wire')
           heeded == State(p) \notin {"none", "hosting"} /\ Infos(p).owner = q
<1>1. Orderly /\ p \in Peers /\ q \in Peers \ {p} /\ ~Unmade
    BY Taken
<1>2. Read(wire, w, q, p, m) /\ Met(up, p, q) /\ UNCHANGED <<newest, up>>
    BY DEF Takes
<1>3. wire' = w
    BY DEF OnDestroy
<1>4. ~(IF heeded THEN State(p) = "joining" ELSE State(p) # "none")
    BY <1>1, NotAstray DEF OnDestroy
<1>5. CASE ~heeded
    <2>1. State(p) = "none" /\ UNCHANGED entry
        BY <1>4, <1>5 DEF OnDestroy
    <2>2. f[p].state = "none"
        BY <1>1, <2>1, NotLost DEF State
    <2>3. NoMatter(f, wire, q, p, m)
        BY <2>2 DEF NoMatter, IsAdmission, IsNaming, IsWord
    <2> QED
        BY <1>3, <2>1, <2>3, IgnoredFirm
<1>6. CASE heeded
    <2>1. State(p) = "joined" /\ Infos(p).owner = q /\ Erase(p)
        <3>1. State(p) \in States
            BY <1>1, EntryParts DEF Orderly, IInv
        <3> QED
            BY <1>4, <1>6, <3>1 DEF OnDestroy, States
    <2>2. /\ entry'[p].state = "none" /\ \A x \in Peers \ {p} : entry'[x] = entry[x]
        BY <1>1, <2>1, ErasesIt
    <2>3. Hears(entry[p], p) /\ Hears(entry'[p], p)
        BY <1>1, <1>2, <2>1, <2>2 DEF Hears, State, Infos
    <2>4. /\ \A x \in Peers \ {p} : f2[x] = f[x]
          /\ f[p] = entry[p] /\ f2[p] = entry'[p]
          /\ EntriesAre(f) /\ Good(f, wire, up, newest)
        BY <1>3, <2>2, <2>3, ReaderTurns
    <2>5. /\ f[p].state = "joined" /\ f[p].infos.owner = q /\ f2[p].state = "none"
        BY <2>1, <2>2, <2>4 DEF State, Infos
    <2> HIDE DEF f, f2
    <2>6. Good(f2, w, up, newest)
        BY <1>1, <1>2, <2>4, <2>5, GoodClosed
    <2> QED
        BY <1>1, <1>2, <1>3, <2>6, HeededFirm DEF f2
<1> QED
    BY <1>5, <1>6

-----------------------------------------------------------------------------
(* A word of a member.                                                      *)

(* The host tells the others what it has read of q.                           *)
LEMMA HostTells ==
    ASSUME NEW p, NEW q, NEW m, NEW w, Takes(p, q, m, w), State(p) = "hosting",
           NEW infos \in SeatedInfos, infos.owner = p, Becomes(p, "hosting", infos),
           wire' = BroadcastLobby(w, p, infos),
           \A x \in Peers \ {q} :
               /\ x \in Members(infos) <=> x \in Members(Infos(p))
               /\ x \in Members(infos) => infos.roster[x] = Infos(p).roster[x]
    PROVE  /\ Announces(Views(entry, wire), Views(entry', wire'), w, wire', up, p, q)
           /\ Views(entry', wire')[p].infos = infos /\ Views(entry, wire)[p].infos = Infos(p)
           /\ EntriesAre(Views(entry, wire)) /\ Good(Views(entry, wire), wire, up, newest)
           /\ NoEnd(wire, up)
           /\ Good(Views(entry', wire'), wire', up, newest) => Firm'
<1> DEFINE f == Views(entry, wire)
           f2 == Views(entry', wire')
           state == "hosting"
<1>1. /\ Orderly /\ p \in Peers /\ q \in Peers \ {p} /\ Steady(wire, w, up) /\ Streams(w, Words)
      /\ accepting = {} /\ (OwnWords(wire) => OwnWords(w))
    BY Taken
<1>2. ~Unmade /\ Hosting(f, p) /\ f[p].infos = Infos(p) /\ ~Lost(entry, wire, p)
    BY <1>1, HostFacts, NotLost
<1>3. Steady(w, wire', up)
    BY <1>1, BroadcastSteady
<1>4. Steady(wire, wire', up)
    BY <1>1, <1>3, SteadyStep
<1>5. SameEnds(wire, wire')
    BY <1>4 DEF Steady
<1>6. Becomes(p, state, infos) /\ (state # "joined" \/ infos.owner = p) /\ state = "hosting"
    OBVIOUS
<1> HIDE DEF state
<1>7. /\ \A x \in Peers \ {p} : f2[x] = f[x]
      /\ f2[p].state = state /\ f2[p].infos = infos
    BY <1>1, <1>2, <1>5, <1>6, OneBecomes
<1>8. Hosting(f2, p)
    BY <1>6, <1>7 DEF Hosting
<1>9. EntriesAre(f) /\ Good(f, wire, up, newest) /\ NoEnd(wire, up)
    BY <1>1, Order
<1> HIDE DEF f, f2
<1>10. \A x \in Peers \ {q} :
           /\ x \in Members(infos) <=> x \in Members(f[p].infos)
           /\ x \in Members(infos) => infos.roster[x] = f[p].infos.roster[x]
    BY <1>2
<1>11. Announces(f, f2, w, wire', up, p, q) /\ (OwnWords(w) => OwnWords(wire'))
    BY <1>1, <1>2, <1>7, <1>8, <1>10, BroadcastTells
<1>12. UNCHANGED <<details, newest, spent, up, accepting, late>>
    BY DEF Takes
<1>13. ASSUME Good(f2, wire', up, newest) PROVE Firm'
    BY <1>1, <1>2, <1>4, <1>11, <1>12, <1>13, Firmly DEF f2
<1> QED
    BY <1>2, <1>7, <1>9, <1>11, <1>13 DEF f, f2

(* Who has no seat says nothing that matters.                                 *)
LEMMA UnseatedFirm ==
    ASSUME NEW p, NEW q, NEW m, NEW w, Takes(p, q, m, w), m.type \in {"leave", "update"},
           State(p) = "hosting", q \notin Members(Infos(p)), UNCHANGED entry, wire' = w
    PROVE  Firm'
<1> DEFINE f == Views(entry, wire)
<1>1. Orderly /\ p \in Peers
    BY Taken
<1>2. Hosting(f, p) /\ f[p].infos = Infos(p) /\ Single(f, wire)
    BY <1>1, HostFacts, Order
<1> HIDE DEF f
<1>3. Speaks(f, wire, p, Infos(p))
    BY <1>1, <1>2 DEF Speaks
<1>4. \A s, K : Speaks(f, wire, s, K) => q \notin Members(K)
    BY <1>2, <1>3, OneSpeaks
<1>5. NoMatter(f, wire, q, p, m)
    BY <1>4 DEF NoMatter, IsAdmission, IsNaming, IsWord
<1> QED
    BY <1>5, IgnoredFirm DEF f

LEMMA OnLeaveFirm ==
    ASSUME NEW p, NEW q, NEW m, NEW w, Takes(p, q, m, w), m.type = "leave", OnLeave(p, q, w)
    PROVE  Firm'
<1> DEFINE f == Views(entry, wire)
           f2 == Views(entry', wire')
           infos == Unseat(Infos(p), q)
<1>1. Orderly /\ p \in Peers /\ q \in Peers \ {p}
    BY Taken
<1>2. Read(wire, w, q, p, m)
    BY DEF Takes
<1>3. State(p) = "hosting"
    BY <1>1, NotAstray DEF OnLeave
<1>4. CASE q \notin Members(Infos(p))
    BY <1>3, <1>4, UnseatedFirm DEF OnLeave
<1>5. CASE q \in Members(Infos(p))
    <2>1. Becomes(p, "hosting", infos) /\ wire' = BroadcastLobby(w, p, infos)
        BY <1>3, <1>5 DEF OnLeave
    <2>2. Infos(p) \in LobbyInfos /\ Infos(p).owner = p /\ p \in Members(Infos(p))
        BY <1>1, <1>3, HostFacts
    <2>3. /\ infos \in LobbyInfos /\ Members(infos) = Members(Infos(p)) \ {q} /\ infos.owner = p
          /\ \A x \in Members(Infos(p)) : x # q => infos.roster[x] = Infos(p).roster[x]
        BY <2>2, UnseatOK, UnseatRoster
    <2> HIDE DEF infos
    <2>4. infos \in SeatedInfos
        BY <1>1, <2>2, <2>3 DEF SeatedInfos
    <2>5. \A x \in Peers \ {q} :
               /\ x \in Members(infos) <=> x \in Members(Infos(p))
               /\ x \in Members(infos) => infos.roster[x] = Infos(p).roster[x]
        BY <2>3
    <2>6. /\ Announces(f, f2, w, wire', up, p, q)
          /\ f2[p].infos = infos
          /\ EntriesAre(f) /\ Good(f, wire, up, newest) /\ NoEnd(wire, up)
          /\ Good(f2, wire', up, newest) => Firm'
        BY <1>3, <2>1, <2>3, <2>4, <2>5, HostTells
    <2> HIDE DEF f, f2
    <2>7. q \notin Members(f2[p].infos)
        BY <2>3, <2>6
    <2>8. Good(f2, wire', up, newest)
        BY <1>1, <1>2, <2>6, <2>7, GoodLeave
    <2> QED
        BY <2>6, <2>8
<1> QED
    BY <1>4, <1>5

LEMMA OnUpdateFirm ==
    ASSUME NEW p, NEW q, NEW m, NEW w, Takes(p, q, m, w), m.type = "update",
           m.body \in SUBSET Nat, OnUpdate(p, q, m.body, w)
    PROVE  Firm'
<1> DEFINE f == Views(entry, wire)
           f2 == Views(entry', wire')
           infos == Seat(Infos(p), q, m.body)
<1>1. Orderly /\ p \in Peers /\ q \in Peers \ {p}
    BY Taken
<1>2. Read(wire, w, q, p, m)
    BY DEF Takes
<1>3. State(p) = "hosting"
    BY <1>1, NotAstray DEF OnUpdate
<1>4. CASE q \notin Members(Infos(p))
    BY <1>3, <1>4, UnseatedFirm DEF OnUpdate
<1>5. CASE q \in Members(Infos(p))
    <2>1. Becomes(p, "hosting", infos) /\ wire' = BroadcastLobby(w, p, infos)
        BY <1>3, <1>5 DEF OnUpdate
    <2>2. Infos(p) \in LobbyInfos /\ Infos(p).owner = p /\ p \in Members(Infos(p))
        BY <1>1, <1>3, HostFacts
    <2>3. infos \in LobbyInfos /\ Members(infos) = Members(Infos(p)) \cup {q} /\ infos.owner = p
        BY <1>1, <2>2, SeatOK
    <2>4. /\ \A x \in Members(Infos(p)) : x # q => infos.roster[x] = Infos(p).roster[x]
          /\ infos.roster[q] = m.body
        BY <2>2, SeatRoster
    <2> HIDE DEF infos
    <2>5. infos \in SeatedInfos
        BY <1>1, <2>2, <2>3 DEF SeatedInfos
    <2>6. \A x \in Peers \ {q} :
               /\ x \in Members(infos) <=> x \in Members(Infos(p))
               /\ x \in Members(infos) => infos.roster[x] = Infos(p).roster[x]
        BY <2>3, <2>4
    <2>7. /\ Announces(f, f2, w, wire', up, p, q)
          /\ f2[p].infos = infos /\ f[p].infos = Infos(p)
          /\ EntriesAre(f) /\ Good(f, wire, up, newest) /\ NoEnd(wire, up)
          /\ Good(f2, wire', up, newest) => Firm'
        BY <1>3, <2>1, <2>3, <2>5, <2>6, HostTells
    <2> HIDE DEF f, f2
    <2>8. /\ q \in Members(f[p].infos) /\ q \in Members(f2[p].infos)
          /\ f2[p].infos.roster[q] = m.body
        BY <1>5, <2>3, <2>4, <2>7
    <2>9. Good(f2, wire', up, newest)
        BY <1>1, <1>2, <2>7, <2>8, GoodRenewed
    <2> QED
        BY <2>7, <2>9
<1> QED
    BY <1>4, <1>5

-----------------------------------------------------------------------------
(* The mesh hands over the first message of a line.                           *)

LEMMA DeliverFirm ==
    ASSUME Orderly, NEW p \in Peers, NEW q \in Peers \ {p}, Deliver(p, q)
    PROVE  Firm'
<1> DEFINE m == Head(wire[<<q, p>>])
           w == [wire EXCEPT ![<<q, p>>] = Tail(@)]
<1>1. /\ <<p, q>> \in up /\ wire[<<q, p>>] # <<>> /\ m # Eof
      /\ OnNetworkMessage(p, q, m, w)
      /\ UNCHANGED <<up, accepting, late>>
    BY DEF Deliver
<1>2. Read(wire, w, q, p, m)
    BY <1>1, Order, ReadLines
<1>3. Met(up, p, q) /\ Met(up, q, p)
    BY <1>1, Order, MetBy
<1> HIDE DEF m, w
<1>4. m \in Words
    BY <1>1, <1>2, MailKinds DEF Read, Took
<1>5. /\ m.type \in {"request", "response", "infos", "update", "leave", "destroy"}
      /\ m.type \in {"request", "response"} => m.body \in BOOLEAN
      /\ m.type = "infos" => m.body \in SeatedInfos
      /\ m.type = "update" => m.body \in SUBSET Nat
    BY <1>4, MailKinds
<1>6. UNCHANGED <<details, newest, spent>>
    BY <1>1 DEF OnNetworkMessage
<1>7. Takes(p, q, m, w)
    BY <1>1, <1>2, <1>3, <1>5, <1>6 DEF Takes
<1>8. \/ m.type = "request" /\ OnRequest(p, q, m.body, w)
      \/ m.type = "response" /\ OnResponse(p, q, m.body, w)
      \/ m.type = "infos" /\ OnInfos(p, q, m.body, w)
      \/ m.type = "leave" /\ OnLeave(p, q, w)
      \/ m.type = "update" /\ OnUpdate(p, q, m.body, w)
      \/ m.type = "destroy" /\ OnDestroy(p, q, w)
    BY <1>1 DEF OnNetworkMessage
<1>9. CASE m.type = "request" /\ OnRequest(p, q, m.body, w)
    BY <1>7, <1>9, OnRequestFirm
<1>10. CASE m.type = "response" /\ OnResponse(p, q, m.body, w)
    BY <1>5, <1>7, <1>10, AdmittedFirm, RefusedFirm
<1>11. CASE m.type = "infos" /\ OnInfos(p, q, m.body, w)
    BY <1>5, <1>7, <1>11, OnInfosFirm
<1>12. CASE m.type = "leave" /\ OnLeave(p, q, w)
    BY <1>7, <1>12, OnLeaveFirm
<1>13. CASE m.type = "update" /\ OnUpdate(p, q, m.body, w)
    BY <1>5, <1>7, <1>13, OnUpdateFirm
<1>14. CASE m.type = "destroy" /\ OnDestroy(p, q, w)
    BY <1>7, <1>14, OnDestroyFirm
<1> QED
    BY <1>8, <1>9, <1>10, <1>11, <1>12, <1>13, <1>14

-----------------------------------------------------------------------------
(* A peer notices that another is gone.                                       *)

Without(u, p, q) == u \ {<<p, q>>}

LEMMA CalmDrop ==
    ASSUME NEW w, NEW w2, NEW u, Calm(w, u), NEW p \in Peers, NEW q \in Peers \ {p},
           <<q, p>> \notin u, Empty(Line(w2, p, q)), Empty(Line(w2, q, p)),
           \A x \in Peers : \A y \in Peers \ {x} :
             /\ Some(Line(w2, x, y), "eof") => Some(Line(w, x, y), "eof")
             /\ Met(u, x, y) \/ (x = p /\ y = q) \/ (x = q /\ y = p)
                  \/ Line(w2, x, y) = Line(w, x, y)
    PROVE  /\ Calm(w2, Without(u, p, q))
           /\ \A x, y \in Peers : Met(u, x, y) => Met(Without(u, p, q), x, y)
<1> DEFINE u2 == Without(u, p, q)
<1>1. \A x, y \in Peers : <<x, y>> \in u2 <=> <<x, y>> \in u /\ ~(x = p /\ y = q)
    BY DEF Without
<1> HIDE DEF u2
<1>2. \A x, y \in Peers : Met(u, x, y) <=> Met(u2, x, y)
    BY <1>1 DEF Met
<1>3. NoEnd(w2, u2)
    BY <1>2 DEF Calm, NoEnd
<1>4. ASSUME NEW x \in Peers, NEW y \in Peers \ {x} PROVE HalfOf(w2, u2, x, y)
    <2>1. HalfOf(w, u, x, y)
        BY DEF Calm
    <2>2. CASE (x = p /\ y = q) \/ (x = q /\ y = p)
        BY <1>1, <2>2 DEF HalfOf
    <2>3. CASE ~((x = p /\ y = q) \/ (x = q /\ y = p))
        <3>1. /\ <<x, y>> \in u2 <=> <<x, y>> \in u
              /\ <<y, x>> \in u2 <=> <<y, x>> \in u
            BY <1>1, <2>3
        <3>2. ~Met(u, x, y) => Line(w2, x, y) = Line(w, x, y)
            BY <2>3
        <3>3. ~Met(u, y, x) => Line(w2, y, x) = Line(w, y, x)
            BY <2>3
        <3> QED
            BY <2>1, <3>1, <3>2, <3>3 DEF HalfOf, Met
    <2> QED
        BY <2>2, <2>3
<1>5. \A x \in Peers : Linked(u2, x) => Linked(u, x)
    BY <1>1 DEF Linked
<1>6. \A x \in Peers : \A y \in Peers \ {x} : Linked(u2, x) /\ Linked(u2, y) => Met(u2, x, y)
    BY <1>2, <1>5 DEF Calm
<1>7. \A a, x \in Peers : \A b \in Peers \ {a} : \A y \in Peers \ {x} :
        Some(Line(w2, b, a), "eof") /\ Some(Line(w2, y, x), "eof") => b = y
    BY DEF Calm
<1> QED
    BY <1>2, <1>3, <1>4, <1>6, <1>7 DEF Calm, u2

(* p drops q, whose end it has read; w is the wire with what it tells the others. *)
Drops(p, q, n, w) ==
    /\ Orderly
    /\ p \in Peers /\ q \in Peers \ {p} /\ Some(Line(wire, q, p), "eof")
    /\ n \in Nat /\ DropPeer(p, q, n, w)
    /\ Streams(w, Words) /\ Steady(wire, w, up)
    /\ UNCHANGED <<details, newest, spent>>

LEMMA Dropped ==
    ASSUME NEW p, NEW q, NEW n, NEW w, Drops(p, q, n, w)
    PROVE  /\ Orderly /\ p \in Peers /\ q \in Peers \ {p} /\ <<p, q>> \in up
           /\ <<q, p>> \notin up /\ Ended(Line(wire, q, p)) /\ Empty(Line(wire, p, q))
           /\ up' = up \ {<<p, q>>} /\ accepting' = {} /\ \A x \in Peers : late'[x] = <<>>
           /\ Empty(Line(wire', q, p)) /\ Empty(Line(wire', p, q)) /\ Streams(wire', Words)
           /\ \A x \in Peers : \A y \in Peers \ {x} :
                \/ x = p /\ y = q
                \/ x = q /\ y = p
                \/ Line(wire', x, y) = Line(w, x, y)
<1>1. /\ Orderly /\ p \in Peers /\ q \in Peers \ {p} /\ Some(Line(wire, q, p), "eof")
      /\ n \in Nat /\ DropPeer(p, q, n, w) /\ Streams(w, Words)
    BY DEF Drops
<1>2. Calm(wire, up) /\ accepting = {} /\ Streams(wire, Words) /\ Streams(wire', Words)
      /\ \A x \in Peers : late[x] = <<>>
    BY <1>1, Order
<1>3. <<p, q>> \in up
    BY <1>1 DEF DropPeer
<1>4. <<q, p>> \notin up /\ Ended(Line(wire, q, p)) /\ Empty(Line(wire, p, q))
    BY <1>1, <1>2, <1>3, EndBy
<1>5. n = 0
    <2>1. Len(wire[<<q, p>>]) = 1 /\ wire[<<q, p>>][1] = Eof
        BY <1>4 DEF Ended, Line
    <2>2. n <= Len(wire[<<q, p>>]) /\ \A i \in 1 .. n : wire[<<q, p>>][i] # Eof
        BY <1>1 DEF DropPeer
    <2> QED
        BY <1>1, <2>1, <2>2
<1>6. up' = up \ {<<p, q>>} /\ accepting' = {}
    BY <1>1, <1>2 DEF DropPeer
<1>7. \A x \in Peers : late'[x] = <<>>
    <2>1. DOMAIN late = Peers
        BY <1>1 DEF Orderly, IInv, LinkTyped
    <2> DEFINE none == [i \in 1 .. n |-> [from |-> q, msg |-> wire[<<q, p>>][i]]]
    <2>2. late' = [late EXCEPT ![p] = none]
        BY <1>1 DEF DropPeer
    <2>3. none = <<>>
        BY <1>5
    <2> HIDE DEF none
    <2> QED
        BY <1>2, <2>1, <2>2, <2>3
<1>8. wire' = [w EXCEPT ![<<q, p>>] = <<>>, ![<<p, q>>] = <<>>]
    BY <1>1, <1>2, <1>4 DEF DropPeer, Reads
<1>9. DOMAIN w = Pairs /\ <<q, p>> \in Pairs /\ <<p, q>> \in Pairs /\ <<q, p>> # <<p, q>>
    BY <1>1 DEF Streams, Pairs
<1>10. wire'[<<q, p>>] = <<>> /\ wire'[<<p, q>>] = <<>>
    BY <1>8, <1>9
<1>11. Empty(Line(wire', q, p)) /\ Empty(Line(wire', p, q))
    BY <1>10 DEF Empty, Line
<1>12. ASSUME NEW x \in Peers, NEW y \in Peers \ {x}
       PROVE  \/ x = p /\ y = q
              \/ x = q /\ y = p
              \/ Line(wire', x, y) = Line(w, x, y)
    <2>1. <<x, y>> \in Pairs
        BY DEF Pairs
    <2>2. CASE <<x, y>> # <<q, p>> /\ <<x, y>> # <<p, q>>
        BY <1>8, <1>9, <2>1, <2>2 DEF Line
    <2> QED
        BY <2>2
<1> QED
    BY <1>1, <1>2, <1>3, <1>4, <1>6, <1>7, <1>11, <1>12

(* The line of q is read, and its end there.                                  *)
LEMMA DropReads ==
    ASSUME NEW p, NEW q, NEW n, NEW w, Drops(p, q, n, w)
    PROVE  \E w1 : /\ Read(wire, w1, q, p, Eof)
                   /\ w = wire => wire' = w1
                   /\ \A x \in Peers : \A y \in Peers \ {x} :
                        ~Met(up, x, y) => Line(wire', x, y) = Line(w1, x, y)
                   /\ \A x \in Peers : \A y \in Peers \ {x} :
                        Met(up, x, y) => /\ Line(wire', x, y) = Line(w, x, y)
                                         /\ Line(w1, x, y) = Line(wire, x, y)
<1> DEFINE w1 == [wire EXCEPT ![<<q, p>>] = Tail(@)]
<1>1. /\ Orderly /\ p \in Peers /\ q \in Peers \ {p} /\ <<p, q>> \in up
      /\ <<q, p>> \notin up /\ Ended(Line(wire, q, p)) /\ Empty(Line(wire, p, q))
      /\ Empty(Line(wire', q, p)) /\ Empty(Line(wire', p, q)) /\ Streams(wire', Words)
      /\ \A x \in Peers : \A y \in Peers \ {x} :
                \/ x = p /\ y = q
                \/ x = q /\ y = p
                \/ Line(wire', x, y) = Line(w, x, y)
    BY Dropped
<1>2. Streams(wire, Words) /\ wire[<<q, p>>] # <<>>
    BY <1>1, Order DEF Ended, Line
<1>3. Read(wire, w1, q, p, Head(wire[<<q, p>>]))
    BY <1>1, <1>2, ReadLines
<1>4. Head(wire[<<q, p>>]) = Eof
    BY <1>1, <1>3 DEF Read, Took, Ended
<1> HIDE DEF w1
<1>5. Read(wire, w1, q, p, Eof)
    BY <1>3, <1>4
<1>6. Empty(Line(w1, q, p))
    <2>1. Took(Line(wire, q, p), Line(w1, q, p), Eof)
        BY <1>5 DEF Read
    <2>2. \A l, k : Took(l, k, Eof) /\ Ended(l) => Empty(k)
        BY DEF Took, Ended, Empty
    <2> QED
        BY <1>1, <2>1, <2>2
<1>7. \A x \in Peers : \A y \in Peers \ {x} : ~(x = q /\ y = p) => Line(w1, x, y) = Line(wire, x, y)
    BY <1>5 DEF Read
<1>8. \A x \in Peers : \A y \in Peers \ {x} :
         Line(wire', x, y) \in Seq(Mail) /\ Line(w1, x, y) \in Seq(Mail)
    BY <1>1, <1>5, LineType DEF Read
<1>9. Line(wire', q, p) = Line(w1, q, p) /\ Line(wire', p, q) = Line(w1, p, q)
    <2>1. Empty(Line(w1, p, q))
        BY <1>1, <1>7
    <2>2. \A k, l \in Seq(Mail) : Empty(k) /\ Empty(l) => k = l
        BY DEF Empty
    <2> QED
        BY <1>1, <1>6, <1>8, <2>1, <2>2
<1>10. ASSUME NEW x \in Peers, NEW y \in Peers \ {x}, ~Met(up, x, y)
       PROVE  Line(wire', x, y) = Line(w1, x, y)
    <2>1. Line(w, x, y) = Line(wire, x, y)
        BY <1>10 DEF Drops, Steady
    <2> QED
        BY <1>1, <1>7, <1>9, <2>1
<1>11. ASSUME NEW x \in Peers, NEW y \in Peers \ {x}, Met(up, x, y)
       PROVE  Line(wire', x, y) = Line(w, x, y) /\ Line(w1, x, y) = Line(wire, x, y)
    BY <1>1, <1>7, <1>11 DEF Met
<1>12. ASSUME w = wire PROVE wire' = w1
    <2>1. \A x \in Peers : \A y \in Peers \ {x} : Line(wire', x, y) = Line(w1, x, y)
        BY <1>10, <1>11, <1>12
    <2>2. wire' \in [Pairs -> Seq(Mail)] /\ w1 \in [Pairs -> Seq(Mail)]
        BY <1>1, <1>5 DEF Read, Streams, Mail
    <2>3. ASSUME NEW pq \in Pairs PROVE wire'[pq] = w1[pq]
        <3>1. PICK x \in Peers, y \in Peers : pq = <<x, y>> /\ x # y
            BY DEF Pairs
        <3> QED
            BY <2>1, <3>1 DEF Line
    <2> QED
        BY <2>2, <2>3
<1> QED
    BY <1>5, <1>10, <1>11, <1>12

(* The rest of it stays in order.                                             *)
LEMMA DropsFirm ==
    ASSUME NEW p, NEW q, NEW n, NEW w, Drops(p, q, n, w),
           OwnWords(wire) => OwnWords(w),
           Unmade => UNCHANGED entry /\ w = wire,
           Good(Views(entry', wire'), wire', up, newest)
    PROVE  Firm'
<1>1. /\ Orderly /\ p \in Peers /\ q \in Peers \ {p} /\ <<p, q>> \in up
      /\ <<q, p>> \notin up /\ Ended(Line(wire, q, p)) /\ Empty(Line(wire, p, q))
      /\ up' = up \ {<<p, q>>} /\ accepting' = {} /\ \A x \in Peers : late'[x] = <<>>
      /\ Empty(Line(wire', q, p)) /\ Empty(Line(wire', p, q)) /\ Streams(wire', Words)
      /\ \A x \in Peers : \A y \in Peers \ {x} :
                \/ x = p /\ y = q
                \/ x = q /\ y = p
                \/ Line(wire', x, y) = Line(w, x, y)
    BY Dropped
<1>2. UNCHANGED <<details, newest, spent>> /\ Steady(wire, w, up)
    BY DEF Drops
<1>3. Calm(wire, up) /\ up \subseteq Pairs
    BY <1>1, Order
<1>4. \A l, type : Empty(l) => ~Some(l, type)
    BY DEF Empty, Some
<1>5. ASSUME NEW x \in Peers, NEW y \in Peers \ {x}
      PROVE  /\ Some(Line(wire', x, y), "eof") => Some(Line(wire, x, y), "eof")
             /\ Met(up, x, y) \/ (x = p /\ y = q) \/ (x = q /\ y = p)
                  \/ Line(wire', x, y) = Line(wire, x, y)
    <2>1. Some(Line(w, x, y), "eof") <=> Some(Line(wire, x, y), "eof")
        BY <1>2 DEF Steady, SameEnds
    <2>2. ~Met(up, x, y) => Line(w, x, y) = Line(wire, x, y)
        BY <1>2 DEF Steady
    <2> QED
        BY <1>1, <1>4, <2>1, <2>2
<1>6. /\ Calm(wire', up')
      /\ \A x, y \in Peers : Met(up, x, y) => Met(up', x, y)
    <2> DEFINE u2 == Without(up, p, q)
               w2 == wire'
    <2>1. /\ <<q, p>> \notin up /\ Empty(Line(w2, p, q)) /\ Empty(Line(w2, q, p)) /\ up' = u2
        BY <1>1 DEF Without
    <2>2. \A x \in Peers : \A y \in Peers \ {x} :
             /\ Some(Line(w2, x, y), "eof") => Some(Line(wire, x, y), "eof")
             /\ Met(up, x, y) \/ (x = p /\ y = q) \/ (x = q /\ y = p)
                  \/ Line(w2, x, y) = Line(wire, x, y)
        BY <1>5
    <2> HIDE DEF w2, u2
    <2>3. /\ Calm(w2, u2)
          /\ \A x, y \in Peers : Met(up, x, y) => Met(u2, x, y)
        BY <1>1, <1>3, <2>1, <2>2, CalmDrop DEF u2
    <2> QED
        BY <2>1, <2>3 DEF w2
<1>7. Good(Views(entry', wire'), wire', up', newest')
    <2> DEFINE f2 == Views(entry', wire')
    <2>1. Good(f2, wire', up, newest)
        OBVIOUS
    <2> HIDE DEF f2
    <2>2. Good(f2, wire', up', newest)
        BY <1>6, <2>1, GoodMet
    <2> QED
        BY <1>2, <2>2 DEF f2
<1>8. spent'["crashes"] # 0
    <2>1. up # Pairs
        BY <1>1 DEF Pairs
    <2> QED
        BY <1>1, <1>2, <2>1 DEF Orderly, Firm
<1>9. ASSUME spent'["handovers"] = 0 PROVE OwnWords(wire')
    <2>1. OwnWords(w)
        BY <1>1, <1>2, <1>9 DEF Orderly, Firm
    <2>2. ASSUME NEW x \in Peers, NEW y \in Peers \ {x}
          PROVE  \A i \in 1 .. Len(Line(wire', x, y)) :
                    Line(wire', x, y)[i].type = "infos" => Line(wire', x, y)[i].body.owner = x
        <3>1. CASE Empty(Line(wire', x, y))
            BY <3>1 DEF Empty
        <3>2. CASE Line(wire', x, y) = Line(w, x, y)
            BY <2>1, <3>2 DEF OwnWords
        <3> QED
            BY <1>1, <3>1, <3>2
    <2> QED
        BY <2>2 DEF OwnWords
<1>10. ASSUME spent'["creates"] = 0 PROVE Unmade'
    <2>1. Unmade
        BY <1>1, <1>2, <1>10 DEF Orderly, Firm
    <2>2. UNCHANGED entry /\ w = wire
        BY <2>1
    <2>3. ASSUME NEW x \in Peers, NEW y \in Peers \ {x}, NEW type, Some(Line(wire', x, y), type)
          PROVE  type \in {"request", "eof"}
        BY <1>1, <1>4, <2>1, <2>2, <2>3 DEF Unmade, Unasked
    <2>4. Unasked(wire')
        BY <2>3 DEF Unasked
    <2> QED
        BY <1>2, <2>1, <2>2, <2>4 DEF Unmade
<1> QED
    BY <1>1, <1>6, <1>7, <1>8, <1>9, <1>10 DEF Firm

(* What the others hold, once they have noticed theirs.                        *)
LEMMA DropViews ==
    ASSUME NEW p, NEW q, NEW n, NEW w, Drops(p, q, n, w),
           \A x \in Peers \ {p} : entry'[x] = entry[x]
    PROVE  /\ \A x \in Peers \ {p} : Views(entry', wire')[x] = Views(entry, wire)[x]
           /\ \A o \in Peers \ {p} : Some(Line(wire', o, p), "eof") => o # q /\ Some(Line(wire, o, p), "eof")
           /\ \A o \in Peers \ {p} : Some(Line(wire, o, p), "eof") => o = q
<1>1. /\ Orderly /\ p \in Peers /\ q \in Peers \ {p} /\ <<p, q>> \in up
      /\ <<q, p>> \notin up /\ Ended(Line(wire, q, p)) /\ Empty(Line(wire, p, q))
      /\ up' = up \ {<<p, q>>} /\ accepting' = {} /\ \A x \in Peers : late'[x] = <<>>
      /\ Empty(Line(wire', q, p)) /\ Empty(Line(wire', p, q)) /\ Streams(wire', Words)
      /\ \A x \in Peers : \A y \in Peers \ {x} :
                \/ x = p /\ y = q
                \/ x = q /\ y = p
                \/ Line(wire', x, y) = Line(w, x, y)
    BY Dropped
<1>2. SameEnds(wire, w) /\ Some(Line(wire, q, p), "eof")
    BY DEF Drops, Steady
<1>3. EntriesAre(entry) /\ Calm(wire, up)
    BY <1>1, Order
<1>4. ~Some(Line(wire', q, p), "eof")
    BY <1>1 DEF Empty, Some
<1>5. \A x \in Peers : \A y \in Peers \ {x} :
         ~(x = p /\ y = q) /\ ~(x = q /\ y = p) =>
            (Some(Line(wire', x, y), "eof") <=> Some(Line(wire, x, y), "eof"))
    BY <1>1, <1>2 DEF SameEnds
<1>6. ASSUME NEW o \in Peers \ {p}, Some(Line(wire', o, p), "eof")
      PROVE  o # q /\ Some(Line(wire, o, p), "eof")
    BY <1>1, <1>4, <1>5, <1>6
<1>7. ASSUME NEW o \in Peers \ {p}, Some(Line(wire, o, p), "eof") PROVE o = q
    BY <1>1, <1>2, <1>3, <1>7 DEF Calm
<1>8. ASSUME NEW x \in Peers \ {p} PROVE Views(entry', wire')[x] = Views(entry, wire)[x]
    <2> DEFINE e2 == entry'
               w2 == wire'
    <2>1. EntryOK(x, entry[x]) /\ e2[x] = entry[x]
        BY <1>3 DEF EntriesAre
    <2>2. Some(Line(wire', p, q), "eof") <=> Some(Line(wire, p, q), "eof")
        BY <1>1 DEF Empty, Some
    <2>3. entry[x].infos.owner \in Peers \cup {None}
        BY <2>1, InfosParts DEF EntryOK
    <2>4. entry[x].state = "joined" => entry[x].infos.owner # None
        BY <2>1 DEF EntryOK
    <2>5. entry[x].state = "joined" /\ entry[x].infos.owner # x =>
             (Some(Line(w2, entry[x].infos.owner, x), "eof")
                 <=> Some(Line(wire, entry[x].infos.owner, x), "eof"))
        BY <1>1, <1>5, <2>2, <2>3, <2>4
    <2> HIDE DEF e2, w2
    <2>6. Lost(e2, w2, x) <=> Lost(entry, wire, x)
        BY <2>1, <2>5 DEF Lost
    <2>7. Views(e2, w2)[x] = Views(entry, wire)[x]
        BY <2>1, <2>6, ViewOf
    <2> QED
        BY <2>7 DEF e2, w2
<1> QED
    BY <1>6, <1>7, <1>8

(* Nobody that does not host has been named while a machine is gone.            *)
LEMMA NobodyNamed ==
    ASSUME Orderly, UNCHANGED spent, up # Pairs, NEW f, NEW p \in Peers, NEW K, Speaks(f, wire, p, K)
    PROVE  Hosting(f, p) /\ f[p].infos = K
<1>1. OwnWords(wire)
    BY DEF Orderly, Firm, Undisturbed
<1>2. \A r \in Peers \ {p} : ~Named(Line(wire, r, p), p, K)
    BY <1>1 DEF Named, IsNaming, OwnWords
<1> QED
    BY <1>2 DEF Speaks

(* The end of one that has no seat does not matter.                           *)
LEMMA EndNoMatter ==
    ASSUME NEW p, NEW q, NEW n, NEW w, Drops(p, q, n, w), NEW f, f = Views(entry, wire),
           Hosting(f, p) => q \notin Members(f[p].infos)
    PROVE  /\ NoMatter(f, wire, q, p, Eof)
           /\ \A w1 : Read(wire, w1, q, p, Eof) => Good(f, w1, up, newest) /\ NoEnd(w1, up)
<1>1. Orderly /\ p \in Peers /\ q \in Peers \ {p} /\ <<p, q>> \in up /\ <<q, p>> \notin up
    BY Dropped
<1>2. up # Pairs /\ UNCHANGED spent
    BY <1>1 DEF Pairs, Drops
<1>3. \A K : Speaks(f, wire, p, K) => q \notin Members(K)
    BY <1>1, <1>2, NobodyNamed
<1>4. Eof.type = "eof"
    BY MailKinds
<1>5. NoMatter(f, wire, q, p, Eof)
    BY <1>3, <1>4 DEF NoMatter, IsAdmission, IsNaming, IsWord
<1>6. EntriesAre(f) /\ Good(f, wire, up, newest) /\ NoEnd(wire, up)
    BY <1>1, Order
<1>7. ASSUME NEW w1, Read(wire, w1, q, p, Eof) PROVE Good(f, w1, up, newest) /\ NoEnd(w1, up)
    <2>1. Good(f, w1, up, newest)
        BY <1>1, <1>5, <1>6, <1>7, GoodNoMatter
    <2> QED
        BY <1>1, <1>6, <1>7, <2>1, NoEndRead
<1> QED
    BY <1>5, <1>7

(* What p holds: it has noticed all there is.                                  *)
LEMMA DropView ==
    ASSUME NEW p, NEW q, NEW n, NEW w, Drops(p, q, n, w),
           \A x \in Peers \ {p} : entry'[x] = entry[x]
    PROVE  /\ Views(entry', wire')[p] = entry'[p]
           /\ \A x \in Peers \ {p} : Views(entry', wire')[x] = Views(entry, wire)[x]
           /\ ~Lost(entry, wire, p) => Views(entry, wire)[p] = entry[p]
           /\ Lost(entry, wire, p) <=> State(p) = "joined" /\ Infos(p).owner = q
           /\ entry'[p] = Views(entry, wire)[p] => Views(entry', wire') = Views(entry, wire)
<1> DEFINE f == Views(entry, wire)
           f2 == Views(entry', wire')
           e2 == entry'
           w2 == wire'
<1>1. Orderly /\ p \in Peers /\ q \in Peers \ {p}
    BY Dropped
<1>2. Some(Line(wire, q, p), "eof")
    BY DEF Drops
<1>3. /\ \A x \in Peers \ {p} : f2[x] = f[x]
      /\ \A o \in Peers \ {p} : ~Some(Line(wire', o, p), "eof")
      /\ \A o \in Peers \ {p} : Some(Line(wire, o, p), "eof") => o = q
    BY DropViews
<1>4. EntryOK(p, e2[p]) /\ EntryOK(p, entry[p])
    BY <1>1, Order DEF EntriesAre
<1>5. \A e : EntryOK(p, e) /\ e.state = "joined" => e.infos.owner \in Peers
    BY InfosParts DEF EntryOK
<1>6. ~Lost(e2, w2, p)
    BY <1>3, <1>4, <1>5 DEF Lost
<1>7. Lost(entry, wire, p) <=> State(p) = "joined" /\ Infos(p).owner = q
    BY <1>1, <1>2, <1>3, <1>4, <1>5 DEF Lost, State, Infos
<1>8. f2[p] = e2[p] /\ (~Lost(entry, wire, p) => f[p] = entry[p])
    BY <1>1, <1>6, ViewOf
<1>9. ASSUME e2[p] = f[p] PROVE f2 = f
    <2>1. \A x \in Peers : f2[x] = f[x]
        BY <1>3, <1>8, <1>9
    <2>2. f = [x \in Peers |-> f[x]] /\ f2 = [x \in Peers |-> f2[x]]
        BY DEF Views
    <2> HIDE DEF f, f2
    <2>3. [x \in Peers |-> f[x]] = [x \in Peers |-> f2[x]]
        BY <2>1
    <2> QED
        BY <2>2, <2>3
<1> QED
    BY <1>3, <1>7, <1>8, <1>9

(* It tells nobody.                                                          *)
LEMMA DropQuietly ==
    ASSUME NEW p, NEW q, NEW n, Drops(p, q, n, wire), Views(entry', wire') = Views(entry, wire),
           Hosting(Views(entry, wire), p) => q \notin Members(Views(entry, wire)[p].infos),
           Unmade => UNCHANGED entry
    PROVE  Firm'
<1> DEFINE f == Views(entry, wire)
<1>1. PICK w1 : Read(wire, w1, q, p, Eof) /\ wire' = w1
    BY DropReads
<1> HIDE DEF f
<1>2. Good(f, w1, up, newest)
    BY <1>1, EndNoMatter DEF f
<1>3. Good(Views(entry', wire'), wire', up, newest)
    BY <1>1, <1>2 DEF f
<1> QED
    BY <1>3, DropsFirm

(* It tells the others on the roster.                                         *)
LEMMA DropTells ==
    ASSUME NEW p, NEW q, NEW n, NEW w, Drops(p, q, n, w), NEW f, NEW f2, NEW z,
           Announces(f, f2, wire, w, up, p, z)
    PROVE  \E w1 : Read(wire, w1, q, p, Eof) /\ Announces(f, f2, w1, wire', up, p, z)
<1>1. PICK w1 : /\ Read(wire, w1, q, p, Eof)
                /\ \A x \in Peers : \A y \in Peers \ {x} :
                     ~Met(up, x, y) => Line(wire', x, y) = Line(w1, x, y)
                /\ \A x \in Peers : \A y \in Peers \ {x} :
                     Met(up, x, y) => /\ Line(wire', x, y) = Line(w, x, y)
                                      /\ Line(w1, x, y) = Line(wire, x, y)
    BY DropReads
<1>2. Streams(wire', Words)
    BY Dropped
<1> DEFINE to == Members(f2[p].infos) \ {p}
           w2 == wire'
<1>3. PICK m : m.type = "infos" /\ m.body = f2[p].infos /\ Sent(wire, w, up, p, to, m)
    BY DEF Announces
<1> HIDE DEF to, w2
<1>4. Streams(w2, Words)
    BY <1>2 DEF w2
<1>5. ASSUME NEW x \in Peers, NEW y \in Peers \ {x}
      PROVE  IF x = p /\ y \in to /\ Met(up, x, y)
             THEN Put(Line(w1, x, y), Line(w2, x, y), m)
             ELSE Line(w2, x, y) = Line(w1, x, y)
    <2>1. IF x = p /\ y \in to /\ Met(up, x, y)
          THEN Put(Line(wire, x, y), Line(w, x, y), m)
          ELSE Line(w, x, y) = Line(wire, x, y)
        BY <1>3 DEF Sent
    <2>2. /\ ~Met(up, x, y) => Line(w2, x, y) = Line(w1, x, y)
          /\ Met(up, x, y) => Line(w2, x, y) = Line(w, x, y) /\ Line(w1, x, y) = Line(wire, x, y)
        BY <1>1 DEF w2
    <2> QED
        BY <2>1, <2>2
<1>6. Sent(w1, w2, up, p, to, m)
    BY <1>4, <1>5 DEF Sent
<1>7. /\ Hosting(f, p) /\ Hosting(f2, p) /\ f2[p].infos.owner = p /\ p \in Members(f2[p].infos)
      /\ \A x \in Peers \ {p} : f2[x] = f[x]
      /\ \A x \in Peers \ {z} :
           /\ x \in Members(f2[p].infos) <=> x \in Members(f[p].infos)
           /\ x \in Members(f2[p].infos) => f2[p].infos.roster[x] = f[p].infos.roster[x]
    BY DEF Announces
<1>8. Announces(f, f2, w1, w2, up, p, z)
    BY <1>3, <1>6, <1>7, Zenon DEF Announces, to
<1> QED
    BY <1>1, <1>8 DEF w2

-----------------------------------------------------------------------------
(* It was the owner.                                                        *)

(* What is left of the lobby, and what a member makes of it.                   *)
LEMMA OwnerLost ==
    ASSUME Orderly, NEW p \in Peers, NEW q \in Peers \ {p}, NEW infos, NEW heir, NEW passed,
           State(p) \in {"joining", "joined"}, Infos(p).owner = q,
           infos = Unseat(Infos(p), q), heir = ElectOwner(infos, q),
           passed = [infos EXCEPT !.owner = heir]
    PROVE  /\ passed = Passed(Infos(p)) /\ passed.owner = heir /\ passed \in LobbyInfos
           /\ heir # None => heir \in Members(passed)
           /\ Members(passed) = Members(Infos(p)) \ {q}
           /\ heir = None => AfterLoss(p, Infos(p)) = Absent
           /\ heir # None => /\ AfterLoss(p, Infos(p)).infos = passed
                             /\ AfterLoss(p, Infos(p)).state = IF heir = p THEN "hosting" ELSE "joined"
           /\ \A state : heir # None /\ state = (IF heir = p THEN "hosting" ELSE "joined") =>
                AfterLoss(p, Infos(p)) = [state |-> state, infos |-> passed]
<1> DEFINE state == IF heir = p THEN "hosting" ELSE "joined"
<1>1. Infos(p) \in LobbyInfos
    BY EntryParts DEF Orderly, IInv
<1>2. passed = Passed(Infos(p))
    BY DEF Passed
<1>3. infos \in LobbyInfos
    BY <1>1, UnseatOK
<1>4. passed.owner = heir
    BY <1>3 DEF LobbyInfos
<1>5. /\ passed \in LobbyInfos /\ Members(passed) = Members(Infos(p)) \ {q}
      /\ heir \in (Members(Infos(p)) \ {q}) \cup {None}
    BY <1>1, <1>2, <1>4, PassedOK
<1>6. AfterLoss(p, Infos(p)) = IF heir = None THEN Absent ELSE [state |-> state, infos |-> passed]
    BY <1>2, <1>4 DEF AfterLoss
<1> HIDE DEF state
<1>7. heir # None => /\ AfterLoss(p, Infos(p)).infos = passed
                     /\ AfterLoss(p, Infos(p)).state = state
    BY <1>6
<1> QED
    BY <1>2, <1>4, <1>5, <1>6, <1>7 DEF state

LEMMA OwnerGoneFirm ==
    ASSUME Orderly, NEW p \in Peers, NEW q \in Peers \ {p}, NEW n \in Nat,
           Some(Line(wire, q, p), "eof"), UNCHANGED <<details, newest, spent>>,
           OnOwnerGone(p, q, n)
    PROVE  Firm'
<1> DEFINE infos == Unseat(Infos(p), q)
           heir == ElectOwner(infos, q)
           passed == [infos EXCEPT !.owner = heir]
           f == Views(entry, wire)
           f2 == Views(entry', wire')
<1>1. State(p) \in {"joining", "joined"} /\ Infos(p).owner = q
    BY EntryParts DEF Orderly, IInv, States, OnOwnerGone
<1>2. ~(State(p) = "joining" /\ heir # None)
    BY NotAstray DEF OnOwnerGone
<1>3. \/ heir = None /\ Erase(p) /\ DropPeer(p, q, n, wire)
      \/ /\ heir = p
         /\ Becomes(p, "hosting", passed)
         /\ DropPeer(p, q, n, BroadcastLobby(wire, p, passed))
      \/ /\ heir \notin {None, p}
         /\ Becomes(p, "joined", passed)
         /\ DropPeer(p, q, n, wire)
    BY DEF OnOwnerGone
<1>4. /\ passed.owner = heir /\ passed \in LobbyInfos
      /\ heir # None => heir \in Members(passed)
      /\ Members(passed) = Members(Infos(p)) \ {q}
      /\ heir = None => AfterLoss(p, Infos(p)) = Absent
      /\ heir = p => AfterLoss(p, Infos(p)) = [state |-> "hosting", infos |-> passed]
      /\ heir \notin {None, p} => AfterLoss(p, Infos(p)) = [state |-> "joined", infos |-> passed]
    <2>1. None \notin Peers
        BY LobbyAssumption
    <2> QED
        BY <1>1, <2>1, OwnerLost
<1> HIDE DEF passed, heir, infos
<1>5. ~Unmade
    <2>1. None \notin Peers
        BY LobbyAssumption
    <2> QED
        BY <1>1, <2>1, NoInfosOK DEF Unmade, UnmadeBy, Infos
<1>6. Streams(wire, Words) /\ Steady(wire, wire, up) /\ accepting = {}
      /\ DOMAIN entry = Peers
    BY Order, SameSteady DEF Orderly, IInv, EntriesOK
<1>7. \A x \in Peers \ {p} : entry'[x] = entry[x]
    BY <1>3, <1>6 DEF Becomes, Erase
<1>8. CASE State(p) = "joining"
    <2>1. Drops(p, q, n, wire) /\ Erase(p)
        BY <1>2, <1>3, <1>6, <1>8, LobbyAssumption DEF Drops
    <2>2. entry'[p].state = "none"
        BY <2>1, ErasesIt
    <2>3. /\ f2[p] = entry'[p] /\ f[p] = entry[p]
          /\ \A x \in Peers \ {p} : f2[x] = f[x]
        BY <1>7, <1>8, <2>1, DropView
    <2>4. f[p].state = "joining" /\ f2[p].state = "none" /\ ~Hosting(f, p)
        BY <1>8, <2>2, <2>3 DEF State, Hosting
    <2>5. PICK w1 : Read(wire, w1, q, p, Eof) /\ wire' = w1
        BY <2>1, DropReads
    <2>6. EntriesAre(f)
        BY Order
    <2> HIDE DEF f, f2
    <2>7. Good(f, w1, up, newest) /\ Streams(w1, Words)
        BY <2>1, <2>4, <2>5, EndNoMatter DEF f, Read
    <2>8. Good(f2, w1, up, newest)
        BY <2>3, <2>4, <2>6, <2>7, GoodStops
    <2> QED
        BY <1>5, <2>1, <2>5, <2>8, DropsFirm DEF f2
<1>9. CASE State(p) = "joined" /\ heir # p
    <2>1. Drops(p, q, n, wire)
        BY <1>3, <1>6, <1>9 DEF Drops
    <2>2. entry'[p] = AfterLoss(p, Infos(p))
        BY <1>3, <1>4, <1>6, <1>9 DEF Becomes, Erase
    <2>3. Lost(entry, wire, p)
        BY <1>1, <1>7, <1>9, <2>1, DropView
    <2>4. f[p] = AfterLoss(p, Infos(p))
        BY <2>3, ViewOf DEF Infos
    <2>5. f2 = f
        BY <1>7, <2>1, <2>2, <2>4, DropView
    <2>6. ~Hosting(f, p)
        BY <1>3, <1>4, <1>9, <2>4 DEF Hosting, Absent
    <2> QED
        BY <1>5, <2>1, <2>5, <2>6, DropQuietly
<1>10. CASE State(p) = "joined" /\ heir = p
    <2> DEFINE w == BroadcastLobby(wire, p, passed)
    <2>1. heir # None
        BY <1>10, LobbyAssumption
    <2>2. passed \in SeatedInfos /\ passed.owner = p
        BY <1>4, <1>10, <2>1 DEF SeatedInfos
    <2>3. Streams(w, Words) /\ Steady(wire, w, up)
        BY <1>6, <2>2, BroadcastOK, BroadcastSteady
    <2>4. Drops(p, q, n, w)
        BY <1>3, <1>10, <2>1, <2>3 DEF Drops
    <2>5. w = BroadcastLobby(wire, p, passed)
        OBVIOUS
    <2> HIDE DEF w
    <2>6. entry'[p] = AfterLoss(p, Infos(p))
        BY <1>3, <1>4, <1>6, <1>10, <2>1 DEF Becomes
    <2>7. Lost(entry, wire, p)
        BY <1>1, <1>7, <1>10, <2>4, DropView
    <2>8. f[p] = AfterLoss(p, Infos(p))
        BY <2>7, ViewOf DEF Infos
    <2>9. f2 = f
        BY <1>7, <2>4, <2>6, <2>8, DropView
    <2>10. EntriesAre(f)
        BY Order
    <2>11. Hosting(f, p) /\ f[p].infos = passed
        BY <1>4, <1>10, <2>8 DEF Hosting
    <2> HIDE DEF f, f2
    <2>12. /\ Announces(f, f, wire, w, up, p, p)
           /\ OwnWords(wire) => OwnWords(w)
        BY <1>6, <2>2, <2>5, <2>11, BroadcastTells
    <2>13. PICK w1 : Read(wire, w1, q, p, Eof) /\ Announces(f, f, w1, wire', up, p, p)
        BY <2>4, <2>12, DropTells
    <2>14. Hosting(f, p) => q \notin Members(f[p].infos)
        BY <1>4, <2>11
    <2>15. Good(f, w1, up, newest) /\ NoEnd(w1, up)
        BY <2>4, <2>13, <2>14, EndNoMatter DEF f
    <2>16. Good(f, wire', up, newest)
        BY <2>10, <2>13, <2>15, GoodHeir
    <2> QED
        BY <1>5, <2>4, <2>9, <2>12, <2>16, DropsFirm DEF f2
<1> QED
    BY <1>1, <1>8, <1>9, <1>10

-----------------------------------------------------------------------------
(* It was a member.                                                        *)

LEMMA MemberGoneFirm ==
    ASSUME Orderly, NEW p \in Peers, NEW q \in Peers \ {p}, NEW n \in Nat,
           Some(Line(wire, q, p), "eof"), UNCHANGED <<details, newest, spent>>,
           OnMemberGone(p, q, n)
    PROVE  Firm'
<1> DEFINE infos == Unseat(Infos(p), q)
           f == Views(entry, wire)
           f2 == Views(entry', wire')
           w == BroadcastLobby(wire, p, infos)
<1>1. /\ State(p) = "hosting" /\ q \in Members(Infos(p)) /\ Becomes(p, "hosting", infos)
      /\ DropPeer(p, q, n, w)
    BY DEF OnMemberGone
<1>2. /\ Infos(p) \in LobbyInfos /\ Infos(p).owner = p /\ p \in Members(Infos(p)) /\ ~Unmade
      /\ Hosting(f, p) /\ f[p].infos = Infos(p)
    BY <1>1, HostFacts
<1>3. /\ infos \in LobbyInfos /\ Members(infos) = Members(Infos(p)) \ {q} /\ infos.owner = p
      /\ \A x \in Members(Infos(p)) : x # q => infos.roster[x] = Infos(p).roster[x]
    BY <1>2, UnseatOK, UnseatRoster
<1>4. w = BroadcastLobby(wire, p, infos)
    OBVIOUS
<1> HIDE DEF infos, w
<1>5. infos \in SeatedInfos
    BY <1>1, <1>2, <1>3 DEF SeatedInfos
<1>6. Streams(wire, Words) /\ accepting = {} /\ EntriesAre(f) /\ NoEnd(wire, up)
      /\ Good(f, wire, up, newest) /\ Calm(wire, up)
    BY Order
<1>7. Streams(w, Words) /\ Steady(wire, w, up)
    BY <1>4, <1>5, <1>6, BroadcastOK, BroadcastSteady
<1>8. Drops(p, q, n, w)
    BY <1>1, <1>7 DEF Drops
<1>9. entry'[p].state = "hosting" /\ entry'[p].infos = infos
      /\ \A x \in Peers \ {p} : entry'[x] = entry[x]
    <2> DEFINE state == "hosting"
    <2>1. Becomes(p, state, infos) /\ state = "hosting"
        BY <1>1
    <2> HIDE DEF state
    <2> QED
        BY <2>1, BecomesThis
<1>10. f2[p] = entry'[p] /\ \A x \in Peers \ {p} : f2[x] = f[x]
    BY <1>8, <1>9, DropView
<1>11. Hosting(f2, p) /\ f2[p].infos = infos
    BY <1>9, <1>10 DEF Hosting
<1> HIDE DEF f, f2
<1>12. \A x \in Peers \ {q} :
           /\ x \in Members(infos) <=> x \in Members(f[p].infos)
           /\ x \in Members(infos) => infos.roster[x] = f[p].infos.roster[x]
    BY <1>2, <1>3
<1>13. /\ Announces(f, f2, wire, w, up, p, q)
       /\ OwnWords(wire) => OwnWords(w)
    BY <1>2, <1>3, <1>4, <1>5, <1>6, <1>10, <1>11, <1>12, BroadcastTells
<1>14. PICK w1 : Read(wire, w1, q, p, Eof) /\ Announces(f, f2, w1, wire', up, p, q)
    BY <1>8, <1>13, DropTells
<1>15. <<p, q>> \in up
    BY <1>1 DEF DropPeer
<1>16. ~Met(up, q, p)
    BY <1>8, Dropped DEF Met
<1>17. \A r \in Peers \ {q} : Empty(Line(wire, r, q))
    BY <1>6, <1>15, GoneBy
<1>18. q \notin Members(f2[p].infos) /\ Eof.type = "eof"
    BY <1>3, <1>11, MailKinds
<1>19. Good(f2, wire', up, newest)
    BY <1>6, <1>14, <1>16, <1>17, <1>18, GoodGone
<1> QED
    BY <1>2, <1>8, <1>13, <1>19, DropsFirm DEF f2

(* It was nobody to it.                                                      *)
LEMMA OtherGoneFirm ==
    ASSUME Orderly, NEW p \in Peers, NEW q \in Peers \ {p}, NEW n \in Nat,
           Some(Line(wire, q, p), "eof"), UNCHANGED <<details, newest, spent, entry>>,
           State(p) # "hosting" => (State(p) = "none" \/ Infos(p).owner # q),
           State(p) = "hosting" => q \notin Members(Infos(p)),
           DropPeer(p, q, n, wire)
    PROVE  Firm'
<1> DEFINE f == Views(entry, wire)
           f2 == Views(entry', wire')
<1>1. Streams(wire, Words) /\ Steady(wire, wire, up)
    BY Order, SameSteady
<1>2. Drops(p, q, n, wire)
    BY <1>1 DEF Drops
<1>3. ~Lost(entry, wire, p)
    BY <1>2, DropView
<1>4. f[p] = entry[p]
    BY <1>2, <1>3, DropView
<1>5. f2 = f
    BY <1>2, <1>4, DropView
<1>6. Hosting(f, p) => q \notin Members(f[p].infos)
    BY <1>4 DEF Hosting, State, Infos
<1> QED
    BY <1>2, <1>5, <1>6, DropQuietly

LEMMA LoseFirm ==
    ASSUME Orderly, NEW p \in Peers, NEW q \in Peers \ {p}, NEW n \in 0 .. Len(wire[<<q, p>>]),
           Lose(p, q, n)
    PROVE  Firm'
<1>1. n \in Nat
    <2>1. Len(Line(wire, q, p)) \in Nat
        BY Order, LineType
    <2> QED
        BY <2>1 DEF Line
<1>2. OnPeerDisconnected(p, q, n) /\ UNCHANGED <<details, newest, spent>>
    BY DEF Lose
<1>3. Some(Line(wire, q, p), "eof")
    <2>1. Line(wire, q, p) \in Seq(Mail) /\ Eof \in Range(Line(wire, q, p))
        BY Order, LineType DEF Lose, Line
    <2>2. \A l \in Seq(Mail) : Eof \in Range(l) => \E i \in 1 .. Len(l) : l[i] = Eof
        BY DEF Range
    <2> QED
        BY <2>1, <2>2, MailKinds DEF Some
<1>4. CASE OnOwnerGone(p, q, n)
    BY <1>1, <1>2, <1>3, <1>4, OwnerGoneFirm
<1>5. CASE OnMemberGone(p, q, n)
    BY <1>1, <1>2, <1>3, <1>5, MemberGoneFirm
<1>6. CASE /\ State(p) # "hosting" => (State(p) = "none" \/ Infos(p).owner # q)
           /\ State(p) = "hosting" => q \notin Members(Infos(p))
           /\ DropPeer(p, q, n, wire)
           /\ UNCHANGED <<entry, astray>>
    BY <1>1, <1>2, <1>3, <1>6, OtherGoneFirm
<1> QED
    BY <1>2, <1>4, <1>5, <1>6 DEF OnPeerDisconnected

(* What would disturb it, or cannot be.                                       *)
LEMMA BreakFirm ==
    ASSUME Orderly, NEW p \in Peers, NEW q, NEW n, Break(p, q, n)
    PROVE  FALSE
<1>1. Spend("breaks") /\ "breaks" \in Kinds
    BY DEF Break, Kinds
<1>2. spent["breaks"] \in Nat /\ spent'["breaks"] = spent["breaks"] + 1
    BY <1>1, Order, SpendGrows DEF Grown
<1> QED
    BY <1>2 DEF Orderly, Undisturbed

LEMMA LateFirm ==
    ASSUME Orderly, NEW p \in Peers, DeliverLate(p)
    PROVE  FALSE
    BY Order DEF DeliverLate

-----------------------------------------------------------------------------
(* Once nothing is under way, everyone in the lobby has what its host has.      *)

(* K is what the host h has.                                                  *)
AllHave(h, K) ==
    /\ h \in Peers /\ State(h) = "hosting" /\ Infos(h) = K /\ K.owner = h /\ h \in Members(K)
    /\ \A x \in Peers \ {h} :
         \/ State(x) = "none" /\ x \notin Members(K)
         \/ State(x) = "joined" /\ Infos(x) = K /\ x \in Members(K) /\ Met(up, x, h)
    /\ \A x \in Peers : newest[x] # 0 /\ InLobby(x) => newest[x] \in K.roster[x]

LEMMA SettledBlank ==
    ASSUME Settled
    PROVE  Blank(wire)
<1>1. \A q \in Peers : \A p \in Peers \ {q} : Line(wire, q, p) = <<>>
    BY DEF Settled, Line, Pairs
<1> QED
    BY <1>1 DEF Blank, Empty

LEMMA BlankSpeaks ==
    ASSUME NEW f, NEW w, Blank(w)
    PROVE  /\ \A s, K : Speaks(f, w, s, K) <=> s \in Peers /\ Hosting(f, s) /\ f[s].infos = K
           /\ \A x \in Peers : ~Told(w, x) /\ ~Admitted(w, x) /\ ~Updating(w, x) /\ ~Leaving(w, x)
           /\ \A x \in Peers : \A y \in Peers \ {x} : \A type, k :
                ~Some(Line(w, x, y), type) /\ ~LastUpdate(Line(w, x, y), k)
<1>1. \A x \in Peers : \A y \in Peers \ {x} : Len(Line(w, x, y)) = 0
    BY DEF Blank, Empty
<1>2. \A x \in Peers : \A y \in Peers \ {x} : \A i : i \notin 1 .. Len(Line(w, x, y))
    BY <1>1
<1>3. \A s, K : Speaks(f, w, s, K) <=> s \in Peers /\ Hosting(f, s) /\ f[s].infos = K
    BY <1>2 DEF Speaks, Named
<1>4. \A x \in Peers : \A y \in Peers \ {x} : \A type, k :
         ~Some(Line(w, x, y), type) /\ ~LastUpdate(Line(w, x, y), k) /\ ~Admits(Line(w, x, y))
    BY <1>2 DEF Some, LastUpdate, Admits
<1>5. \A x \in Peers : ~Told(w, x) /\ ~Admitted(w, x) /\ ~Updating(w, x) /\ ~Leaving(w, x)
    BY <1>4 DEF Told, Admitted, Updating, Leaving, Sends
<1> QED
    BY <1>3, <1>4, <1>5

LEMMA AlikeSame ==
    ASSUME NEW I \in LobbyInfos, NEW K \in LobbyInfos, NEW x, Alike(x, I, K, FALSE)
    PROVE  I = K
<1>1. /\ I.owner = K.owner /\ I.room = K.room /\ I.migrate = K.migrate
      /\ Members(I) = Members(K)
      /\ \A m \in Members(K) : I.roster[m] = K.roster[m]
    BY DEF Alike
<1>2. I.roster \in [Members(I) -> SUBSET Nat] /\ K.roster \in [Members(K) -> SUBSET Nat]
    BY InfosParts
<1>3. I.roster = K.roster
    BY <1>1, <1>2
<1> QED
    BY <1>1, <1>3 DEF LobbyInfos

(* Who is in it has what the host has.                                        *)
LEMMA JoinedHas ==
    ASSUME NEW f, EntriesAre(f), NEW w, NEW u, NEW new, Good(f, w, u, new), Blank(w),
           NEW x \in Peers, f[x].state = "joined"
    PROVE  \E h \in Peers \ {x} : /\ Hosting(f, h) /\ Met(u, x, h)
                                  /\ f[x].infos = f[h].infos /\ x \in Members(f[h].infos)
<1> DEFINE I == f[x].infos
           free == FALSE
<1>1. /\ \A s, K : Speaks(f, w, s, K) <=> s \in Peers /\ Hosting(f, s) /\ f[s].infos = K
      /\ ~Told(w, x) /\ ~Admitted(w, x) /\ ~Updating(w, x)
    BY BlankSpeaks
<1>2. Subject(f, w, x, I.owner, I)
    BY <1>1 DEF Subject
<1>3. Follows(f, w, u, x, I.owner, I, free)
    BY <1>1, <1>2 DEF Good, Settling, AllFollow, Current
<1> HIDE DEF free
<1>4. PICK n, h : Trail(w, x, I.owner, n, h) /\ Ends(f, w, u, x, I.owner, I, free, n, h)
    BY <1>3 DEF Follows
<1>5. n = 0
    BY <1>1, <1>4, TrailLength
<1>6. UpToDate(f, w, u, x, I, free)
    BY <1>4, <1>5 DEF Ends
<1>7. PICK s, K : /\ Speaks(f, w, s, K)
                  /\ I.owner = s /\ x \in Members(K)
                  /\ s = x \/ Met(u, x, s)
                  /\ Alike(x, I, K, free)
    BY <1>6 DEF UpToDate
<1>8. s \in Peers /\ Hosting(f, s) /\ f[s].infos = K
    BY <1>1, <1>7
<1>9. s # x
    BY <1>8 DEF Hosting
<1>10. I \in LobbyInfos /\ K \in LobbyInfos
    BY <1>8 DEF EntriesAre, EntryOK
<1>11. Alike(x, I, K, FALSE)
    BY <1>7 DEF free
<1> HIDE DEF I
<1>12. I = K
    BY <1>10, <1>11, AlikeSame
<1> QED
    BY <1>7, <1>8, <1>9, <1>12 DEF I

LEMMA AtRest ==
    ASSUME IInv, Firm, Settled
    PROVE  /\ \A x \in Peers : State(x) = "joined" => \E h \in Peers : State(h) = "hosting"
           /\ \A h \in Peers : State(h) = "hosting" => AllHave(h, Infos(h))
<1> DEFINE f == Views(entry, wire)
<1>1. Blank(wire) /\ EntriesAre(entry)
    BY SettledBlank DEF IInv, EntriesOK, EntriesAre
<1>2. \A x \in Peers : f[x] = entry[x]
    BY <1>1, NoneLost
<1>3. Good(f, wire, up, newest) /\ EntriesAre(f)
    BY <1>1, ViewsAre DEF Firm
<1>4. \A x \in Peers : f[x].state = State(x) /\ f[x].infos = Infos(x)
    BY <1>2 DEF State, Infos
<1> HIDE DEF f
<1>5. /\ \A s, K : Speaks(f, wire, s, K) <=> s \in Peers /\ Hosting(f, s) /\ f[s].infos = K
      /\ \A x \in Peers : ~Told(wire, x) /\ ~Admitted(wire, x) /\ ~Updating(wire, x) /\ ~Leaving(wire, x)
      /\ \A x \in Peers : \A y \in Peers \ {x} : \A type, k :
           ~Some(Line(wire, x, y), type) /\ ~LastUpdate(Line(wire, x, y), k)
    BY <1>1, BlankSpeaks
<1>6. ASSUME NEW x \in Peers, State(x) = "joined"
      PROVE  \E h \in Peers \ {x} : /\ Hosting(f, h) /\ Met(up, x, h)
                                    /\ f[x].infos = f[h].infos /\ x \in Members(f[h].infos)
    BY <1>1, <1>3, <1>4, <1>6, JoinedHas
<1>7. ASSUME NEW h \in Peers, State(h) = "hosting" PROVE AllHave(h, Infos(h))
    <2> DEFINE K == Infos(h)
    <2>1. Hosting(f, h) /\ f[h].infos = K /\ Speaks(f, wire, h, K)
        BY <1>4, <1>5, <1>7 DEF Hosting
    <2>2. K.owner = h /\ h \in Members(K)
        BY <1>1, <1>7 DEF EntriesAre, EntryOK, State, Infos
    <2> HIDE DEF K
    <2>3. \A y \in Peers : Hosting(f, y) => y = h
        BY <1>3, <2>1 DEF Good, Settling, Single
    <2>4. ASSUME NEW x \in Peers \ {h}
          PROVE  \/ State(x) = "none" /\ x \notin Members(K)
                 \/ State(x) = "joined" /\ Infos(x) = K /\ x \in Members(K) /\ Met(up, x, h)
        <3>1. State(x) \in {"none", "joined"}
            <4>1. State(x) # "hosting"
                BY <1>4, <2>3 DEF Hosting
            <4>2. State(x) \in States /\ State(x) # "joining"
                BY EntryParts DEF IInv, Settled
            <4> QED
                BY <4>1, <4>2 DEF States
        <3>2. CASE State(x) = "joined"
            BY <1>4, <1>6, <2>1, <2>3, <3>2
        <3>3. CASE State(x) = "none"
            <4>1. ~HeldSeat(f, wire, h, x)
                BY <1>4, <1>5, <3>3 DEF HeldSeat, InIt
            <4> QED
                BY <1>3, <2>1, <3>3, <4>1 DEF Good, Settling, Seats
        <3> QED
            BY <3>1, <3>2, <3>3
    <2>5. ASSUME NEW x \in Peers, newest[x] # 0, InLobby(x) PROVE newest[x] \in K.roster[x]
        <3>1. InIt(f, x) /\ x \in Members(K)
            BY <1>4, <2>2, <2>4, <2>5 DEF InIt, InLobby
        <3>2. Heeded(f, wire, x)
            BY <1>5, <3>1 DEF Heeded
        <3>3. KeptBy(wire, x, h, K, newest[x])
            BY <1>3, <2>1, <2>5, <3>1, <3>2 DEF Good, Kept
        <3> QED
            BY <1>5, <3>3 DEF KeptBy
    <2> QED
        BY <1>7, <2>2, <2>4, <2>5 DEF AllHave, K
<1> QED
    BY <1>4, <1>6, <1>7 DEF Hosting

-----------------------------------------------------------------------------
(* A machine goes away while nothing is under way.                            *)

Vanishes(p) ==
    /\ Orderly /\ p \in Peers /\ Crash(p)

LEMMA Vanished ==
    ASSUME NEW p, Vanishes(p)
    PROVE  /\ Orderly /\ p \in Peers /\ Settled /\ IInv /\ Firm
           /\ \A x, y \in Peers : <<x, y>> \in up' <=> <<x, y>> \in up /\ x # p
           /\ accepting' = {} /\ \A x \in Peers : late'[x] = <<>>
           /\ \A x \in Peers : \A y \in Peers \ {x} :
                IF x = p /\ Met(up, x, y) THEN Ended(Line(wire', x, y)) ELSE Empty(Line(wire', x, y))
           /\ entry'[p].state = "none" /\ entry'[p].infos = NoInfos
           /\ newest'[p] = 0 /\ details'[p] = NoInfos
           /\ \A x \in Peers \ {p} : /\ entry'[x] = entry[x] /\ newest'[x] = newest[x]
                                     /\ details'[x] = details[x]
<1>1. /\ Orderly /\ p \in Peers /\ Vanish(p) /\ Erase(p)
      /\ details' = [details EXCEPT ![p] = NoInfos]
      /\ newest' = [newest EXCEPT ![p] = 0]
      /\ GoesAstray(~Settled)
    BY DEF Vanishes, Crash
<1>2. Settled /\ IInv /\ Firm
    BY <1>1, NotAstray DEF Orderly
<1>3. accepting = {} /\ up \subseteq Pairs /\ DOMAIN late = Peers /\ \A x \in Peers : late[x] = <<>>
    BY <1>1, <1>2, Order DEF IInv, LinkTyped
<1>4. up' = {pq \in up : pq[1] # p} /\ accepting' = {pq \in accepting : pq[1] # p}
      /\ late' = [late EXCEPT ![p] = <<>>]
    BY <1>1 DEF Vanish
<1>5. \A x, y \in Peers : <<x, y>> \in up' <=> <<x, y>> \in up /\ x # p
    BY <1>4
<1>6. accepting' = {} /\ \A x \in Peers : late'[x] = <<>>
    BY <1>3, <1>4
<1>7. /\ entry'[p].state = "none" /\ entry'[p].infos = NoInfos
      /\ \A x \in Peers \ {p} : entry'[x] = entry[x]
    BY <1>1, ErasesIt
<1>8. /\ newest'[p] = 0 /\ details'[p] = NoInfos
      /\ \A x \in Peers \ {p} : newest'[x] = newest[x] /\ details'[x] = details[x]
    BY <1>1 DEF Orderly, IInv, HistoryOK, DetailsOK
<1>9. ASSUME NEW x \in Peers, NEW y \in Peers \ {x}
      PROVE  IF x = p /\ Met(up, x, y) THEN Ended(Line(wire', x, y)) ELSE Empty(Line(wire', x, y))
    <2> DEFINE ended == {pq \in up \cup accepting : pq[1] = p /\ Reads(pq[2], p)}
               a == <<x, y>>
    <2>1. PICK kept \in [ended -> UNION {0 .. Len(wire[pq]) : pq \in ended}] :
             /\ \A pq \in ended : kept[pq] <= Len(wire[pq])
             /\ wire' = [pq \in Pairs |->
                           IF pq[2] = p THEN <<>>
                           ELSE IF pq \in ended THEN SubSeq(wire[pq], 1, kept[pq]) \o <<Eof>>
                           ELSE wire[pq]]
        BY <1>1 DEF Vanish
    <2>2. a \in Pairs /\ a[1] = x /\ a[2] = y
        BY DEF Pairs
    <2>3. wire[a] = <<>>
        BY <1>2, <2>2 DEF Settled
    <2>4. a \in ended <=> x = p /\ Met(up, x, y)
        BY <1>3, <2>2 DEF Reads, Met
    <2>5. wire'[a] = IF y = p THEN <<>>
                     ELSE IF a \in ended THEN SubSeq(wire[a], 1, kept[a]) \o <<Eof>>
                     ELSE wire[a]
        BY <2>1, <2>2
    <2>6. Line(wire', x, y) = wire'[a]
        BY DEF Line
    <2>7. CASE a \in ended
        <3>1. kept[a] \in UNION {0 .. Len(wire[pq]) : pq \in ended} /\ kept[a] <= Len(wire[a])
            BY <2>1, <2>7
        <3>2. kept[a] = 0
            <4>1. PICK b \in ended : kept[a] \in 0 .. Len(wire[b])
                BY <3>1
            <4> QED
                BY <2>3, <3>1, <4>1
        <3>3. wire'[a] = <<>> \o <<Eof>>
            <4>1. wire'[a] = SubSeq(wire[a], 1, kept[a]) \o <<Eof>>
                BY <2>4, <2>5, <2>7
            <4>2. SubSeq(wire[a], 1, kept[a]) = <<>>
                BY <2>3, <3>2
            <4> QED
                BY <4>1, <4>2
        <3>4. wire'[a] = <<Eof>>
            BY <3>3
        <3>5. Ended(wire'[a])
            BY <3>4 DEF Ended
        <3> QED
            BY <2>4, <2>6, <2>7, <3>5
    <2>8. CASE a \notin ended
        <3>1. wire'[a] = <<>>
            BY <2>3, <2>5, <2>8
        <3>2. Empty(wire'[a])
            BY <3>1 DEF Empty
        <3> QED
            BY <2>4, <2>6, <2>8, <3>2
    <2> QED
        BY <2>7, <2>8
<1> QED
    BY <1>1, <1>2, <1>5, <1>6, <1>7, <1>8, <1>9

LEMMA EndedHas ==
    ASSUME NEW l
    PROVE  /\ Empty(l) => \A type : ~Some(l, type)
           /\ Ended(l) => Some(l, "eof") /\ \A type : Some(l, type) => type = "eof"
<1>1. Eof.type = "eof"
    BY MailKinds
<1>2. Empty(l) => \A type : ~Some(l, type)
    BY DEF Empty, Some
<1>3. Ended(l) => \A i : i \in 1 .. Len(l) <=> i = 1
    BY DEF Ended
<1> QED
    BY <1>1, <1>2, <1>3 DEF Ended, Some

(* Its ends are all there is.                                                 *)
LEMMA VanishedCalm ==
    ASSUME NEW p, Vanishes(p)
    PROVE  /\ Calm(wire', up') /\ Still(wire') /\ Unasked(wire') /\ OwnWords(wire')
           /\ \A x \in Peers : \A y \in Peers \ {x} :
                Some(Line(wire', x, y), "eof") <=> x = p /\ Met(up, x, y)
<1> DEFINE w2 == wire'
           u2 == up'
<1>1. /\ Orderly /\ p \in Peers /\ Settled
      /\ \A x, y \in Peers : <<x, y>> \in u2 <=> <<x, y>> \in up /\ x # p
      /\ \A x \in Peers : \A y \in Peers \ {x} :
           IF x = p /\ Met(up, x, y) THEN Ended(Line(w2, x, y)) ELSE Empty(Line(w2, x, y))
    BY Vanished
<1>2. \A x, y \in Peers : <<x, y>> \in up => <<y, x>> \in up
    BY <1>1 DEF Settled
<1>3. Calm(wire, up)
    BY <1>1, Order
<1> HIDE DEF w2, u2
<1>4. \A x \in Peers : \A y \in Peers \ {x} : Some(Line(w2, x, y), "eof") <=> x = p /\ Met(up, x, y)
    BY <1>1, EndedHas
<1>5. Still(w2)
    BY <1>1, EndedHas DEF Still
<1>6. Unasked(w2)
    BY <1>5 DEF Still, Unasked
<1>7. OwnWords(w2)
    <2>1. \A l, i : i \in 1 .. Len(l) => Some(l, l[i].type)
        BY DEF Some
    <2> QED
        BY <1>5, <2>1 DEF Still, OwnWords
<1>8. NoEnd(w2, u2)
    BY <1>1, <1>4 DEF NoEnd, Met
<1>9. ASSUME NEW x \in Peers, NEW y \in Peers \ {x} PROVE HalfOf(w2, u2, x, y)
    BY <1>1, <1>2 DEF HalfOf, Met
<1>10. \A x \in Peers : Linked(u2, x) => x # p /\ Linked(up, x)
    BY <1>1 DEF Linked
<1>11. \A x \in Peers : \A y \in Peers \ {x} : Linked(u2, x) /\ Linked(u2, y) => Met(u2, x, y)
    BY <1>1, <1>3, <1>10 DEF Calm, Met
<1>12. \A a, x \in Peers : \A b \in Peers \ {a} : \A y \in Peers \ {x} :
         Some(Line(w2, b, a), "eof") /\ Some(Line(w2, y, x), "eof") => b = y
    BY <1>4
<1>13. Calm(w2, u2)
    BY <1>8, <1>9, <1>11, <1>12 DEF Calm
<1> QED
    BY <1>4, <1>5, <1>6, <1>7, <1>13 DEF w2, u2

(* What is left to see.                                                      *)
LEMMA VanishFirm ==
    ASSUME NEW p, Vanishes(p), Good(Views(entry', wire'), wire', up', newest')
    PROVE  Firm'
<1>1. /\ Orderly /\ p \in Peers /\ accepting' = {} /\ \A x \in Peers : late'[x] = <<>>
      /\ entry'[p].state = "none" /\ entry'[p].infos = NoInfos
      /\ newest'[p] = 0 /\ details'[p] = NoInfos
      /\ \A x \in Peers \ {p} : /\ entry'[x] = entry[x] /\ newest'[x] = newest[x]
                                /\ details'[x] = details[x]
    BY Vanished
<1>2. Calm(wire', up') /\ Unasked(wire') /\ OwnWords(wire')
    BY VanishedCalm
<1>3. "crashes" \in Kinds /\ "creates" \in Kinds /\ Spend("crashes")
    BY DEF Kinds, Vanishes, Crash
<1>4. spent'["crashes"] # 0 /\ (spent'["creates"] = 0 => spent["creates"] = 0)
    <2>1. spent'["crashes"] = spent["crashes"] + 1 /\ Grown
        BY <1>1, <1>3, Order, SpendGrows
    <2> QED
        BY <1>3, <2>1 DEF Grown
<1>5. ASSUME spent'["creates"] = 0 PROVE Unmade'
    <2>1. UnmadeBy(entry, details, newest)
        BY <1>1, <1>4, <1>5 DEF Orderly, Firm, Unmade
    <2>2. UnmadeBy(entry', details', newest')
        BY <1>1, <2>1 DEF UnmadeBy
    <2> QED
        BY <1>2, <2>2 DEF Unmade
<1> QED
    BY <1>1, <1>2, <1>4, <1>5 DEF Firm

(* What the others hold of it: who had it as its owner notices.                *)
LEMMA VanishViews ==
    ASSUME NEW p, Vanishes(p)
    PROVE  LET f2 == Views(entry', wire')
           IN  /\ f2[p].state = "none"
               /\ \A x \in Peers \ {p} :
                    /\ State(x) = "joined" /\ Infos(x).owner = p /\ Met(up, p, x) =>
                         f2[x] = AfterLoss(x, Infos(x))
                    /\ State(x) # "joined" \/ Infos(x).owner # p => f2[x] = entry[x]
<1> DEFINE e2 == entry'
           w2 == wire'
           f2 == Views(e2, w2)
<1>1. /\ Orderly /\ p \in Peers /\ e2[p].state = "none"
      /\ \A x \in Peers \ {p} : e2[x] = entry[x]
    BY Vanished
<1>2. \A x \in Peers : \A y \in Peers \ {x} : Some(Line(w2, x, y), "eof") <=> x = p /\ Met(up, x, y)
    BY VanishedCalm
<1>3. EntriesAre(entry)
    BY <1>1, Order
<1> HIDE DEF e2, w2
<1>4. f2[p] = e2[p]
    <2>1. ~Lost(e2, w2, p)
        BY <1>1 DEF Lost
    <2> QED
        BY <1>1, <2>1, ViewOf
<1>5. ASSUME NEW x \in Peers \ {p}
      PROVE  /\ State(x) = "joined" /\ Infos(x).owner = p /\ Met(up, p, x) =>
                   f2[x] = AfterLoss(x, Infos(x))
             /\ State(x) # "joined" \/ Infos(x).owner # p => f2[x] = entry[x]
    <2>1. EntryOK(x, entry[x]) /\ e2[x] = entry[x]
        BY <1>1, <1>3 DEF EntriesAre
    <2>2. State(x) = "joined" => Infos(x).owner \in Peers
        BY <2>1, InfosParts DEF EntryOK, State, Infos
    <2>3. State(x) = "joined" /\ Infos(x).owner = p /\ Met(up, p, x) => Lost(e2, w2, x)
        BY <1>1, <1>2, <2>1 DEF Lost, State, Infos
    <2>4. State(x) # "joined" \/ Infos(x).owner # p => ~Lost(e2, w2, x)
        BY <1>1, <1>2, <2>1, <2>2 DEF Lost, State, Infos
    <2> QED
        BY <2>1, <2>3, <2>4, ViewOf DEF Infos
<1> QED
    BY <1>1, <1>4, <1>5 DEF e2, w2

(* There was no lobby.                                                       *)
LEMMA VanishNobody ==
    ASSUME NEW p, Vanishes(p), \A x \in Peers : State(x) # "hosting"
    PROVE  Firm'
<1> DEFINE f2 == Views(entry', wire')
<1>1. Orderly /\ p \in Peers /\ Settled /\ IInv /\ Firm
    BY Vanished
<1>2. \A x \in Peers : State(x) = "none"
    <2>1. \A x \in Peers : State(x) # "joined"
        BY <1>1, AtRest
    <2>2. \A x \in Peers : State(x) \in States /\ State(x) # "joining"
        BY <1>1, EntryParts DEF IInv, Settled
    <2> QED
        BY <2>1, <2>2 DEF States
<1>3. \A x \in Peers : f2[x].state = "none"
    BY <1>2, VanishViews DEF State
<1>4. Unasked(wire')
    BY VanishedCalm
<1> HIDE DEF f2
<1>5. Good(f2, wire', up', newest')
    BY <1>3, <1>4, GoodAlone
<1> QED
    BY <1>5, VanishFirm DEF f2

(* A member, or somebody else, is gone.                                       *)
LEMMA VanishOther ==
    ASSUME NEW p, Vanishes(p), NEW h \in Peers \ {p}, State(h) = "hosting"
    PROVE  Firm'
<1> DEFINE f2 == Views(entry', wire')
           w2 == wire'
           u2 == up'
           new2 == newest'
           K == Infos(h)
<1>1. /\ Orderly /\ p \in Peers /\ Settled /\ IInv /\ Firm
      /\ \A x, y \in Peers : <<x, y>> \in u2 <=> <<x, y>> \in up /\ x # p
      /\ new2[p] = 0
      /\ \A x \in Peers \ {p} : new2[x] = newest[x]
    BY Vanished
<1>2. AllHave(h, K)
    BY <1>1, AtRest
<1>3. /\ f2[p].state = "none"
      /\ \A x \in Peers \ {p} : State(x) # "joined" \/ Infos(x).owner # p => f2[x] = entry[x]
    BY VanishViews
<1>4. /\ Still(w2)
      /\ \A x \in Peers : \A y \in Peers \ {x} : Some(Line(w2, x, y), "eof") <=> x = p /\ Met(up, x, y)
    BY VanishedCalm
<1> HIDE DEF f2, w2, u2, new2, K
<1>5. K.owner = h /\ h \in Members(K) /\ Infos(h) = K
    BY <1>2 DEF AllHave
<1>6. \A x \in Peers \ {p} : f2[x] = entry[x]
    BY <1>2, <1>3, <1>5 DEF AllHave
<1>7. Hosting(f2, h) /\ f2[h].infos = K
    BY <1>5, <1>6 DEF Hosting, State, Infos
<1>8. \A x, y \in Peers \ {p} : Met(up, x, y) => Met(u2, x, y)
    BY <1>1 DEF Met
<1>9. ASSUME NEW x \in Peers \ {h}
      PROVE  \/ f2[x].state = "none" /\ (x \in Members(K) => Some(Line(w2, x, h), "eof"))
             \/ f2[x].state = "joined" /\ f2[x].infos = K /\ x \in Members(K) /\ Met(u2, x, h)
    <2>1. \/ State(x) = "none" /\ x \notin Members(K)
          \/ State(x) = "joined" /\ Infos(x) = K /\ x \in Members(K) /\ Met(up, x, h)
        BY <1>2 DEF AllHave
    <2>2. CASE x = p
        BY <1>3, <1>4, <2>1, <2>2
    <2>3. CASE x # p
        BY <1>6, <1>8, <2>1, <2>3 DEF State, Infos
    <2> QED
        BY <2>2, <2>3
<1>10. ASSUME NEW x \in Peers, InIt(f2, x), new2[x] # 0 PROVE new2[x] \in K.roster[x]
    <2>1. x # p
        BY <1>3, <1>10 DEF InIt
    <2>2. newest[x] # 0 /\ InLobby(x)
        BY <1>1, <1>6, <1>10, <2>1 DEF InIt, InLobby, State
    <2> QED
        BY <1>1, <1>2, <2>1, <2>2 DEF AllHave
<1>11. Good(f2, w2, u2, new2)
    BY <1>4, <1>5, <1>7, <1>9, <1>10, GoodStill
<1> QED
    BY <1>11, VanishFirm DEF f2, w2, u2, new2

(* The roster of what is left.                                               *)
LEMMA PassedRoster ==
    ASSUME NEW infos \in LobbyInfos, NEW x \in Members(infos), x # infos.owner
    PROVE  Passed(infos).roster[x] = infos.roster[x]
<1> DEFINE left == Unseat(infos, infos.owner)
<1>1. left \in LobbyInfos /\ left.roster[x] = infos.roster[x]
    BY UnseatOK, UnseatRoster
<1>2. Passed(infos) = [left EXCEPT !.owner = ElectOwner(left, infos.owner)]
    BY DEF Passed
<1> HIDE DEF left
<1> QED
    BY <1>1, <1>2, OtherFields

(* The host is gone.                                                        *)
LEMMA VanishHost ==
    ASSUME NEW p, Vanishes(p), State(p) = "hosting"
    PROVE  Firm'
<1> DEFINE f2 == Views(entry', wire')
           w2 == wire'
           u2 == up'
           new2 == newest'
           K == Infos(p)
           P == Passed(K)
           c == P.owner
<1>1. /\ Orderly /\ p \in Peers /\ Settled /\ IInv /\ Firm
      /\ \A x, y \in Peers : <<x, y>> \in u2 <=> <<x, y>> \in up /\ x # p
      /\ \A x \in Peers \ {p} : new2[x] = newest[x]
    BY Vanished
<1>2. AllHave(p, K) /\ K \in LobbyInfos
    BY <1>1, AtRest, EntryParts DEF IInv
<1>3. /\ f2[p].state = "none"
      /\ \A x \in Peers \ {p} :
           /\ State(x) = "joined" /\ Infos(x).owner = p /\ Met(up, p, x) =>
                f2[x] = AfterLoss(x, Infos(x))
           /\ State(x) # "joined" \/ Infos(x).owner # p => f2[x] = entry[x]
    BY VanishViews
<1>4. Still(w2) /\ Unasked(w2)
    BY VanishedCalm
<1>5. Calm(wire, up)
    BY <1>1, Order
<1>6. P \in LobbyInfos /\ Members(P) = Members(K) \ {p} /\ c \in Members(P) \cup {None}
    BY <1>2, PassedOK DEF AllHave
<1>7. \A x \in Members(K) \ {p} : P.roster[x] = K.roster[x]
    BY <1>2, PassedRoster DEF AllHave
<1> HIDE DEF f2, w2, u2, new2
<1>8. ASSUME NEW x \in Peers \ {p}
      PROVE  \/ State(x) = "none" /\ x \notin Members(K) /\ f2[x].state = "none"
             \/ /\ State(x) = "joined" /\ x \in Members(K) /\ Met(up, x, p)
                /\ f2[x] = AfterLoss(x, K)
    <2>1. \/ State(x) = "none" /\ x \notin Members(K)
          \/ State(x) = "joined" /\ Infos(x) = K /\ x \in Members(K) /\ Met(up, x, p)
        BY <1>2 DEF AllHave
    <2>2. K.owner = p
        BY <1>2 DEF AllHave
    <2> HIDE DEF K
    <2>3. CASE State(x) = "none" /\ x \notin Members(K)
        BY <1>3, <2>3 DEF State
    <2>4. CASE State(x) = "joined" /\ Infos(x) = K /\ x \in Members(K) /\ Met(up, x, p)
        BY <1>3, <2>2, <2>4 DEF Met
    <2> QED
        BY <2>1, <2>3, <2>4
<1> HIDE DEF K
<1>9. CASE c = None
    <2>1. Absent.state = "none"
        BY DEF Absent
    <2>2. \A x \in Peers : AfterLoss(x, K) = Absent
        BY <1>9 DEF AfterLoss
    <2>3. \A x \in Peers : f2[x].state = "none"
        BY <1>3, <1>8, <2>1, <2>2
    <2>4. Good(f2, w2, u2, new2)
        BY <1>4, <2>3, GoodAlone
    <2> QED
        BY <2>4, VanishFirm DEF f2, w2, u2, new2
<1>10. CASE c # None
    <2>1. c \in Members(K) /\ c \in Members(P) /\ c # p /\ c \in Peers
        BY <1>6, <1>10, InfosParts
    <2>2. ASSUME NEW x \in Peers
          PROVE  /\ AfterLoss(x, K).infos = P
                 /\ x = c => AfterLoss(x, K).state = "hosting"
                 /\ x # c => AfterLoss(x, K).state = "joined"
        <3> DEFINE state == IF c = x THEN "hosting" ELSE "joined"
        <3>1. AfterLoss(x, K) = [state |-> state, infos |-> P]
            BY <1>10 DEF AfterLoss
        <3>2. (x = c => state = "hosting") /\ (x # c => state = "joined")
            OBVIOUS
        <3> HIDE DEF state, P
        <3> QED
            BY <3>1, <3>2 DEF c
    <2> HIDE DEF P
    <2>3. Hosting(f2, c) /\ f2[c].infos = P
        BY <1>8, <2>1, <2>2 DEF Hosting
    <2>4. Met(up, c, p)
        BY <1>8, <2>1
    <2>5. ASSUME NEW x \in Peers \ {c}
          PROVE  \/ f2[x].state = "none" /\ x \notin Members(P)
                 \/ f2[x].state = "joined" /\ f2[x].infos = P /\ x \in Members(P) /\ Met(u2, x, c)
        <3>1. CASE x = p \/ State(x) = "none"
            BY <1>3, <1>6, <1>8, <3>1
        <3>2. CASE x # p /\ State(x) # "none"
            <4>1. x \in Members(K) /\ Met(up, x, p) /\ f2[x] = AfterLoss(x, K)
                BY <1>8, <3>2
            <4>2. Linked(up, x) /\ Linked(up, c)
                BY <1>1, <2>1, <2>4, <4>1 DEF Linked, Met
            <4>3. Met(up, x, c)
                BY <1>5, <2>1, <4>2 DEF Calm
            <4>4. Met(u2, x, c)
                BY <1>1, <2>1, <3>2, <4>3 DEF Met
            <4> QED
                BY <1>6, <2>2, <3>2, <4>1, <4>4
        <3> QED
            BY <3>1, <3>2
    <2>6. ASSUME NEW x \in Peers, InIt(f2, x), new2[x] # 0 PROVE new2[x] \in P.roster[x]
        <3>1. x # p
            BY <1>3, <2>6 DEF InIt
        <3>2. State(x) = "joined" /\ x \in Members(K)
            BY <1>8, <2>6, <3>1 DEF InIt
        <3>3. newest[x] # 0 /\ InLobby(x)
            BY <1>1, <2>6, <3>1, <3>2 DEF InLobby
        <3>4. newest[x] \in K.roster[x]
            BY <1>2, <3>3 DEF AllHave
        <3> QED
            BY <1>1, <1>7, <3>1, <3>2, <3>4
    <2>7. P.owner = c
        OBVIOUS
    <2> HIDE DEF c
    <2>8. Good(f2, w2, u2, new2)
        BY <1>4, <2>1, <2>3, <2>5, <2>6, <2>7, GoodStill
    <2> QED
        BY <2>8, VanishFirm DEF f2, w2, u2, new2
<1> QED
    BY <1>9, <1>10

LEMMA CrashFirm ==
    ASSUME Orderly, NEW p \in Peers, Crash(p)
    PROVE  Firm'
<1>1. Vanishes(p)
    BY DEF Vanishes
<1>2. CASE \A x \in Peers : State(x) # "hosting"
    BY <1>1, <1>2, VanishNobody
<1>3. CASE \E x \in Peers : State(x) = "hosting"
    BY <1>1, <1>3, VanishOther, VanishHost
<1> QED
    BY <1>2, <1>3

-----------------------------------------------------------------------------
(* What disturbs it is not undone.                                            *)

Lasts == ((\E kind \in Kinds : Spend(kind)) \/ UNCHANGED spent) /\ (astray => astray')

LEMMA StaysAstray ==
    ASSUME NEW when, GoesAstray(when) \/ UNCHANGED astray
    PROVE  astray => astray'
    BY DEF GoesAstray

LEMMA GameLasts ==
    ASSUME NEW p \in Peers, Game(p)
    PROVE  Lasts
<1> USE DEF Kinds
<1>1. CASE \E room \in Rooms, migrate \in Migrations : CreateLobby(p, room, migrate)
    BY <1>1, StaysAstray DEF CreateLobby, Lasts
<1>2. CASE \E h \in Peers : FindLobby(p, h)
    BY <1>2, StaysAstray DEF FindLobby, Lasts
<1>3. CASE JoinLobby(p)
    BY <1>3, StaysAstray DEF JoinLobby, AwaitJoin, Lasts
<1>4. CASE JoinLobbyById(p)
    BY <1>4, StaysAstray DEF JoinLobbyById, AwaitJoin, Lasts
<1>5. CASE LeaveLobby(p)
    BY <1>5, StaysAstray DEF LeaveLobby, Lasts
<1>6. CASE \E room \in Rooms : UpdateLobby(p, room)
    BY <1>6, StaysAstray DEF UpdateLobby, Lasts
<1>7. CASE UpdateMember(p)
    BY <1>7, StaysAstray DEF UpdateMember, Lasts
<1>8. CASE \E m \in Peers : PromoteMember(p, m)
    BY <1>8, StaysAstray DEF PromoteMember, Lasts
<1>9. CASE \E m \in Peers : KickMember(p, m)
    BY <1>9, StaysAstray DEF KickMember, Lasts
<1> QED
    BY <1>1, <1>2, <1>3, <1>4, <1>5, <1>6, <1>7, <1>8, <1>9 DEF Game

LEMMA TickLasts ==
    ASSUME NEW p \in Peers, Tick(p)
    PROVE  Lasts
<1> USE DEF Kinds
<1>1. PICK i : JoinAnswered(p, i) \/ JoinTimedOut(p, i)
    BY DEF Tick
<1>2. CASE JoinAnswered(p, i)
    BY <1>2, StaysAstray DEF JoinAnswered, Lasts
<1>3. CASE JoinTimedOut(p, i)
    BY <1>3, StaysAstray DEF JoinTimedOut, Lasts
<1> QED
    BY <1>1, <1>2, <1>3

LEMMA MessageLasts ==
    ASSUME NEW p, NEW q, NEW m, NEW w, OnNetworkMessage(p, q, m, w)
    PROVE  Lasts
<1>1. UNCHANGED spent
    BY DEF OnNetworkMessage
<1>2. \E when : GoesAstray(when) \/ UNCHANGED astray
    BY DEF OnNetworkMessage, OnRequest, OnResponse, OnInfos, OnLeave, OnUpdate, OnDestroy
<1> QED
    BY <1>1, <1>2, StaysAstray DEF Lasts

LEMMA MeshLasts ==
    ASSUME NEW p \in Peers, Mesh(p)
    PROVE  Lasts
<1> USE DEF Kinds
<1>1. CASE \E q \in Peers \ {p} : Deliver(p, q)
    BY <1>1, MessageLasts DEF Deliver
<1>2. CASE DeliverLate(p)
    BY <1>2, MessageLasts DEF DeliverLate
<1>3. ASSUME NEW q, NEW n, OnPeerDisconnected(p, q, n) PROVE astray => astray'
    BY <1>3, StaysAstray DEF OnPeerDisconnected, OnOwnerGone, OnMemberGone
<1>4. CASE \E q \in Peers \ {p} : \E n \in 0 .. Len(wire[<<q, p>>]) : Lose(p, q, n)
    BY <1>3, <1>4 DEF Lose, Lasts
<1>5. CASE \E q \in Peers \ {p} : \E n \in 0 .. Len(wire[<<q, p>>]) : Break(p, q, n)
    BY <1>3, <1>5 DEF Break, Lasts
<1>6. CASE Crash(p)
    BY <1>6, StaysAstray DEF Crash, Lasts
<1> QED
    BY <1>1, <1>2, <1>4, <1>5, <1>6 DEF Mesh

LEMMA DisturbanceLasts ==
    ASSUME HistoryOK, Lasts, Undisturbed'
    PROVE  Undisturbed
<1>1. "breaks" \in Kinds /\ "crashes" \in Kinds /\ "handovers" \in Kinds
    BY DEF Kinds
<1>2. Grown
    BY SpendGrows DEF Lasts, Grown, HistoryOK
<1>3. ~astray
    BY DEF Lasts, Undisturbed
<1> QED
    BY <1>1, <1>2, <1>3 DEF Undisturbed, Grown

-----------------------------------------------------------------------------
(* As long as nothing disturbs it, it stays in order.                          *)

LEMMA StepFirm ==
    ASSUME Orderly, Next
    PROVE  Firm'
<1>1. ASSUME NEW p \in Peers, Game(p) PROVE Firm'
    BY <1>1, GameFirm
<1>2. ASSUME NEW p \in Peers, Tick(p) PROVE Firm'
    BY <1>2, JoinAnsweredFirm, JoinTimedOutFirm DEF Tick
<1>3. ASSUME NEW p \in Peers, Mesh(p) PROVE Firm'
    <2>1. CASE \E q \in Peers \ {p} : Deliver(p, q)
        BY <2>1, DeliverFirm
    <2>2. CASE DeliverLate(p)
        BY <2>2, LateFirm
    <2>3. CASE \E q \in Peers \ {p} : \E n \in 0 .. Len(wire[<<q, p>>]) : Lose(p, q, n)
        BY <2>3, LoseFirm
    <2>4. CASE \E q \in Peers \ {p} : \E n \in 0 .. Len(wire[<<q, p>>]) : Break(p, q, n)
        BY <2>4, BreakFirm
    <2>5. CASE Crash(p)
        BY <2>5, CrashFirm
    <2> QED
        BY <1>3, <2>1, <2>2, <2>3, <2>4, <2>5 DEF Mesh
<1> QED
    BY <1>1, <1>2, <1>3 DEF Next

(* What the three promises of the lobby rest on.                             *)
Steadfast == Undisturbed => Firm

LEMMA SteadfastStep == IInv /\ IInv' /\ Steadfast /\ [Next]_vars => Steadfast'
<1> SUFFICES ASSUME IInv, IInv', Steadfast, [Next]_vars, Undisturbed' PROVE Firm'
    BY DEF Steadfast
<1>1. CASE Next
    <2>1. Lasts
        BY <1>1, GameLasts, TickLasts, MeshLasts DEF Next
    <2>2. Undisturbed
        BY <2>1, DisturbanceLasts DEF IInv
    <2>3. Orderly
        BY <2>2 DEF Orderly, Steadfast
    <2> QED
        BY <1>1, <2>3, StepFirm
<1>2. CASE UNCHANGED vars
    <2>1. UNCHANGED <<entry, details, newest, astray, spent, up, accepting, wire, late>>
        BY <1>2 DEF vars, linkVars
    <2>2. Firm
        BY <2>1 DEF Steadfast, Undisturbed
    <2>3. Unmade <=> Unmade'
        BY <2>1 DEF Unmade
    <2> QED
        BY <2>1, <2>2, <2>3 DEF Firm
<1> QED
    BY <1>1, <1>2

LEMMA StaysSteadfast == Spec => [](IInv /\ Steadfast)
<1>1. Init => IInv /\ Steadfast
    BY InitOK, FirmInit DEF Steadfast
<1>2. IInv /\ Steadfast /\ [Next]_vars => (IInv /\ Steadfast)'
    BY Inductive, SteadfastStep
<1> QED
    BY <1>1, <1>2, PTL DEF Spec

-----------------------------------------------------------------------------
(* There is never more than one host, of however many peers, through any        *)
(* promotions, departures and losses of the host, as long as nothing        *)
(* disturbs it (promote_member, close_hosted_lobby, lobby_infos,            *)
(* peer_disconnected).                                                     *)
THEOREM HostIsOne == Spec => []OneHost
<1>1. IInv /\ Steadfast => OneHost
    <2> SUFFICES ASSUME IInv, Firm PROVE Cardinality(Hosts) <= 1
        BY DEF Steadfast, OneHost
    <2> DEFINE f == Views(entry, wire)
    <2>1. ASSUME NEW p \in Peers, State(p) = "hosting" PROVE Hosting(f, p)
        <3>1. ~Lost(entry, wire, p)
            BY <2>1 DEF Lost, State
        <3> QED
            BY <2>1, <3>1, ViewOf DEF Hosting, State
    <2>2. \A p, q \in Hosts : p = q
        BY <2>1 DEF Firm, Good, Settling, Single, Hosts
    <2>3. CASE Hosts = {}
        BY <2>3, FS_EmptySet
    <2>4. CASE Hosts # {}
        <3>1. PICK p \in Hosts : TRUE
            BY <2>4
        <3>2. Hosts = {p}
            BY <2>2, <3>1
        <3> QED
            BY <3>2, FS_Singleton
    <2> QED
        BY <2>3, <2>4
<1> QED
    BY <1>1, StaysSteadfast, PTL

(* Once nothing is under way, everyone in the lobby holds the very infos of the *)
(* host, and its roster is who is in it, whatever crossed on the way          *)
(* (broadcast_lobby and every handler that changes the roster).              *)
THEOREM AllAgree == Spec => []Agreement
<1>1. IInv /\ Steadfast => Agreement
    <2> SUFFICES ASSUME IInv, Firm, Settled, NEW p \in Peers, InLobby(p)
                 PROVE  \E h \in Hosts : /\ Infos(p) = Infos(h)
                                         /\ Members(Infos(h)) = {m \in Peers : InLobby(m)}
        BY DEF Steadfast, Agreement
    <2>1. PICK h \in Peers : State(h) = "hosting"
        BY AtRest DEF InLobby
    <2>2. AllHave(h, Infos(h)) /\ h \in Hosts
        BY <2>1, AtRest DEF Hosts
    <2>3. Infos(p) = Infos(h)
        BY <2>2 DEF AllHave, InLobby
    <2>4. Members(Infos(h)) \subseteq Peers
        BY EntryParts, InfosParts DEF IInv
    <2>5. \A m \in Peers : m \in Members(Infos(h)) <=> InLobby(m)
        BY <2>2 DEF AllHave, InLobby
    <2> QED
        BY <2>2, <2>3, <2>4, <2>5
<1> QED
    BY <1>1, StaysSteadfast, PTL

(* Once nothing is under way, the last update of every member is on the host's  *)
(* roster: no broadcast that crossed it, admission that repeated itself or    *)
(* change of host undid it (update_lobby, lobby_member_update, lobby_infos).  *)
THEOREM UpdatesKept == Spec => []LatestUpdateKept
<1>1. IInv /\ Steadfast => LatestUpdateKept
    <2> SUFFICES ASSUME IInv, Firm, Settled, NEW p \in Peers, NEW h \in Hosts,
                        InLobby(p), newest[p] # 0
                 PROVE  newest[p] \in Infos(h).roster[p]
        BY DEF Steadfast, LatestUpdateKept
    <2>1. AllHave(h, Infos(h))
        BY AtRest DEF Hosts
    <2> QED
        BY <2>1 DEF AllHave
<1> QED
    BY <1>1, StaysSteadfast, PTL
=============================================================================
