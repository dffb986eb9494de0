-------------------------- MODULE MeshRouterProofs --------------------------
(***************************************************************************)
(* What MeshRouter promises for any number of nodes, ids, interfaces and   *)
(* connections, whatever fails: the table holds who proved to be there and *)
(* nobody else, nothing is forgotten, dialled twice or displaced, and the   *)
(* interfaces know of whom the table holds.                                *)
(***************************************************************************)
EXTENDS MeshRouter, SequenceTheorems, TLAPS

-----------------------------------------------------------------------------
(* The inductive invariant.                                                *)

Conns ==
    [node : [Roles -> Nodes \cup {None}], id : [Roles -> Ids \cup {None}],
     expected : Ids \cup {None}, st : [Roles -> EndStates],
     in : [Roles -> Seq(Frames)]]

Tidy(conn) == \A role \in Roles : conn.st[role] = "closed" => conn.in[role] = <<>>

(* A connection is between two nodes, each end in a state of its role; who     *)
(* dialled and has adopted the other has adopted whom it was after.          *)
Formed(conn) ==
    /\ conn.node["i"] \in Nodes /\ conn.node["r"] \in Nodes
    /\ conn.node["i"] # conn.node["r"]
    /\ conn.id["i"] \in Ids /\ conn.expected \in Ids
    /\ conn.st["i"] \in {"closed", "dialing", "await2", "up"}
    /\ conn.st["r"] \in {"closed", "backlog", "await1", "await3", "up"}
    /\ conn.st["i"] = "dialing" => conn.st["r"] = "closed"
    /\ conn.st["i"] # "dialing" => conn.id["r"] \in Ids
    /\ conn.st["i"] = "up" => conn.id["r"] = conn.expected

Used(conn) == \E role \in Roles : conn.st[role] # "closed"

ConnOK(conn) == conn \in Conns /\ Tidy(conn) /\ (Used(conn) => Formed(conn))

ConnsOK == conns \in [Slots -> Conns] /\ \A c \in Slots : ConnOK(conns[c])

(* Only a running router has connections.                                    *)
OnlyRunning ==
    \A c \in Slots, role \in Roles :
        conns[c].st[role] # "closed" => running[conns[c].node[role]]

(* An announcement tells of another node than it is sent to.                  *)
AdvertsOK == adverts \subseteq {a \in [to : Nodes, node : Nodes, id : Ids] : a.to # a.node}

TablesOK ==
    /\ ident \in [Nodes -> Ids]
    /\ running \in [Nodes -> BOOLEAN]
    /\ AdvertsOK
    /\ peers \in [Nodes -> [Ids -> Slots \cup {None}]]
    /\ view \in [Nodes -> [Listeners -> SUBSET Ids]]
    /\ cut \subseteq Nodes \X Ids

IInv ==
    /\ TablesOK /\ ConnsOK /\ OnlyRunning
    /\ PeersAuthentic /\ NoneForgotten /\ OneAttempt
    /\ NobodyMissed /\ RostersFollowTable

-----------------------------------------------------------------------------
(* One connection.                                                         *)

LEMMA TwoRoles ==
    /\ Roles = {"i", "r"} /\ Other("i") = "r" /\ Other("r") = "i"
    /\ \A role \in Roles : Other(role) \in Roles /\ Other(role) # role /\ Other(Other(role)) = role
    /\ \A role, far \in Roles : far # role => far = Other(role)
    BY DEF Roles, Other

LEMMA FreeConnOK ==
    /\ ConnOK(FreeConn) /\ ~Used(FreeConn)
    /\ \A role \in Roles : FreeConn.st[role] = "closed"
<1>1. <<>> \in Seq(Frames)
    BY EmptySeq
<1>2. /\ FreeConn.in = [role \in Roles |-> <<>>] /\ FreeConn.st = [role \in Roles |-> "closed"]
      /\ FreeConn \in Conns
    BY <1>1 DEF FreeConn, Conns, EndStates
<1> QED
    BY <1>2 DEF ConnOK, Tidy, Used

(* More in the stream to one end.                                            *)
LEMMA Heard ==
    ASSUME NEW conn \in Conns, NEW role \in Roles, NEW frames \in Seq(Frames), Tidy(conn),
           conn.st[role] # "closed"
    PROVE  LET new == [conn EXCEPT !.in[role] = @ \o frames]
           IN  /\ new \in Conns /\ Tidy(new)
               /\ new.node = conn.node /\ new.id = conn.id /\ new.expected = conn.expected
               /\ new.st = conn.st
<1> DEFINE new == [conn EXCEPT !.in[role] = @ \o frames]
           in == [conn.in EXCEPT ![role] = @ \o frames]
<1>1. conn.in[role] \in Seq(Frames)
    BY DEF Conns
<1>2. conn.in[role] \o frames \in Seq(Frames)
    BY <1>1, ConcatProperties
<1>3. in \in [Roles -> Seq(Frames)] /\ \A far \in Roles \ {role} : in[far] = conn.in[far]
    BY <1>2 DEF Conns
<1>4. new = [conn EXCEPT !.in = in]
    BY DEF Conns
<1> HIDE DEF in
<1>5. /\ new \in Conns /\ new.in = in
      /\ new.node = conn.node /\ new.id = conn.id /\ new.expected = conn.expected
      /\ new.st = conn.st
    BY <1>3, <1>4 DEF Conns
<1> HIDE DEF new
<1>6. Tidy(new)
    BY <1>3, <1>5 DEF Tidy
<1> QED
    BY <1>5, <1>6 DEF new

LEMMA PutOK ==
    ASSUME NEW conn \in Conns, NEW role \in Roles, NEW frames \in Seq(Frames), Tidy(conn)
    PROVE  LET new == Put(conn, role, frames)
           IN  /\ new \in Conns /\ Tidy(new)
               /\ new.node = conn.node /\ new.id = conn.id /\ new.expected = conn.expected
               /\ new.st = conn.st
<1>1. Other(role) \in Roles
    BY TwoRoles
<1>2. CASE conn.st[Other(role)] = "closed"
    BY <1>2 DEF Put
<1>3. CASE conn.st[Other(role)] # "closed"
    BY <1>1, <1>3, Heard DEF Put
<1> QED
    BY <1>2, <1>3

LEMMA StepOK ==
    ASSUME NEW conn \in Conns, NEW role \in Roles, NEW state \in EndStates, Tidy(conn),
           state # "closed", conn.in[role] # <<>>
    PROVE  LET new == Step(conn, role, state)
           IN  /\ new \in Conns /\ Tidy(new)
               /\ new.node = conn.node /\ new.id = conn.id /\ new.expected = conn.expected
               /\ new.st = [conn.st EXCEPT ![role] = state]
<1> DEFINE new == Step(conn, role, state)
           in == [conn.in EXCEPT ![role] = Tail(@)]
           st == [conn.st EXCEPT ![role] = state]
<1>1. conn.in[role] \in Seq(Frames)
    BY DEF Conns
<1>2. Tail(conn.in[role]) \in Seq(Frames)
    BY <1>1, HeadTailProperties
<1>3. in \in [Roles -> Seq(Frames)] /\ \A far \in Roles \ {role} : in[far] = conn.in[far]
    BY <1>2 DEF Conns
<1>4. st \in [Roles -> EndStates] /\ st[role] = state
      /\ \A far \in Roles \ {role} : st[far] = conn.st[far]
    BY DEF Conns
<1>5. new = [[conn EXCEPT !.st = st] EXCEPT !.in = in]
    BY DEF Conns, Step
<1> HIDE DEF in, st
<1>6. /\ new \in Conns /\ new.in = in /\ new.st = st
      /\ new.node = conn.node /\ new.id = conn.id /\ new.expected = conn.expected
    BY <1>3, <1>4, <1>5 DEF Conns
<1> HIDE DEF new
<1>7. Tidy(new)
    BY <1>3, <1>4, <1>6 DEF Tidy
<1> QED
    BY <1>6, <1>7 DEF new, st

(* What is left of a connection when one end closes: the other end, or nothing. *)
LEMMA ClosedOK ==
    ASSUME NEW conn \in Conns, NEW role \in Roles, NEW told \in BOOLEAN, Tidy(conn)
    PROVE  LET new == Closed(conn, role, told)
               far == Other(role)
           IN  /\ new \in Conns /\ Tidy(new)
               /\ new.st[role] = "closed" /\ new.st[far] = conn.st[far]
               /\ conn.st[far] = "closed" => new = FreeConn
               /\ conn.st[far] # "closed" =>
                    /\ new.node = conn.node /\ new.id = conn.id /\ new.expected = conn.expected
<1> DEFINE new == Closed(conn, role, told)
           far == Other(role)
<1>1. far \in Roles /\ far # role /\ \A x \in Roles : x = role \/ x = far
    BY TwoRoles
<1>2. CASE conn.st[far] = "closed"
    <2>1. new = FreeConn
        BY <1>2 DEF Closed
    <2> HIDE DEF new
    <2> QED
        BY <1>1, <1>2, <2>1, FreeConnOK DEF ConnOK, new
<1>3. CASE conn.st[far] # "closed"
    <2> DEFINE last == IF told THEN <<"eof">> ELSE <<>>
               in == [conn.in EXCEPT ![role] = <<>>, ![far] = @ \o last]
               st == [conn.st EXCEPT ![role] = "closed"]
    <2>1. last \in Seq(Frames)
        <3>1. <<"eof">> \in Seq(Frames) /\ <<>> \in Seq(Frames)
            BY DEF Frames
        <3> QED
            BY <3>1
    <2>2. conn.in[far] \o last \in Seq(Frames)
        BY <1>1, <2>1, ConcatProperties DEF Conns
    <2> HIDE DEF last
    <2>3. in \in [Roles -> Seq(Frames)] /\ in[role] = <<>>
        BY <1>1, <2>2, EmptySeq DEF Conns
    <2>4. st \in [Roles -> EndStates] /\ st[role] = "closed" /\ st[far] = conn.st[far]
        BY <1>1 DEF Conns, EndStates
    <2>5. new = [[conn EXCEPT !.st = st] EXCEPT !.in = in]
        BY <1>1, <1>3 DEF Conns, Closed, last
    <2> HIDE DEF in, st
    <2>6. /\ new \in Conns /\ new.in = in /\ new.st = st
          /\ new.node = conn.node /\ new.id = conn.id /\ new.expected = conn.expected
        BY <2>3, <2>4, <2>5 DEF Conns
    <2> HIDE DEF new, far
    <2>7. Tidy(new)
        BY <1>1, <1>3, <2>3, <2>4, <2>6 DEF Tidy
    <2> QED
        BY <1>3, <2>4, <2>6, <2>7 DEF new, far
<1> QED
    BY <1>2, <1>3
-----------------------------------------------------------------------------
(* One connection among the others.                                        *)

LEMMA Becoming ==
    ASSUME ConnsOK, NEW c \in Slots, NEW conn, ConnOK(conn), Becomes(c, conn)
    PROVE  /\ ConnsOK'
           /\ conns'[c] = conn
           /\ \A d \in Slots \ {c} : conns'[d] = conns[d]
    BY DEF ConnsOK, ConnOK, Becomes

(* Nobody is adopted or dropped when slot c becomes conn.                     *)
Keeps(c, conn) ==
    \A role \in Roles :
        /\ conn.st[role] = "up" <=> conns[c].st[role] = "up"
        /\ conn.st[role] = "up" => conn.node = conns[c].node /\ conn.id = conns[c].id

(* No node without a router takes part in it.                                *)
Alive(conn) == \A role \in Roles : conn.st[role] # "closed" => running[conn.node[role]]

(* The dialler, if still there, is the same and after the same.               *)
SameAttempt(c, conn) ==
    conn.st["i"] # "closed" =>
        /\ conns[c].st["i"] # "closed"
        /\ conn.node["i"] = conns[c].node["i"] /\ conn.expected = conns[c].expected

LEMMA StillAlive ==
    ASSUME ConnsOK, OnlyRunning, NEW c \in Slots, NEW conn, ConnOK(conn), Alive(conn),
           Becomes(c, conn), UNCHANGED running
    PROVE  OnlyRunning'
    BY Becoming DEF OnlyRunning, Alive

LEMMA SameTable ==
    ASSUME ConnsOK, PeersAuthentic, NoneForgotten, NEW c \in Slots, NEW conn, ConnOK(conn),
           Keeps(c, conn), Becomes(c, conn), UNCHANGED <<peers, running>>,
           peers \in [Nodes -> [Ids -> Slots \cup {None}]]
    PROVE  PeersAuthentic' /\ NoneForgotten'
<1>1. /\ conns'[c] = conn
      /\ \A d \in Slots \ {c} : conns'[d] = conns[d]
    BY Becoming
<1>2. ASSUME NEW d \in Slots, NEW role \in Roles
      PROVE  /\ conns'[d].st[role] = "up" <=> conns[d].st[role] = "up"
             /\ conns'[d].st[role] = "up" =>
                    conns'[d].node = conns[d].node /\ conns'[d].id = conns[d].id
    BY <1>1 DEF Keeps
<1>3. PeersAuthentic'
    <2> SUFFICES ASSUME NEW n \in Nodes, NEW q \in Ids, peers[n][q] # None
                 PROVE  \E role \in Roles :
                          /\ At(n, peers[n][q], role)'
                          /\ conns'[peers[n][q]].st[role] = "up"
                          /\ conns'[peers[n][q]].id[Other(role)] = q
        BY DEF PeersAuthentic
    <2>1. peers[n][q] \in Slots
        OBVIOUS
    <2>2. PICK role \in Roles :
            /\ At(n, peers[n][q], role)
            /\ conns[peers[n][q]].st[role] = "up"
            /\ conns[peers[n][q]].id[Other(role)] = q
        BY DEF PeersAuthentic
    <2> QED
        BY <1>2, <2>1, <2>2 DEF At
<1>4. NoneForgotten'
    BY <1>2, SMTT(30) DEF NoneForgotten
<1> QED
    BY <1>3, <1>4

LEMMA SameAttempts ==
    ASSUME ConnsOK, OneAttempt, NEW c \in Slots, NEW conn, ConnOK(conn),
           SameAttempt(c, conn), Becomes(c, conn)
    PROVE  OneAttempt'
<1>1. /\ conns'[c] = conn
      /\ \A d \in Slots \ {c} : conns'[d] = conns[d]
    BY Becoming
<1>2. ASSUME NEW d \in Slots, NEW n \in Nodes, At(n, d, "i")'
      PROVE  At(n, d, "i") /\ conns'[d].expected = conns[d].expected
    BY <1>1, <1>2 DEF SameAttempt, At
<1> QED
    BY <1>2 DEF OneAttempt

(* A step in which one connection gets on and no table changes.               *)
LEMMA Carried ==
    ASSUME IInv, NEW c \in Slots, NEW conn, ConnOK(conn), Alive(conn), Keeps(c, conn),
           SameAttempt(c, conn), Becomes(c, conn),
           UNCHANGED <<ident, running, adverts, peers, view, cut>>
    PROVE  IInv'
<1>1. ConnsOK' /\ OnlyRunning'
    BY Becoming, StillAlive DEF IInv
<1>2. PeersAuthentic' /\ NoneForgotten'
    BY SameTable DEF IInv, TablesOK
<1>3. OneAttempt'
    BY SameAttempts DEF IInv
<1>4. TablesOK' /\ NobodyMissed' /\ RostersFollowTable'
    BY DEF IInv, TablesOK, AdvertsOK, NobodyMissed, RostersFollowTable
<1> QED
    BY <1>1, <1>2, <1>3, <1>4 DEF IInv

(* What is known of a connection with an end at n.                            *)
LEMMA EndAt ==
    ASSUME IInv, NEW n \in Nodes, NEW c \in Slots, NEW role \in Roles, At(n, c, role)
    PROVE  /\ conns[c] \in Conns /\ Tidy(conns[c]) /\ Formed(conns[c])
           /\ conns[c].node[role] = n /\ running[n]
           /\ RoleAt(n, c) = role
           /\ Alive(conns[c])
<1>1. /\ conns[c] \in Conns /\ Tidy(conns[c]) /\ Formed(conns[c])
      /\ conns[c].node[role] = n /\ running[n] /\ Alive(conns[c])
    BY DEF IInv, ConnsOK, ConnOK, Used, At, OnlyRunning, Alive
<1>2. \A x \in Roles : conns[c].node[x] = n => x = role
    BY <1>1, TwoRoles DEF Formed
<1>3. RoleAt(n, c) = role
    BY <1>1, <1>2 DEF RoleAt
<1> QED
    BY <1>1, <1>3
-----------------------------------------------------------------------------
(* Discovery.                                                              *)

(* A step in which no connection changes, nor what is known of the peers.     *)
LEMMA OnlyTables ==
    ASSUME IInv, TablesOK', UNCHANGED <<conns, running, peers, view, cut>>
    PROVE  IInv'
    BY SMTT(30) DEF IInv, ConnsOK, OnlyRunning, PeersAuthentic, NoneForgotten, OneAttempt,
                    NobodyMissed, RostersFollowTable, At

LEMMA AdvertiseOK ==
    ASSUME IInv, NEW n \in Nodes, Advertise(n)
    PROVE  IInv'
<1>1. ident[n] \in Ids
    BY DEF IInv, TablesOK
<1>2. AdvertsOK'
    BY <1>1 DEF IInv, TablesOK, AdvertsOK, Advertise
<1>3. TablesOK'
    BY <1>2 DEF IInv, TablesOK, Advertise
<1> QED
    BY <1>3, OnlyTables DEF Advertise

LEMMA HandleAdvertiseOK ==
    ASSUME IInv, NEW n \in Nodes, NEW advert \in adverts, NEW c \in Slots,
           HandleAdvertise(n, advert, c)
    PROVE  IInv'
<1> DEFINE node == [i |-> n, r |-> advert.node]
           id == [i |-> ident[n], r |-> None]
           conn == [FreeConn EXCEPT !.node = node, !.id = id, !.expected = advert.id,
                                    !.st["i"] = "dialing"]
<1>1. /\ advert.to = n /\ advert.node \in Nodes /\ advert.node # n /\ advert.id \in Ids
      /\ ident[n] \in Ids
    BY DEF IInv, TablesOK, AdvertsOK, HandleAdvertise
<1>2. node \in [Roles -> Nodes] /\ node["i"] = n /\ node["r"] = advert.node
    BY <1>1, TwoRoles
<1>3. id \in [Roles -> Ids \cup {None}] /\ id["i"] = ident[n]
    BY <1>1, TwoRoles
<1>4. Becomes(c, conn) /\ Free(c)
    BY DEF HandleAdvertise
<1> HIDE DEF node, id
<1>5. /\ conn.node = node /\ conn.id = id /\ conn.expected = advert.id
      /\ conn.st["i"] = "dialing" /\ conn.st["r"] = "closed" /\ conn.in["r"] = <<>>
      /\ conn \in Conns
    BY <1>1, <1>2, <1>3, TwoRoles, EmptySeq DEF FreeConn, Conns, EndStates
<1> HIDE DEF conn
<1>6. ConnOK(conn) /\ Alive(conn) /\ Keeps(c, conn)
    <2>1. Tidy(conn) /\ Formed(conn)
        BY <1>1, <1>2, <1>3, <1>5, TwoRoles DEF Tidy, Formed
    <2>2. Alive(conn)
        BY <1>2, <1>5, TwoRoles DEF Alive, HandleAdvertise
    <2>3. Keeps(c, conn)
        BY <1>4, <1>5, TwoRoles, FreeConnOK DEF Keeps, Free
    <2> QED
        BY <1>5, <2>1, <2>2, <2>3 DEF ConnOK
<1>7. UNCHANGED <<ident, running, peers, view, cut>> /\ adverts' \subseteq adverts
    BY DEF HandleAdvertise
<1>8. ConnsOK' /\ OnlyRunning' /\ PeersAuthentic' /\ NoneForgotten'
    BY <1>4, <1>6, <1>7, Becoming, StillAlive, SameTable DEF IInv, TablesOK
<1>9. TablesOK' /\ NobodyMissed' /\ RostersFollowTable'
    BY <1>7 DEF IInv, TablesOK, AdvertsOK, NobodyMissed, RostersFollowTable
<1>10. OneAttempt'
    <2>1. ASSUME NEW d \in Slots, At(n, d, "i"), conns[d].expected = advert.id
          PROVE  FALSE
        <3>1. "i" \in Roles
            BY TwoRoles
        <3>2. conns[d].st["i"] = "up"
            BY <2>1 DEF HandleAdvertise, IsConnectingTo
        <3>3. Formed(conns[d])
            BY <2>1, <3>1, EndAt
        <3>4. conns[d].id["r"] = advert.id /\ conns[d].node["i"] = n
            BY <2>1, <3>2, <3>3 DEF Formed, At
        <3>5. peers[n][advert.id] = d
            BY <3>1, <3>2, <3>4, TwoRoles DEF IInv, NoneForgotten
        <3>6. d # None
            BY MeshAssumption
        <3> QED
            BY <3>5, <3>6 DEF HandleAdvertise
    <2>2. /\ conns'[c] = conn
          /\ \A d \in Slots \ {c} : conns'[d] = conns[d]
        BY <1>4, <1>6, Becoming DEF IInv
    <2>3. ASSUME NEW m \in Nodes, NEW d \in Slots \ {c}, At(m, d, "i")', At(m, c, "i")'
          PROVE  conns'[d].expected # conns'[c].expected
        <3>1. m = n
            BY <1>2, <1>5, <2>2, <2>3 DEF At
        <3> QED
            BY <1>5, <2>1, <2>2, <2>3, <3>1 DEF At
    <2> QED
        BY <2>2, <2>3 DEF IInv, OneAttempt, At
<1> QED
    BY <1>8, <1>9, <1>10 DEF IInv

LEMMA FinishDialingOK ==
    ASSUME IInv, NEW n \in Nodes, NEW c \in Slots, FinishDialing(n, c)
    PROVE  IInv'
<1> DEFINE there == conns[c].node["r"]
           conn == [conns[c] EXCEPT !.id["r"] = ident[there],
                                    !.st = [i |-> "await2", r |-> "backlog"],
                                    !.in["r"] = <<"m1">>]
           st == [i |-> "await2", r |-> "backlog"]
           id == [conns[c].id EXCEPT !["r"] = ident[there]]
           in == [conns[c].in EXCEPT !["r"] = <<"m1">>]
<1>1. /\ conns[c] \in Conns /\ Formed(conns[c]) /\ Alive(conns[c])
      /\ conns[c].st["i"] = "dialing" /\ conns[c].st["r"] = "closed"
      /\ running[n] /\ conns[c].node["i"] = n
    BY TwoRoles, EndAt DEF FinishDialing, Formed
<1>2. Becomes(c, conn) /\ there \in Nodes /\ ident[there] \in Ids /\ running[there]
    BY <1>1 DEF FinishDialing, Formed, IInv, TablesOK
<1>3. <<"m1">> \in Seq(Frames)
    BY DEF Frames
<1>4. /\ id \in [Roles -> Ids \cup {None}] /\ id["r"] \in Ids /\ id["i"] = conns[c].id["i"]
      /\ in \in [Roles -> Seq(Frames)]
      /\ st \in [Roles -> EndStates] /\ st["i"] = "await2" /\ st["r"] = "backlog"
    BY <1>1, <1>2, <1>3, TwoRoles DEF Conns, EndStates
<1>5. conn = [conns[c] EXCEPT !.id = id, !.st = st, !.in = in]
    BY <1>1 DEF Conns
<1> HIDE DEF id, in, st, conn, there
<1>6. /\ conn \in Conns /\ conn.id = id /\ conn.st = st
      /\ conn.node = conns[c].node /\ conn.expected = conns[c].expected
    BY <1>1, <1>4, <1>5 DEF Conns
<1>7. ConnOK(conn)
    BY <1>1, <1>4, <1>6, TwoRoles DEF ConnOK, Tidy, Formed
<1>8. Alive(conn)
    BY <1>1, <1>2, <1>4, <1>6, TwoRoles DEF Alive, there
<1>9. Keeps(c, conn) /\ SameAttempt(c, conn)
    BY <1>1, <1>4, <1>6, TwoRoles DEF Keeps, SameAttempt
<1> QED
    BY <1>2, <1>7, <1>8, <1>9, Carried DEF FinishDialing

LEMMA DialFailedOK ==
    ASSUME IInv, NEW n \in Nodes, NEW c \in Slots, DialFailed(n, c)
    PROVE  IInv'
<1>1. /\ Formed(conns[c])
      /\ conns[c].st["i"] = "dialing" /\ conns[c].st["r"] = "closed"
    BY TwoRoles, EndAt DEF DialFailed, Formed
<1>2. /\ ConnOK(FreeConn) /\ Alive(FreeConn) /\ Keeps(c, FreeConn) /\ SameAttempt(c, FreeConn)
    BY <1>1, FreeConnOK, TwoRoles DEF Alive, Keeps, SameAttempt
<1> QED
    BY <1>2, Carried DEF DialFailed

LEMMA AcceptPeersOK ==
    ASSUME IInv, NEW n \in Nodes, NEW c \in Slots, AcceptPeers(n, c)
    PROVE  IInv'
<1> DEFINE st == [conns[c].st EXCEPT !["r"] = "await1"]
           conn == [conns[c] EXCEPT !.st["r"] = "await1"]
<1>1. /\ conns[c] \in Conns /\ Tidy(conns[c]) /\ Formed(conns[c]) /\ Alive(conns[c])
      /\ conns[c].st["r"] = "backlog" /\ Becomes(c, conn)
    BY TwoRoles, EndAt DEF AcceptPeers
<1>2. st \in [Roles -> EndStates] /\ st["r"] = "await1" /\ st["i"] = conns[c].st["i"]
    BY <1>1, TwoRoles DEF Conns, EndStates
<1>3. conn = [conns[c] EXCEPT !.st = st]
    BY <1>1 DEF Conns
<1> HIDE DEF st, conn
<1>4. /\ conn \in Conns /\ conn.st = st /\ conn.id = conns[c].id /\ conn.in = conns[c].in
      /\ conn.node = conns[c].node /\ conn.expected = conns[c].expected
    BY <1>1, <1>2, <1>3 DEF Conns
<1>5. ConnOK(conn)
    BY <1>1, <1>2, <1>4, TwoRoles DEF ConnOK, Tidy, Formed
<1>6. Alive(conn) /\ Keeps(c, conn) /\ SameAttempt(c, conn)
    BY <1>1, <1>2, <1>4, TwoRoles DEF Alive, Keeps, SameAttempt
<1> QED
    BY <1>1, <1>5, <1>6, Carried DEF AcceptPeers
-----------------------------------------------------------------------------
(* The handshake.                                                          *)

LEMMA AnswerOpeningOK ==
    ASSUME IInv, NEW n \in Nodes, NEW c \in Slots, AnswerOpening(n, c)
    PROVE  IInv'
<1> DEFINE read == Step(conns[c], "r", "await3")
           conn == Put(read, "r", <<"m2">>)
<1>1. /\ conns[c] \in Conns /\ Tidy(conns[c]) /\ Formed(conns[c]) /\ Alive(conns[c])
      /\ conns[c].st["r"] = "await1" /\ conns[c].in["r"] # <<>> /\ Becomes(c, conn)
    BY TwoRoles, EndAt DEF AnswerOpening, NextFrame
<1>2. /\ read \in Conns /\ Tidy(read)
      /\ read.node = conns[c].node /\ read.id = conns[c].id
      /\ read.expected = conns[c].expected
      /\ read.st = [conns[c].st EXCEPT !["r"] = "await3"]
    <2>1. "r" \in Roles /\ "await3" \in EndStates
        BY TwoRoles DEF EndStates
    <2> QED
        BY <1>1, <2>1, StepOK
<1> HIDE DEF read
<1>3. /\ conn \in Conns /\ Tidy(conn)
      /\ conn.node = conns[c].node /\ conn.id = conns[c].id
      /\ conn.expected = conns[c].expected
      /\ conn.st = [conns[c].st EXCEPT !["r"] = "await3"]
    <2>1. "r" \in Roles /\ <<"m2">> \in Seq(Frames)
        BY TwoRoles DEF Frames
    <2>2. /\ conn \in Conns /\ Tidy(conn)
          /\ conn.node = read.node /\ conn.id = read.id /\ conn.expected = read.expected
          /\ conn.st = read.st
        BY <1>2, <2>1, PutOK
    <2> QED
        BY <1>2, <2>2, Zenon
<1> HIDE DEF conn
<1>4. conn.st["r"] = "await3" /\ conn.st["i"] = conns[c].st["i"]
    BY <1>1, <1>3, TwoRoles DEF Conns
<1>5. ConnOK(conn) /\ Alive(conn) /\ Keeps(c, conn) /\ SameAttempt(c, conn)
    BY <1>1, <1>3, <1>4, TwoRoles DEF ConnOK, Formed, Alive, Keeps, SameAttempt
<1> QED
    BY <1>1, <1>5, Carried DEF AnswerOpening

(* What the other end has proved, and what we send when we have read it.       *)
LEMMA ProvedOK ==
    ASSUME IInv, NEW n \in Nodes, NEW c \in Slots, NEW role \in Roles, Proved(n, c, role)
    PROVE  /\ conns[c].st[role] \in Shaking
           /\ ProvedId(c, role) \in Ids
           /\ LET read == Answered(c, role)
              IN  /\ read \in Conns /\ Tidy(read)
                  /\ read.node = conns[c].node /\ read.id = conns[c].id
                  /\ read.expected = conns[c].expected
                  /\ read.st = [conns[c].st EXCEPT ![role] = "up"]
<1> DEFINE step == Step(conns[c], role, "up")
           read == Answered(c, role)
<1>1. /\ conns[c] \in Conns /\ Tidy(conns[c]) /\ Formed(conns[c])
      /\ conns[c].st[role] \in {"await2", "await3"} /\ conns[c].in[role] # <<>>
    BY EndAt DEF Proved, NextFrame
<1>2. ProvedId(c, role) \in Ids
    BY <1>1, TwoRoles DEF Formed, ProvedId
<1>3. /\ step \in Conns /\ Tidy(step)
      /\ step.node = conns[c].node /\ step.id = conns[c].id
      /\ step.expected = conns[c].expected
      /\ step.st = [conns[c].st EXCEPT ![role] = "up"]
    <2>1. "up" \in EndStates
        BY DEF EndStates
    <2> QED
        BY <1>1, <2>1, StepOK
<1>4. read = IF role = "i" THEN Put(step, "i", <<"m3">>) ELSE step
    BY DEF Answered
<1> HIDE DEF step, read
<1>5. /\ read \in Conns /\ Tidy(read)
      /\ read.node = conns[c].node /\ read.id = conns[c].id
      /\ read.expected = conns[c].expected
      /\ read.st = [conns[c].st EXCEPT ![role] = "up"]
    <2>1. "i" \in Roles /\ <<"m3">> \in Seq(Frames)
        BY TwoRoles DEF Frames
    <2>2. CASE role = "i"
        <3> DEFINE said == Put(step, "i", <<"m3">>)
        <3>1. /\ said \in Conns /\ Tidy(said)
              /\ said.node = step.node /\ said.id = step.id /\ said.expected = step.expected
              /\ said.st = step.st
            BY <1>3, <2>1, PutOK
        <3> HIDE DEF said
        <3>2. read = said
            BY <1>4, <2>2 DEF said
        <3> QED
            BY <1>3, <3>1, <3>2
    <2>3. CASE role # "i"
        BY <1>3, <1>4, <2>3
    <2> QED
        BY <2>2, <2>3
<1> QED
    BY <1>1, <1>2, <1>5 DEF read, Shaking

(* An end closes, whatever was still read and sent before.                    *)
LEMMA Closing ==
    ASSUME IInv, NEW c \in Slots, NEW role \in Roles, conns[c].st[role] # "closed",
           NEW told \in BOOLEAN, NEW last \in Conns, Tidy(last),
           last.node = conns[c].node, last.id = conns[c].id,
           last.expected = conns[c].expected,
           last.st[Other(role)] = conns[c].st[Other(role)]
    PROVE  LET conn == Closed(last, role, told)
               far == Other(role)
           IN  /\ ConnOK(conn) /\ Alive(conn) /\ SameAttempt(c, conn)
               /\ conn.st[role] = "closed" /\ conn.st[far] = conns[c].st[far]
               /\ conn.st[far] # "closed" => conn.node = conns[c].node /\ conn.id = conns[c].id
<1> DEFINE conn == Closed(last, role, told)
           far == Other(role)
<1>1. Formed(conns[c]) /\ Alive(conns[c])
    BY DEF IInv, ConnsOK, ConnOK, Used, OnlyRunning, Alive
<1>2. far \in Roles /\ far # role /\ \A x \in Roles : x = role \/ x = far
    BY TwoRoles
<1>3. /\ conn \in Conns /\ Tidy(conn)
      /\ conn.st[role] = "closed" /\ conn.st[far] = conns[c].st[far]
      /\ conns[c].st[far] # "closed" =>
           /\ conn.node = conns[c].node /\ conn.id = conns[c].id
           /\ conn.expected = conns[c].expected
    BY ClosedOK
<1> HIDE DEF conn, far
<1>4. CASE conns[c].st[far] = "closed"
    <2>1. ~Used(conn)
        BY <1>2, <1>3, <1>4 DEF Used
    <2> QED
        BY <1>2, <1>3, <1>4, <2>1, TwoRoles DEF ConnOK, Alive, SameAttempt, Used, conn, far
<1>5. CASE conns[c].st[far] # "closed"
    <2>1. (role = "i" /\ far = "r") \/ (role = "r" /\ far = "i")
        BY DEF Roles, Other, far
    <2>2. Formed(conn)
        BY <1>1, <1>3, <1>5, <2>1 DEF Formed
    <2>3. Alive(conn) /\ SameAttempt(c, conn)
        BY <1>1, <1>2, <1>3, <1>5, <2>1 DEF Alive, SameAttempt
    <2> QED
        BY <1>3, <1>5, <2>2, <2>3 DEF ConnOK, conn, far
<1> QED
    BY <1>4, <1>5

(* Nobody is lost when an end closes that was not adopted.                     *)
LEMMA ClosingUnadopted ==
    ASSUME IInv, NEW c \in Slots, NEW role \in Roles, conns[c].st[role] \in Shaking,
           NEW last \in Conns, Tidy(last),
           last.node = conns[c].node, last.id = conns[c].id,
           last.expected = conns[c].expected,
           last.st[Other(role)] = conns[c].st[Other(role)],
           Becomes(c, Closed(last, role, TRUE)),
           UNCHANGED <<ident, running, adverts, peers>>
    PROVE  /\ UNCHANGED <<view, cut>> => IInv'
           /\ ConnsOK' /\ OnlyRunning' /\ PeersAuthentic' /\ NoneForgotten' /\ OneAttempt'
<1> DEFINE conn == Closed(last, role, TRUE)
<1>1. conns[c].st[role] \notin {"closed", "up"}
    BY DEF Shaking
<1>2. /\ ConnOK(conn) /\ Alive(conn) /\ SameAttempt(c, conn)
      /\ conn.st[role] = "closed" /\ conn.st[Other(role)] = conns[c].st[Other(role)]
      /\ conn.st[Other(role)] # "closed" => conn.node = conns[c].node /\ conn.id = conns[c].id
    BY <1>1, Closing
<1> HIDE DEF conn
<1>3. Keeps(c, conn)
    BY <1>1, <1>2, TwoRoles DEF Keeps
<1>4. Becomes(c, conn)
    BY DEF conn
<1>5. ConnsOK' /\ OnlyRunning' /\ PeersAuthentic' /\ NoneForgotten' /\ OneAttempt'
    BY <1>2, <1>3, <1>4, Becoming, StillAlive, SameTable, SameAttempts DEF IInv, TablesOK
<1> QED
    BY <1>2, <1>3, <1>4, <1>5, Carried

LEMMA RefuseOK ==
    ASSUME IInv, NEW n \in Nodes, NEW c \in Slots, NEW role \in Roles, Refuse(n, c, role)
    PROVE  IInv'
<1> DEFINE read == Answered(c, role)
<1>1. /\ conns[c].st[role] \in Shaking
      /\ read \in Conns /\ Tidy(read)
      /\ read.node = conns[c].node /\ read.id = conns[c].id
      /\ read.expected = conns[c].expected
      /\ read.st = [conns[c].st EXCEPT ![role] = "up"]
    BY ProvedOK DEF Refuse
<1>2. read.st[Other(role)] = conns[c].st[Other(role)]
    <2>1. conns[c].st \in [Roles -> EndStates]
        BY DEF IInv, ConnsOK, ConnOK, Conns
    <2> QED
        BY <1>1, <2>1, TwoRoles
<1>3. Becomes(c, Closed(read, role, TRUE))
    BY DEF Refuse
<1> HIDE DEF read
<1> QED
    BY <1>1, <1>2, <1>3, ClosingUnadopted DEF Refuse

LEMMA AdoptPeerOK ==
    ASSUME IInv, NEW n \in Nodes, NEW c \in Slots, NEW role \in Roles, AdoptPeer(n, c, role)
    PROVE  IInv'
<1> DEFINE q == ProvedId(c, role)
           read == Answered(c, role)
           conn == Put(read, role, <<"sealed">>)
           far == Other(role)
<1>1. /\ conns[c] \in Conns /\ Tidy(conns[c]) /\ Formed(conns[c]) /\ Alive(conns[c])
      /\ conns[c].node[role] = n /\ running[n]
      /\ conns[c].st[role] \in Shaking /\ q \in Ids /\ peers[n][q] = None
      /\ q = conns[c].id[far]
      /\ role = "i" => conns[c].expected = q
    <2>1. /\ Proved(n, c, role) /\ At(n, c, role) /\ peers[n][q] = None
          /\ role = "i" => conns[c].expected = q
        BY DEF AdoptPeer, Adoptable, Proved, Refusable, NotWhoWasAdvertised
    <2>2. conns[c].st[role] \in Shaking /\ q \in Ids
        BY <2>1, ProvedOK
    <2>3. /\ conns[c] \in Conns /\ Tidy(conns[c]) /\ Formed(conns[c]) /\ Alive(conns[c])
          /\ conns[c].node[role] = n /\ running[n]
        BY <2>1, EndAt
    <2>4. q = conns[c].id[far]
        BY DEF ProvedId
    <2> QED
        BY <2>1, <2>2, <2>3, <2>4
<1>2. /\ far \in Roles /\ far # role
      /\ (role = "i" /\ far = "r") \/ (role = "r" /\ far = "i")
    BY DEF Roles, Other
<1>3. /\ read \in Conns /\ Tidy(read)
      /\ read.node = conns[c].node /\ read.id = conns[c].id
      /\ read.expected = conns[c].expected
      /\ read.st = [conns[c].st EXCEPT ![role] = "up"]
    BY ProvedOK DEF AdoptPeer, Adoptable
<1> HIDE DEF read
<1>4. /\ conn \in Conns /\ Tidy(conn)
      /\ conn.node = conns[c].node /\ conn.id = conns[c].id
      /\ conn.expected = conns[c].expected
      /\ conn.st = [conns[c].st EXCEPT ![role] = "up"]
    <2>1. <<"sealed">> \in Seq(Frames)
        BY DEF Frames
    <2> QED
        BY <1>3, <2>1, PutOK, ZenonT(40)
<1>5. /\ Becomes(c, conn)
      /\ peers' = [peers EXCEPT ![n][q] = c]
      /\ view' = [view EXCEPT ![n] = [l \in Listeners |-> @[l] \cup {q}]]
      /\ UNCHANGED <<ident, running, adverts, cut>>
    BY DEF AdoptPeer, read
<1> HIDE DEF conn, q, far
<1>6. conn.st[role] = "up" /\ conn.st[far] = conns[c].st[far]
    BY <1>1, <1>2, <1>4 DEF Conns
<1>7. ConnOK(conn) /\ Alive(conn) /\ SameAttempt(c, conn)
    <2>1. Formed(conn)
        BY <1>1, <1>2, <1>4, <1>6 DEF Formed, Shaking
    <2>2. Alive(conn)
        BY <1>1, <1>2, <1>4, <1>6, TwoRoles DEF Alive
    <2>3. SameAttempt(c, conn)
        BY <1>1, <1>2, <1>4, <1>6 DEF SameAttempt, Shaking
    <2> QED
        BY <1>4, <2>1, <2>2, <2>3 DEF ConnOK
<1>8. /\ ConnsOK' /\ OnlyRunning' /\ OneAttempt'
      /\ conns'[c] = conn /\ \A d \in Slots \ {c} : conns'[d] = conns[d]
    BY <1>5, <1>7, Becoming, StillAlive, SameAttempts DEF IInv
<1>9. c # None
    BY MeshAssumption
<1>10. /\ peers' \in [Nodes -> [Ids -> Slots \cup {None}]]
       /\ peers'[n][q] = c
       /\ \A m \in Nodes, r \in Ids : m # n \/ r # q => peers'[m][r] = peers[m][r]
    BY <1>1, <1>5 DEF IInv, TablesOK
<1>11. PeersAuthentic'
    <2> SUFFICES ASSUME NEW m \in Nodes, NEW r \in Ids, peers'[m][r] # None
                 PROVE  \E x \in Roles :
                          /\ At(m, peers[m][r], x)'
                          /\ conns'[peers'[m][r]].st[x] = "up"
                          /\ conns'[peers'[m][r]].id[Other(x)] = r
        BY DEF PeersAuthentic, At
    <2>1. CASE m = n /\ r = q
        <3>1. conns'[peers'[m][r]] = conn
            BY <1>8, <1>10, <2>1
        <3>2. conn.node[role] = m /\ conn.st[role] = "up" /\ conn.id[Other(role)] = r
            BY <1>1, <1>4, <1>6, <2>1 DEF far
        <3> QED
            BY <3>1, <3>2 DEF At
    <2>2. CASE ~(m = n /\ r = q)
        <3>1. peers'[m][r] = peers[m][r] /\ peers[m][r] \in Slots
            BY <1>10, <2>2 DEF IInv, TablesOK
        <3>2. PICK x \in Roles :
                /\ At(m, peers[m][r], x)
                /\ conns[peers[m][r]].st[x] = "up"
                /\ conns[peers[m][r]].id[Other(x)] = r
            BY <3>1 DEF IInv, PeersAuthentic
        <3>3. peers[m][r] = c => x = far
            BY <1>1, <1>2, <3>2, TwoRoles DEF Shaking
        <3> DEFINE d == peers[m][r]
        <3>4. conns'[d].node = conns[d].node /\ conns'[d].id = conns[d].id
            BY <1>4, <1>8, <3>1
        <3>5. conns'[d].st[x] = "up"
            BY <1>6, <1>8, <3>1, <3>2, <3>3
        <3> QED
            BY <3>1, <3>2, <3>4, <3>5 DEF At
    <2> QED
        BY <2>1, <2>2
<1>12. NoneForgotten'
    <2> SUFFICES ASSUME NEW d \in Slots, NEW x \in Roles, conns'[d].st[x] = "up"
                 PROVE  LET m == conns'[d].node[x]
                        IN  running'[m] /\ peers'[m][conns'[d].id[Other(x)]] = d
        BY DEF NoneForgotten
    <2>1. CASE d = c /\ x = role
        BY <1>1, <1>4, <1>5, <1>8, <1>10, <2>1 DEF far
    <2>2. CASE ~(d = c /\ x = role)
        <3>1. /\ conns[d].st[x] = "up"
              /\ conns'[d].node = conns[d].node /\ conns'[d].id = conns[d].id
            <4>1. CASE d = c
                <5>1. x = far
                    BY <1>2, <2>2, <4>1, TwoRoles
                <5>2. conns'[d] = conn
                    BY <1>8, <4>1
                <5> QED
                    BY <1>4, <1>6, <4>1, <5>1, <5>2
            <4>2. CASE d # c
                BY <1>8, <4>2
            <4> QED
                BY <4>1, <4>2
        <3> DEFINE m == conns[d].node[x]
                   r == conns[d].id[Other(x)]
        <3>2. running[m] /\ peers[m][r] = d
            BY <3>1 DEF IInv, NoneForgotten
        <3>3. Formed(conns[d])
            BY <3>1 DEF IInv, ConnsOK, ConnOK, Used
        <3>4. m \in Nodes /\ r \in Ids
            BY <3>1, <3>3, TwoRoles DEF Formed
        <3>5. peers[n][q] # d
            BY <1>1, MeshAssumption
        <3>6. peers'[m][r] = d
            BY <1>10, <3>2, <3>4, <3>5
        <3> QED
            BY <1>5, <3>1, <3>2, <3>6
    <2> QED
        BY <2>1, <2>2
<1>13. TablesOK' /\ NobodyMissed' /\ RostersFollowTable'
    <2>1. /\ view' \in [Nodes -> [Listeners -> SUBSET Ids]]
          /\ \A l \in Listeners : view'[n][l] = view[n][l] \cup {q}
          /\ \A m \in Nodes \ {n} : view'[m] = view[m]
        BY <1>1, <1>5 DEF IInv, TablesOK
    <2>2. TablesOK'
        BY <1>5, <1>10, <2>1 DEF IInv, TablesOK, AdvertsOK
    <2>3. NobodyMissed'
        <3> SUFFICES ASSUME NEW m \in Nodes, NEW l \in Listeners, NEW r \in Ids, peers'[m][r] # None
                     PROVE  r \in view'[m][l]
            BY DEF NobodyMissed
        <3>1. CASE m = n /\ r = q
            BY <2>1, <3>1
        <3>2. CASE ~ (m = n /\ r = q)
            <4>1. peers[m][r] # None
                BY <1>10, <3>2
            <4>2. r \in view[m][l]
                BY <4>1 DEF IInv, NobodyMissed
            <4>3. view[m][l] \subseteq view'[m][l]
                BY <2>1
            <4> QED
                BY <4>2, <4>3
        <3> QED
            BY <3>1, <3>2
    <2>4. RostersFollowTable'
        BY <1>5, <1>9, <1>10, <2>1 DEF IInv, RostersFollowTable
    <2> QED
        BY <2>2, <2>3, <2>4
<1> QED
    BY <1>8, <1>11, <1>12, <1>13 DEF IInv

(* A peer whose adoption is cut short was never in the table.                  *)
LEMMA AdoptPeerSendFailsOK ==
    ASSUME IInv, NEW n \in Nodes, NEW c \in Slots, NEW role \in Roles,
           NEW k \in {0} \cup Listeners, AdoptPeerSendFails(n, c, role, k)
    PROVE  IInv'
<1> DEFINE q == ProvedId(c, role)
           read == Answered(c, role)
<1>1. /\ conns[c].st[role] \in Shaking /\ q \in Ids
      /\ read \in Conns /\ Tidy(read)
      /\ read.node = conns[c].node /\ read.id = conns[c].id
      /\ read.expected = conns[c].expected
      /\ read.st = [conns[c].st EXCEPT ![role] = "up"]
    BY ProvedOK DEF AdoptPeerSendFails, Adoptable
<1>2. read.st[Other(role)] = conns[c].st[Other(role)]
    <2>1. conns[c].st \in [Roles -> EndStates]
        BY DEF IInv, ConnsOK, ConnOK, Conns
    <2> QED
        BY <1>1, <2>1, TwoRoles
<1>3. /\ Becomes(c, Closed(read, role, TRUE))
      /\ peers[n][q] = None
      /\ cut' = cut \cup {<<n, q>>}
      /\ view' = [view EXCEPT ![n] =
                    [l \in Listeners |-> IF l <= k THEN @[l] \ {q} ELSE @[l] \cup {q}]]
      /\ UNCHANGED <<ident, running, adverts, peers>>
    BY DEF AdoptPeerSendFails, Adoptable, Refusable
<1> HIDE DEF read, q
<1>4. ConnsOK' /\ OnlyRunning' /\ PeersAuthentic' /\ NoneForgotten' /\ OneAttempt'
    BY <1>1, <1>2, <1>3, ClosingUnadopted
<1>5. /\ view' \in [Nodes -> [Listeners -> SUBSET Ids]]
      /\ \A l \in Listeners : /\ view[n][l] \ {q} \subseteq view'[n][l]
                              /\ view'[n][l] \subseteq view[n][l] \cup {q}
      /\ \A m \in Nodes \ {n} : view'[m] = view[m]
    <2> DEFINE now == [l \in Listeners |-> IF l <= k THEN view[n][l] \ {q}
                                                     ELSE view[n][l] \cup {q}]
    <2>1. view[n] \in [Listeners -> SUBSET Ids]
        BY DEF IInv, TablesOK
    <2>2. /\ now \in [Listeners -> SUBSET Ids]
          /\ \A l \in Listeners : /\ view[n][l] \ {q} \subseteq now[l]
                                  /\ now[l] \subseteq view[n][l] \cup {q}
        BY <1>1, <2>1, Zenon
    <2>3. view' = [view EXCEPT ![n] = now]
        BY <1>3
    <2> HIDE DEF now
    <2> QED
        BY <2>2, <2>3 DEF IInv, TablesOK
<1>6. TablesOK'
    BY <1>1, <1>3, <1>5 DEF IInv, TablesOK, AdvertsOK
<1>7. NobodyMissed'
    BY <1>3, <1>5 DEF IInv, NobodyMissed
<1>8. RostersFollowTable'
    BY <1>3, <1>5 DEF IInv, RostersFollowTable
<1> QED
    BY <1>4, <1>6, <1>7, <1>8 DEF IInv

LEMMA HandshakeGivenUpOK ==
    ASSUME IInv, NEW n \in Nodes, NEW c \in Slots, NEW role \in Roles,
           HandshakeEnds(n, c, role) \/ ExpireHandshaking(n, c, role)
    PROVE  IInv'
<1>1. /\ At(n, c, role) /\ conns[c].st[role] \in Shaking
      /\ Becomes(c, Closed(conns[c], role, TRUE))
      /\ UNCHANGED <<ident, running, adverts, peers, view, cut>>
    BY DEF HandshakeEnds, ExpireHandshaking
<1>2. conns[c] \in Conns /\ Tidy(conns[c])
    BY <1>1, EndAt
<1> QED
    BY <1>1, <1>2, ClosingUnadopted
-----------------------------------------------------------------------------
(* Established peers.                                                      *)

LEMMA PeerAt ==
    ASSUME IInv, NEW n \in Nodes, NEW q \in Ids, peers[n][q] # None
    PROVE  LET c == peers[n][q]
               role == RoleAt(n, c)
           IN  /\ c \in Slots /\ role \in Roles
               /\ At(n, c, role)
               /\ conns[c].st[role] = "up" /\ conns[c].id[Other(role)] = q
<1> DEFINE c == peers[n][q]
<1>1. c \in Slots
    BY DEF IInv, TablesOK
<1>2. PICK role \in Roles :
        At(n, c, role) /\ conns[c].st[role] = "up" /\ conns[c].id[Other(role)] = q
    BY DEF IInv, PeersAuthentic
<1>3. RoleAt(n, c) = role
    BY <1>1, <1>2, EndAt
<1> QED
    BY <1>1, <1>2, <1>3

(* What is sent or read leaves the connection between the same two.            *)
LEMMA StreamsMove ==
    ASSUME IInv, NEW c \in Slots, Used(conns[c]), NEW conn \in Conns, Tidy(conn),
           conn.node = conns[c].node, conn.id = conns[c].id,
           conn.expected = conns[c].expected, conn.st = conns[c].st,
           Becomes(c, conn), UNCHANGED <<ident, running, adverts, peers, view, cut>>
    PROVE  IInv'
<1>1. Formed(conns[c]) /\ Alive(conns[c])
    BY DEF IInv, ConnsOK, ConnOK, OnlyRunning, Alive
<1>2. Formed(conn) /\ Alive(conn) /\ Keeps(c, conn) /\ SameAttempt(c, conn)
    BY <1>1 DEF Formed, Alive, Keeps, SameAttempt
<1> QED
    BY <1>2, Carried DEF ConnOK

LEMMA SendOK ==
    ASSUME IInv, NEW n \in Nodes, NEW q \in Ids, Send(n, q)
    PROVE  IInv'
<1> DEFINE c == peers[n][q]
           role == RoleAt(n, c)
           conn == Put(conns[c], role, <<"sealed">>)
<1>1. /\ c \in Slots /\ role \in Roles /\ conns[c].st[role] = "up"
      /\ conns[c] \in Conns /\ Tidy(conns[c])
    BY PeerAt, EndAt DEF Send
<1>2. Becomes(c, conn) /\ UNCHANGED <<ident, running, adverts, peers, view, cut>>
    BY DEF Send
<1> HIDE DEF c, role
<1>3. /\ conn \in Conns /\ Tidy(conn)
      /\ conn.node = conns[c].node /\ conn.id = conns[c].id
      /\ conn.expected = conns[c].expected /\ conn.st = conns[c].st
    <2>1. <<"sealed">> \in Seq(Frames)
        BY DEF Frames
    <2> QED
        BY <1>1, <2>1, PutOK
<1> HIDE DEF conn
<1>4. Used(conns[c])
    BY <1>1 DEF Used
<1> QED
    BY <1>1, <1>2, <1>3, <1>4, StreamsMove

LEMMA DrainPeerOK ==
    ASSUME IInv, NEW n \in Nodes, NEW q \in Ids, DrainPeer(n, q)
    PROVE  IInv'
<1> DEFINE c == peers[n][q]
           role == RoleAt(n, c)
           conn == Step(conns[c], role, "up")
<1>1. /\ c \in Slots /\ role \in Roles /\ conns[c].st[role] = "up"
      /\ conns[c] \in Conns /\ Tidy(conns[c])
    BY PeerAt, EndAt DEF DrainPeer
<1>2. /\ Becomes(c, conn) /\ conns[c].in[role] # <<>>
      /\ UNCHANGED <<ident, running, adverts, peers, view, cut>>
    BY DEF DrainPeer, NextFrame
<1> HIDE DEF c, role
<1>3. /\ conn \in Conns /\ Tidy(conn)
      /\ conn.node = conns[c].node /\ conn.id = conns[c].id
      /\ conn.expected = conns[c].expected
      /\ conn.st = [conns[c].st EXCEPT ![role] = "up"]
    <2>1. "up" \in EndStates
        BY DEF EndStates
    <2> QED
        BY <1>1, <1>2, <2>1, StepOK
<1> HIDE DEF conn
<1>4. conn.st = conns[c].st /\ Used(conns[c])
    <2>1. conns[c].st \in [Roles -> EndStates]
        BY <1>1 DEF Conns
    <2>2. [conns[c].st EXCEPT ![role] = "up"] = conns[c].st
        BY <1>1, <2>1
    <2> QED
        BY <1>1, <1>3, <2>2 DEF Used
<1> QED
    BY <1>1, <1>2, <1>3, <1>4, StreamsMove

LEMMA DropPeerOK ==
    ASSUME IInv, NEW n \in Nodes, NEW q \in Ids, DropPeer(n, q)
    PROVE  IInv'
<1> DEFINE c == peers[n][q]
           role == RoleAt(n, c)
           far == Other(role)
           conn == Closed(conns[c], role, TRUE)
<1>1. /\ c \in Slots /\ c # None /\ role \in Roles /\ conns[c].st[role] = "up"
      /\ conns[c].id[far] = q /\ conns[c].node[role] = n
      /\ conns[c] \in Conns /\ Tidy(conns[c]) /\ Formed(conns[c])
    BY PeerAt, EndAt DEF DropPeer
<1>2. /\ Becomes(c, conn)
      /\ peers' = [peers EXCEPT ![n][q] = None]
      /\ view' = [view EXCEPT ![n] = [l \in Listeners |-> @[l] \ {q}]]
      /\ cut' = cut \ {<<n, q>>}
      /\ UNCHANGED <<ident, running, adverts>>
    BY DEF DropPeer
<1>3. peers[n][q] = c
    OBVIOUS
<1> HIDE DEF c, role
<1>4. /\ ConnOK(conn) /\ Alive(conn) /\ SameAttempt(c, conn)
      /\ conn.st[role] = "closed" /\ conn.st[far] = conns[c].st[far]
      /\ conn.st[far] # "closed" => conn.node = conns[c].node /\ conn.id = conns[c].id
    BY <1>1, Closing
<1> HIDE DEF conn
<1>5. /\ far \in Roles /\ \A x \in Roles : x = role \/ x = far
      /\ conns[c].node[far] # n
    <2>1. (role = "i" /\ far = "r") \/ (role = "r" /\ far = "i")
        BY <1>1 DEF Roles, Other
    <2> QED
        BY <1>1, <2>1 DEF Formed, Roles
<1> HIDE DEF far
<1>6. /\ ConnsOK' /\ OnlyRunning' /\ OneAttempt'
      /\ conns'[c] = conn /\ \A d \in Slots \ {c} : conns'[d] = conns[d]
    BY <1>1, <1>2, <1>4, Becoming, StillAlive, SameAttempts DEF IInv
<1>7. /\ peers' \in [Nodes -> [Ids -> Slots \cup {None}]]
      /\ peers'[n][q] = None
      /\ \A m \in Nodes, r \in Ids : m # n \/ r # q => peers'[m][r] = peers[m][r]
    BY <1>2 DEF IInv, TablesOK
(* Only that end was up in the entry that goes.                               *)
<1>8. ASSUME NEW d \in Slots, NEW x \in Roles
      PROVE  /\ conns'[d].st[x] = "up" => ~(d = c /\ x = role) /\ conns[d].st[x] = "up"
             /\ conns[d].st[x] = "up" /\ ~(d = c /\ x = role) =>
                  /\ conns'[d].st[x] = "up"
                  /\ conns'[d].node = conns[d].node /\ conns'[d].id = conns[d].id
    BY <1>1, <1>4, <1>5, <1>6
<1>9. PeersAuthentic'
    <2> SUFFICES ASSUME NEW m \in Nodes, NEW r \in Ids, peers'[m][r] # None
                 PROVE  \E x \in Roles :
                          /\ At(m, peers[m][r], x)'
                          /\ conns'[peers'[m][r]].st[x] = "up"
                          /\ conns'[peers'[m][r]].id[Other(x)] = r
        BY DEF PeersAuthentic, At
    <2> DEFINE d == peers[m][r]
    <2>1. m # n \/ r # q
        BY <1>7
    <2>2. peers'[m][r] = d /\ d \in Slots
        BY <1>7, <2>1
    <2>3. PICK x \in Roles :
            At(m, d, x) /\ conns[d].st[x] = "up" /\ conns[d].id[Other(x)] = r
        BY <2>2 DEF IInv, PeersAuthentic
    <2>4. ~(d = c /\ x = role)
        BY <1>1, <2>1, <2>3 DEF At, far
    <2> HIDE DEF d
    <2>5. /\ conns'[d].st[x] = "up"
          /\ conns'[d].node = conns[d].node /\ conns'[d].id = conns[d].id
        BY <1>8, <2>2, <2>3, <2>4
    <2> QED
        BY <2>2, <2>3, <2>5 DEF At
<1>10. NoneForgotten'
    <2> SUFFICES ASSUME NEW d \in Slots, NEW x \in Roles, conns'[d].st[x] = "up"
                 PROVE  LET m == conns'[d].node[x]
                        IN  running'[m] /\ peers'[m][conns'[d].id[Other(x)]] = d
        BY DEF NoneForgotten
    <2> DEFINE m == conns[d].node[x]
               r == conns[d].id[Other(x)]
    <2>1. /\ conns[d].st[x] = "up" /\ ~(d = c /\ x = role)
          /\ conns'[d].node = conns[d].node /\ conns'[d].id = conns[d].id
        BY <1>8
    <2>2. running[m] /\ peers[m][r] = d
        BY <2>1 DEF IInv, NoneForgotten
    <2>3. m \in Nodes /\ r \in Ids
        <3>1. Formed(conns[d])
            BY <2>1 DEF IInv, ConnsOK, ConnOK, Used
        <3> QED
            BY <2>1, <3>1, TwoRoles DEF Formed
    <2>4. d # c \/ m # n
        BY <1>5, <2>1
    <2>5. peers'[m][r] = d
        BY <1>3, <1>7, <2>2, <2>3, <2>4
    <2> QED
        BY <1>2, <2>1, <2>2, <2>5
<1>11. /\ view' \in [Nodes -> [Listeners -> SUBSET Ids]]
       /\ \A l \in Listeners : view'[n][l] = view[n][l] \ {q}
       /\ \A m \in Nodes \ {n} : view'[m] = view[m]
    BY <1>2 DEF IInv, TablesOK
<1>12. TablesOK'
    BY <1>2, <1>7, <1>11 DEF IInv, TablesOK, AdvertsOK
<1>13. NobodyMissed'
    BY <1>7, <1>11 DEF IInv, NobodyMissed
<1>14. RostersFollowTable'
    BY <1>2, <1>7, <1>11 DEF IInv, RostersFollowTable
<1> QED
    BY <1>6, <1>9, <1>10, <1>12, <1>13, <1>14 DEF IInv
-----------------------------------------------------------------------------
(* Stopping and starting.                                                  *)

(* What stopping n leaves of a connection: its end elsewhere, as it was.       *)
LEMMA StoppedEnd ==
    ASSUME IInv, NEW n \in Nodes, NEW told \in BOOLEAN, Stop(n, told), NEW c \in Slots
    PROVE  /\ ConnOK(conns'[c]) /\ Alive(conns'[c]) /\ SameAttempt(c, conns'[c])
           /\ \A role \in Roles :
                /\ conns'[c].st[role] # "closed" =>
                     /\ conns'[c].st[role] = conns[c].st[role]
                     /\ conns'[c].node = conns[c].node /\ conns'[c].id = conns[c].id
                     /\ conns[c].node[role] # n
                /\ conns[c].st[role] # "closed" /\ conns[c].node[role] # n =>
                     conns'[c].st[role] = conns[c].st[role]
<1>1. ConnOK(conns[c]) /\ Alive(conns[c])
    BY DEF IInv, ConnsOK, OnlyRunning, Alive
<1>2. ASSUME NEW role \in Roles, At(n, c, role), conns'[c] = Closed(conns[c], role, told)
      PROVE  /\ ConnOK(conns'[c]) /\ Alive(conns'[c]) /\ SameAttempt(c, conns'[c])
             /\ \A x \in Roles :
                  /\ conns'[c].st[x] # "closed" =>
                       /\ conns'[c].st[x] = conns[c].st[x]
                       /\ conns'[c].node = conns[c].node /\ conns'[c].id = conns[c].id
                       /\ conns[c].node[x] # n
                  /\ conns[c].st[x] # "closed" /\ conns[c].node[x] # n =>
                       conns'[c].st[x] = conns[c].st[x]
    <2> DEFINE conn == Closed(conns[c], role, told)
               far == Other(role)
    <2>1. /\ conns[c] \in Conns /\ Tidy(conns[c]) /\ Formed(conns[c])
          /\ conns[c].node[role] = n /\ conns[c].st[role] # "closed"
        BY <1>2, EndAt DEF At
    <2>2. /\ ConnOK(conn) /\ Alive(conn) /\ SameAttempt(c, conn)
          /\ conn.st[role] = "closed" /\ conn.st[far] = conns[c].st[far]
          /\ conn.st[far] # "closed" => conn.node = conns[c].node /\ conn.id = conns[c].id
        BY <2>1, Closing
    <2>3. (role = "i" /\ far = "r") \/ (role = "r" /\ far = "i")
        BY DEF Roles, Other
    <2>4. conns'[c] = conn
        BY <1>2
    <2> HIDE DEF conn, far
    <2>5. conns[c].node[far] # n /\ \A x \in Roles : x = role \/ x = far
        BY <2>1, <2>3 DEF Formed, Roles
    <2> QED
        BY <2>1, <2>2, <2>4, <2>5
<1>3. CASE At(n, c, "i")
    BY <1>2, <1>3, TwoRoles DEF Stop
<1>4. CASE ~At(n, c, "i") /\ At(n, c, "r")
    BY <1>2, <1>4, TwoRoles DEF Stop
<1>5. CASE ~At(n, c, "i") /\ ~At(n, c, "r")
    <2>1. conns'[c] = conns[c]
        BY <1>5 DEF Stop
    <2>2. \A role \in Roles : conns[c].st[role] # "closed" => conns[c].node[role] # n
        BY <1>5, TwoRoles DEF At
    <2> QED
        BY <1>1, <2>1, <2>2 DEF SameAttempt
<1> QED
    BY <1>3, <1>4, <1>5

LEMMA StopOK ==
    ASSUME IInv, NEW n \in Nodes, NEW told \in BOOLEAN, Stop(n, told)
    PROVE  IInv'
<1>1. /\ running' = [running EXCEPT ![n] = FALSE]
      /\ peers' = [peers EXCEPT ![n] = [q \in Ids |-> None]]
      /\ cut' = {nq \in cut : nq[1] # n}
      /\ view' = [view EXCEPT ![n] = [l \in Listeners |-> {}]]
      /\ UNCHANGED <<ident, adverts>>
    BY DEF Stop
<1>2. /\ \A q \in Ids : peers'[n][q] = None
      /\ \A m \in Nodes \ {n} : peers'[m] = peers[m] /\ view'[m] = view[m]
                                /\ running'[m] = running[m]
      /\ \A l \in Listeners : view'[n][l] = {}
      /\ TablesOK'
    BY <1>1 DEF IInv, TablesOK, AdvertsOK
<1>3. ConnsOK'
    <2>1. \A c \in Slots : ConnOK(conns'[c])
        BY StoppedEnd
    <2>2. conns' = [c \in Slots |-> conns'[c]]
        BY DEF Stop
    <2> QED
        BY <2>1, <2>2 DEF ConnsOK, ConnOK
<1>4. OnlyRunning'
    <2> SUFFICES ASSUME NEW c \in Slots, NEW role \in Roles, conns'[c].st[role] # "closed"
                 PROVE  running'[conns'[c].node[role]]
        BY DEF OnlyRunning
    <2>1. /\ conns'[c].node = conns[c].node /\ conns[c].node[role] # n
          /\ conns[c].st[role] # "closed"
        BY StoppedEnd
    <2>2. conns[c].node[role] \in Nodes /\ running[conns[c].node[role]]
        BY <2>1, TwoRoles DEF IInv, OnlyRunning, ConnsOK, ConnOK, Used, Formed
    <2> QED
        BY <1>2, <2>1, <2>2
<1>5. PeersAuthentic'
    <2> SUFFICES ASSUME NEW m \in Nodes, NEW r \in Ids, peers'[m][r] # None
                 PROVE  \E x \in Roles :
                          /\ At(m, peers[m][r], x)'
                          /\ conns'[peers'[m][r]].st[x] = "up"
                          /\ conns'[peers'[m][r]].id[Other(x)] = r
        BY DEF PeersAuthentic, At
    <2> DEFINE d == peers[m][r]
    <2>1. m # n /\ peers'[m][r] = d /\ d \in Slots
        BY <1>2 DEF IInv, TablesOK
    <2>2. PICK x \in Roles :
            At(m, d, x) /\ conns[d].st[x] = "up" /\ conns[d].id[Other(x)] = r
        BY <2>1 DEF IInv, PeersAuthentic
    <2> HIDE DEF d
    <2>3. /\ conns'[d].st[x] = "up"
          /\ conns'[d].node = conns[d].node /\ conns'[d].id = conns[d].id
        BY <2>1, <2>2, StoppedEnd DEF At
    <2> QED
        BY <2>1, <2>2, <2>3 DEF At
<1>6. NoneForgotten'
    <2> SUFFICES ASSUME NEW d \in Slots, NEW x \in Roles, conns'[d].st[x] = "up"
                 PROVE  LET m == conns'[d].node[x]
                        IN  running'[m] /\ peers'[m][conns'[d].id[Other(x)]] = d
        BY DEF NoneForgotten
    <2> DEFINE m == conns[d].node[x]
               r == conns[d].id[Other(x)]
    <2>1. /\ conns[d].st[x] = "up" /\ m # n
          /\ conns'[d].node = conns[d].node /\ conns'[d].id = conns[d].id
        BY StoppedEnd
    <2>2. running[m] /\ peers[m][r] = d
        BY <2>1 DEF IInv, NoneForgotten
    <2>3. m \in Nodes
        BY <2>1, TwoRoles DEF IInv, ConnsOK, ConnOK, Used, Formed
    <2> QED
        BY <1>2, <2>1, <2>2, <2>3
<1>7. OneAttempt'
    <2>1. ASSUME NEW d \in Slots, NEW m \in Nodes, At(m, d, "i")'
          PROVE  At(m, d, "i") /\ conns'[d].expected = conns[d].expected
        BY <2>1, StoppedEnd DEF SameAttempt, At
    <2> QED
        BY <2>1 DEF IInv, OneAttempt
<1>8. NobodyMissed'
    BY <1>2 DEF IInv, NobodyMissed
<1>9. RostersFollowTable'
    BY <1>1, <1>2 DEF IInv, RostersFollowTable
<1> QED
    BY <1>2, <1>3, <1>4, <1>5, <1>6, <1>7, <1>8, <1>9 DEF IInv

LEMMA StartOK ==
    ASSUME IInv, NEW n \in Nodes, NEW q \in Ids, Start(n, q)
    PROVE  IInv'
<1>1. \A m \in Nodes : running[m] => running'[m]
    BY DEF IInv, TablesOK, Start
<1>2. TablesOK' /\ ConnsOK' /\ PeersAuthentic' /\ OneAttempt' /\ NobodyMissed'
      /\ RostersFollowTable'
    BY DEF IInv, TablesOK, AdvertsOK, ConnsOK, PeersAuthentic, OneAttempt, NobodyMissed,
           RostersFollowTable, At, Start
<1>3. \A c \in Slots, role \in Roles :
        conns[c].st[role] # "closed" => conns[c].node[role] \in Nodes
    BY TwoRoles DEF IInv, ConnsOK, ConnOK, Used, Formed
<1>4. OnlyRunning' /\ NoneForgotten'
    BY <1>1, <1>3 DEF IInv, OnlyRunning, NoneForgotten, Start
<1> QED
    BY <1>2, <1>4 DEF IInv
-----------------------------------------------------------------------------
(* The invariant holds.                                                    *)

LEMMA InitOK == Init => IInv
<1> SUFFICES ASSUME Init PROVE IInv
    OBVIOUS
<1>1. TablesOK
    BY DEF Init, TablesOK, AdvertsOK
<1>2. \A c \in Slots : conns[c] = FreeConn
    BY DEF Init
<1>3. /\ ConnsOK /\ \A c \in Slots : \A role \in Roles : conns[c].st[role] = "closed"
    BY <1>2, FreeConnOK DEF Init, ConnsOK, ConnOK
<1>4. OnlyRunning /\ NoneForgotten /\ OneAttempt
    BY <1>3, TwoRoles DEF OnlyRunning, NoneForgotten, OneAttempt, At
<1>5. PeersAuthentic /\ NobodyMissed /\ RostersFollowTable
    BY DEF Init, PeersAuthentic, NobodyMissed, RostersFollowTable
<1> QED
    BY <1>1, <1>3, <1>4, <1>5 DEF IInv

LEMMA Inductive == IInv /\ [Next]_vars => IInv'
<1> SUFFICES ASSUME IInv, [Next]_vars PROVE IInv'
    OBVIOUS
<1>1. CASE UNCHANGED vars
    <2>1. TablesOK'
        BY <1>1 DEF IInv, TablesOK, AdvertsOK, vars
    <2> QED
        BY <1>1, <2>1, OnlyTables DEF vars
<1>2. CASE Next
    <2> SUFFICES ASSUME NEW n \in Nodes,
                   \/ Advertise(n)
                   \/ \E advert \in adverts, c \in Slots : HandleAdvertise(n, advert, c)
                   \/ \E c \in Slots : Shake(n, c)
                   \/ \E c \in Slots : DialFailed(n, c)
                   \/ \E c \in Slots, role \in Roles : ExpireHandshaking(n, c, role)
                   \/ \E c \in Slots, role \in Roles, k \in {0} \cup Listeners :
                        AdoptPeerSendFails(n, c, role, k)
                   \/ \E q \in Ids : Send(n, q)
                   \/ \E q \in Ids : DrainPeer(n, q)
                   \/ \E q \in Ids : DrainEnds(n, q)
                   \/ \E q \in Ids : ExpirePeer(n, q)
                   \/ \E told \in BOOLEAN : Stop(n, told)
                   \/ \E q \in Ids : Start(n, q)
                 PROVE  IInv'
        BY <1>2 DEF Next
    <2>1. CASE Advertise(n)
        BY <2>1, AdvertiseOK
    <2>2. CASE \E advert \in adverts, c \in Slots : HandleAdvertise(n, advert, c)
        BY <2>2, HandleAdvertiseOK
    <2>3. CASE \E c \in Slots : Shake(n, c)
        BY <2>3, FinishDialingOK, AcceptPeersOK, AnswerOpeningOK, AdoptPeerOK, RefuseOK,
           HandshakeGivenUpOK DEF Shake
    <2>4. CASE \E c \in Slots : DialFailed(n, c)
        BY <2>4, DialFailedOK
    <2>5. CASE \E c \in Slots, role \in Roles : ExpireHandshaking(n, c, role)
        BY <2>5, HandshakeGivenUpOK
    <2>6. CASE \E c \in Slots, role \in Roles, k \in {0} \cup Listeners :
                 AdoptPeerSendFails(n, c, role, k)
        BY <2>6, AdoptPeerSendFailsOK
    <2>7. CASE \E q \in Ids : Send(n, q)
        BY <2>7, SendOK
    <2>8. CASE \E q \in Ids : DrainPeer(n, q)
        BY <2>8, DrainPeerOK
    <2>9. CASE \E q \in Ids : DrainEnds(n, q) \/ ExpirePeer(n, q)
        BY <2>9, DropPeerOK DEF DrainEnds, ExpirePeer
    <2>10. CASE \E told \in BOOLEAN : Stop(n, told)
        BY <2>10, StopOK
    <2>11. CASE \E q \in Ids : Start(n, q)
        BY <2>11, StartOK
    <2> QED
        BY <2>1, <2>2, <2>3, <2>4, <2>5, <2>6, <2>7, <2>8, <2>9, <2>10, <2>11
<1> QED
    BY <1>1, <1>2

LEMMA Invariance == Spec => []IInv
    BY InitOK, Inductive, PTL DEF Spec
-----------------------------------------------------------------------------
(* The types hold: no frame waits at an end without a socket (the handlers of  *)
(* message_router.cpp).                                                    *)
THEOREM TypeCorrect == Spec => []TypeOK
<1>1. IInv => TypeOK
  <2> SUFFICES ASSUME IInv PROVE TypeOK
      OBVIOUS
  <2>1. conns \in [Slots -> Conns]
      BY DEF IInv, ConnsOK
  <2>2. \A c \in Slots, role \in Roles :
          conns[c].st[role] = "closed" => conns[c].in[role] = <<>>
      BY DEF IInv, ConnsOK, ConnOK, Tidy
  <2>3. adverts \subseteq [to : Nodes, node : Nodes, id : Ids]
      BY DEF IInv, TablesOK, AdvertsOK
  <2> QED
      BY <2>1, <2>2, <2>3 DEF IInv, TablesOK, Conns, TypeOK
<1> QED
    BY <1>1, Invariance, PTL

(* Whoever is in the table under an id proved, over the connection that the    *)
(* entry names, to hold the key of that id (drain_handshaking, adopt_peer).   *)
THEOREM AuthenticPeers == Spec => []PeersAuthentic
<1>1. IInv => PeersAuthentic
    BY DEF IInv
<1> QED
    BY <1>1, Invariance, PTL

(* An adopted end is in the table of a running router for as long as it is      *)
(* open, so that something reads and closes it (adopt_peer, drop_peer, stop). *)
THEOREM NothingForgotten == Spec => []NoneForgotten
<1>1. IInv => NoneForgotten
    BY DEF IInv
<1> QED
    BY <1>1, Invariance, PTL

(* A router never dials anyone it is dialling or has met (handle_advertise).    *)
THEOREM OneAttemptEach == Spec => []OneAttempt
<1>1. IInv => OneAttempt
    BY DEF IInv
<1> QED
    BY <1>1, Invariance, PTL

(* The interfaces know of everyone in the table, and beside them only of those  *)
(* whose adoption a failed send cut short (adopt_peer, drop_peer, dispatch).  *)
THEOREM InterfacesFollow == Spec => [](NobodyMissed /\ RostersFollowTable)
<1>1. IInv => NobodyMissed /\ RostersFollowTable
    BY DEF IInv
<1> QED
    BY <1>1, Invariance, PTL

(* A live connection leaves the table before another comes in its place         *)
(* (adopt_peer).                                                           *)
THEOREM NeverDisplaced == Spec => NotDisplaced
<1> DEFINE A == \A n \in Nodes, q \in Ids :
                   peers[n][q] # None => peers'[n][q] \in {peers[n][q], None}
<1>1. IInv /\ [Next]_vars => [A]_vars
  <2> SUFFICES ASSUME IInv, Next PROVE A
      OBVIOUS
  <2>1. peers \in [Nodes -> [Ids -> Slots \cup {None}]]
      BY DEF IInv, TablesOK
  <2>2. ASSUME NEW n \in Nodes, NEW c \in Slots, NEW role \in Roles, AdoptPeer(n, c, role)
        PROVE  A
      BY <2>1, <2>2 DEF AdoptPeer, Adoptable, Refusable
  <2>3. ASSUME NEW n \in Nodes, NEW q \in Ids, DropPeer(n, q)
        PROVE  A
      BY <2>1, <2>3 DEF DropPeer
  <2>4. ASSUME NEW n \in Nodes, NEW told \in BOOLEAN, Stop(n, told)
        PROVE  A
      BY <2>1, <2>4 DEF Stop
  <2>5. CASE UNCHANGED peers
      BY <2>5
  <2>6. ASSUME NEW n \in Nodes, NEW c \in Slots, Shake(n, c)
        PROVE  A
      <3>1. CASE \E role \in Roles : AdoptPeer(n, c, role)
          BY <2>2, <3>1
      <3>2. CASE ~\E role \in Roles : AdoptPeer(n, c, role)
          BY <2>5, <2>6, <3>2 DEF Shake, FinishDialing, AcceptPeers, AnswerOpening, Refuse,
                               HandshakeEnds
      <3> QED
          BY <3>1, <3>2
  <2>7. ASSUME NEW n \in Nodes, NEW q \in Ids, DrainEnds(n, q) \/ ExpirePeer(n, q)
        PROVE  A
      BY <2>3, <2>7 DEF DrainEnds, ExpirePeer
  <2>8. ASSUME NEW n \in Nodes,
               \/ Advertise(n)
               \/ \E advert \in adverts, c \in Slots : HandleAdvertise(n, advert, c)
               \/ \E c \in Slots : DialFailed(n, c)
               \/ \E c \in Slots, role \in Roles : ExpireHandshaking(n, c, role)
               \/ \E c \in Slots, role \in Roles, k \in {0} \cup Listeners :
                    AdoptPeerSendFails(n, c, role, k)
               \/ \E q \in Ids : Send(n, q)
               \/ \E q \in Ids : DrainPeer(n, q)
               \/ \E q \in Ids : Start(n, q)
        PROVE  UNCHANGED peers
      BY <2>8 DEF Advertise, HandleAdvertise, DialFailed, ExpireHandshaking, AdoptPeerSendFails,
                  Send, DrainPeer, Start
  <2> QED
      BY <2>4, <2>5, <2>6, <2>7, <2>8 DEF Next
<1> QED
    BY <1>1, Invariance, PTL DEF Spec, NotDisplaced
=============================================================================
