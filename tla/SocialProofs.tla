---------------------------- MODULE SocialProofs ----------------------------
(***************************************************************************)
(* What Social promises for any peers, statuses, keys and bounds: the       *)
(* types, that the readers of who is there agree with the mesh, that what  *)
(* the game has been told adds up, that whoever introduced itself is known *)
(* or about to be, and, if the games pass statuses that have a name, that  *)
(* each holds the presence of the other or has it before it.               *)
(***************************************************************************)
EXTENDS Social, MeshLinkProofs, FiniteSetTheorems

-----------------------------------------------------------------------------
(* The inductive invariant.                                                 *)

Words ==
    [type : {"name", "who"}, body : Peers] \cup [type : {"presence"}, body : Presences]

(* Nobody accepts whom it has met already, and what was read too late is from   *)
(* somebody who is gone.                                                    *)
LinkOK ==
    /\ LinkTyped(Words)
    /\ up \cap accepting = {}
    /\ \A p \in Peers : \A i \in DOMAIN late[p] : <<p, late[p][i].from>> \notin up

Updates == [who : Peers, friend : BOOLEAN]

(* What connect keeps.                                                      *)
ConnectOK ==
    /\ loggedIn \in [Peers -> BOOLEAN] /\ toldStatus \in [Peers -> BOOLEAN]
    /\ roster \in [Peers -> SUBSET Peers]
    /\ transitions \in [Peers -> Seq(BOOLEAN)]
    /\ \A p \in Peers :
         loggedIn[p] = IF transitions[p] = <<>> THEN toldStatus[p] ELSE Last(transitions[p])

(* What friends and user info keep.                                          *)
FriendsOK ==
    /\ friends \in [Peers -> SUBSET Peers] /\ shown \in [Peers -> SUBSET Peers]
    /\ users \in [Peers -> SUBSET Peers]
    /\ updates \in [Peers -> Seq(Updates)]
    /\ \A p \in Peers : ToldAll(shown[p], updates[p]) = friends[p]

Drafts == [open : BOOLEAN, status : Statuses \cup {None},
           deleted : SUBSET Keys, set : SUBSET Keys]

(* What presence keeps.                                                     *)
PresenceOK ==
    /\ mine \in [Peers -> Presences]
    /\ draft \in [Peers -> Drafts]
    /\ proved \in [Peers -> SUBSET Peers]
    /\ held \in [Peers -> [Peers -> Presences \cup {NoPresence}]]
    /\ seen \in [Peers -> [Peers -> Presences \cup {NoPresence}]]
    /\ queries \in [Peers -> [Peers -> {"none", "asked", "found"}]]
    /\ \A p, q \in Peers :
         held[p][q] # NoPresence => q \in proved[p] /\ seen[p][q] = held[p][q]

(* All three follow the mesh.                                               *)
FollowMesh == \A p \in Peers : friends[p] = Met(p) /\ users[p] = Met(p) /\ proved[p] = Met(p)

(* What q has written to p will be read.                                     *)
Heard(p, q) == <<q, p>> \in up /\ <<p, q>> \in up \cup accepting

NamesAt(p, q) ==
    Heard(p, q) /\ <<q, p>> \in introduced =>
        q \in roster[p] \/ Announcement(q) \in Range(wire[<<q, p>>])

NamesOK == \A p, q \in Peers : NamesAt(p, q)

Tells(m) == m.type = "presence"
Silent(s) == \A i \in DOMAIN s : ~Tells(s[i])
LastWord(s, presence) ==
    \E i \in DOMAIN s :
        s[i] = Telling(presence) /\ \A j \in DOMAIN s : j > i => ~Tells(s[j])

CurrentAt(p, q) ==
    Heard(p, q) =>
        \/ held[p][q] = mine[q] /\ Silent(wire[<<q, p>>])
        \/ LastWord(wire[<<q, p>>], mine[q])

CurrentOK ==
    /\ \A q \in Peers : WithinCaps(mine[q])
    /\ \A p, q \in Peers : CurrentAt(p, q)

IInv == LinkOK /\ ConnectOK /\ FriendsOK /\ PresenceOK /\ FollowMesh /\ NamesOK

-----------------------------------------------------------------------------
(* Words and streams.                                                       *)

W == Words \cup {Eof}

LEMMA WordsOf ==
    /\ \A p \in Peers : Announcement(p) \in Words /\ ~Tells(Announcement(p))
    /\ \A presence \in Presences : Telling(presence) \in Words /\ Tells(Telling(presence))
    /\ \A p \in Peers : [type |-> "who", body |-> p] \in Words /\ ~Tells([type |-> "who", body |-> p])
    /\ ~Tells(Eof)
    BY DEF Words, Announcement, Telling, Tells, Eof

LEMMA PresenceParts ==
    ASSUME NEW presence \in Presences
    PROVE  /\ presence.status \in Statuses \cup Known /\ presence.keys \in SUBSET Keys
           /\ presence # NoPresence
    BY PresenceAssumption DEF Presences, NoPresence

LEMMA Appending ==
    ASSUME NEW s \in Seq(W), NEW t \in Seq(W)
    PROVE  /\ s \o t \in Seq(W)
           /\ Range(s) \cup Range(t) \subseteq Range(s \o t)
           /\ Silent(s) /\ Silent(t) => Silent(s \o t)
           /\ \A presence : LastWord(s, presence) /\ Silent(t) => LastWord(s \o t, presence)
           /\ \A presence : LastWord(t, presence) => LastWord(s \o t, presence)
<1> DEFINE u == s \o t
           m == Len(s)
           n == Len(t)
<1>1. /\ u \in Seq(W) /\ m \in Nat /\ n \in Nat
      /\ DOMAIN s = 1 .. m /\ DOMAIN t = 1 .. n /\ DOMAIN u = 1 .. m + n
      /\ \A i \in 1 .. m + n : u[i] = IF i <= m THEN s[i] ELSE t[i - m]
    BY ConcatProperties, LenProperties
<1> HIDE DEF u, m, n
<1>2. \A i \in 1 .. m : i \in 1 .. m + n /\ u[i] = s[i]
    BY <1>1
<1>3. \A i \in 1 .. n : i + m \in 1 .. m + n /\ u[i + m] = t[i]
    BY <1>1
<1>4. \A j \in 1 .. m + n : j > m => j - m \in 1 .. n /\ u[j] = t[j - m]
    BY <1>1
<1>5. \A j \in 1 .. m + n : j <= m => j \in 1 .. m /\ u[j] = s[j]
    BY <1>1
<1>6. Range(s) \cup Range(t) \subseteq Range(u)
    <2>1. ASSUME NEW i \in 1 .. m
          PROVE  s[i] \in Range(u)
        BY <1>1, <1>2 DEF Range
    <2>2. ASSUME NEW i \in 1 .. n
          PROVE  t[i] \in Range(u)
        BY <1>1, <1>3 DEF Range
    <2>3. Range(s) = {s[i] : i \in 1 .. m} /\ Range(t) = {t[i] : i \in 1 .. n}
        BY <1>1 DEF Range
    <2> QED
        BY <2>1, <2>2, <2>3
<1>7. ASSUME Silent(s), Silent(t)
      PROVE  Silent(u)
    <2>1. ASSUME NEW j \in 1 .. m + n
          PROVE  ~Tells(u[j])
        <3>1. CASE j <= m
            BY <1>1, <1>5, <1>7, <3>1 DEF Silent
        <3>2. CASE j > m
            BY <1>1, <1>4, <1>7, <3>2 DEF Silent
        <3> QED
            BY <1>1, <3>1, <3>2
    <2> QED
        BY <1>1, <2>1 DEF Silent
<1>8. ASSUME NEW presence, LastWord(s, presence), Silent(t)
      PROVE  LastWord(u, presence)
    <2>1. PICK i \in 1 .. m : s[i] = Telling(presence) /\ \A j \in 1 .. m : j > i => ~Tells(s[j])
        BY <1>1, <1>8 DEF LastWord
    <2>2. i \in 1 .. m + n /\ u[i] = Telling(presence)
        BY <1>2, <2>1
    <2>3. ASSUME NEW j \in 1 .. m + n, j > i
          PROVE  ~Tells(u[j])
        <3>1. CASE j <= m
            BY <1>5, <2>1, <2>3, <3>1
        <3>2. CASE j > m
            BY <1>1, <1>4, <1>8, <3>2 DEF Silent
        <3> QED
            BY <1>1, <3>1, <3>2
    <2> QED
        BY <1>1, <2>2, <2>3 DEF LastWord
<1>9. ASSUME NEW presence, LastWord(t, presence)
      PROVE  LastWord(u, presence)
    <2>1. PICK i \in 1 .. n : t[i] = Telling(presence) /\ \A j \in 1 .. n : j > i => ~Tells(t[j])
        BY <1>1, <1>9 DEF LastWord
    <2>2. i + m \in 1 .. m + n /\ u[i + m] = Telling(presence)
        BY <1>3, <2>1
    <2>3. ASSUME NEW j \in 1 .. m + n, j > i + m
          PROVE  ~Tells(u[j])
        <3>1. j > m /\ j - m > i
            BY <1>1, <2>3
        <3> QED
            BY <1>4, <2>1, <3>1
    <2> QED
        BY <1>1, <2>2, <2>3 DEF LastWord
<1> QED
    BY <1>1, <1>6, <1>7, <1>8, <1>9 DEF u

(* What is left when the first word is read.                                  *)
LEMMA Reading ==
    ASSUME NEW s \in Seq(W), s # <<>>
    PROVE  /\ Head(s) \in W /\ Tail(s) \in Seq(W)
           /\ Silent(s) => ~Tells(Head(s)) /\ Silent(Tail(s))
           /\ \A presence : LastWord(s, presence) =>
                \/ LastWord(Tail(s), presence)
                \/ Head(s) = Telling(presence) /\ Silent(Tail(s))
<1> DEFINE t == Tail(s)
           n == Len(s)
<1>1. /\ n \in Nat \ {0} /\ DOMAIN s = 1 .. n /\ Head(s) = s[1] /\ Head(s) \in W
      /\ t \in Seq(W) /\ DOMAIN t = 1 .. n - 1
      /\ \A i \in 1 .. n - 1 : t[i] = s[i + 1]
    BY HeadTailProperties, LenProperties
<1> HIDE DEF t, n
<1>2. 1 \in 1 .. n /\ \A i \in 1 .. n - 1 : i + 1 \in 1 .. n
    BY <1>1
<1>3. Silent(s) => ~Tells(Head(s)) /\ Silent(t)
    BY <1>1, <1>2 DEF Silent
<1>4. ASSUME NEW presence, LastWord(s, presence)
      PROVE  LastWord(t, presence) \/ (Head(s) = Telling(presence) /\ Silent(t))
    <2>1. PICK i \in 1 .. n : s[i] = Telling(presence) /\ \A j \in 1 .. n : j > i => ~Tells(s[j])
        BY <1>1, <1>4 DEF LastWord
    <2>2. CASE i = 1
        <3>1. \A j \in 1 .. n - 1 : j + 1 > i
            BY <1>1, <2>2
        <3>2. Silent(t)
            BY <1>1, <1>2, <2>1, <3>1 DEF Silent
        <3> QED
            BY <1>1, <2>1, <2>2, <3>2
    <2>3. CASE i # 1
        <3>1. i - 1 \in 1 .. n - 1 /\ (i - 1) + 1 = i
            BY <1>1, <2>1, <2>3
        <3>2. t[i - 1] = Telling(presence)
            BY <1>1, <2>1, <3>1
        <3>3. ASSUME NEW j \in 1 .. n - 1, j > i - 1
              PROVE  ~Tells(t[j])
            <4>1. j + 1 \in 1 .. n /\ j + 1 > i
                BY <1>1, <3>3
            <4> QED
                BY <1>1, <2>1, <4>1
        <3> QED
            BY <1>1, <3>1, <3>2, <3>3 DEF LastWord
    <2> QED
        BY <2>2, <2>3
<1> QED
    BY <1>1, <1>3, <1>4 DEF t

LEMMA One ==
    ASSUME NEW m \in Words
    PROVE  /\ <<m>> \in Seq(Words) /\ <<m>> \in Seq(W)
           /\ Range(<<m>>) = {m}
           /\ ~Tells(m) => Silent(<<m>>)
           /\ \A presence : m = Telling(presence) => LastWord(<<m>>, presence)
<1>1. DOMAIN <<m>> = {1} /\ <<m>>[1] = m /\ Len(<<m>>) = 1
    OBVIOUS
<1>2. <<m>> \in Seq(Words) /\ <<m>> \in Seq(W)
    BY DEF W
<1>3. Range(<<m>>) = {m}
    BY <1>1 DEF Range
<1>4. \A presence : m = Telling(presence) => LastWord(<<m>>, presence)
    BY <1>1 DEF LastWord
<1> QED
    BY <1>1, <1>2, <1>3, <1>4 DEF Silent

-----------------------------------------------------------------------------
(* Sending.                                                                *)

LEMMA PostedAll ==
    ASSUME NEW w, Streams(w, Words), NEW p, NEW q, NEW ms \in Seq(Words)
    PROVE  /\ Streams(Posted(w, p, q, ms), Words)
           /\ \A pq \in Pairs :
                Posted(w, p, q, ms)[pq] = IF pq = <<p, q>> /\ pq \in up /\ Reads(q, p)
                                          THEN w[pq] \o ms ELSE w[pq]
    BY PostedSeq

LEMMA ToAllOK ==
    ASSUME NEW w, Streams(w, Words), NEW p \in Peers, NEW m \in Words
    PROVE  /\ Streams(ToAll(w, p, m), Words)
           /\ \A r, q \in Peers : r # q =>
                ToAll(w, p, m)[<<r, q>>] =
                    IF r = p /\ <<p, q>> \in up /\ Reads(q, p)
                    THEN w[<<r, q>>] \o <<m>> ELSE w[<<r, q>>]
<1> DEFINE x == ToAll(w, p, m)
<1>1. <<m>> \in Seq(Words)
    BY One
<1>2. ASSUME NEW r \in Peers, NEW q \in Peers, r # q
      PROVE  /\ <<r, q>> \in Pairs
             /\ x[<<r, q>>] \in Seq(W)
             /\ x[<<r, q>>] = IF r = p /\ <<p, q>> \in up /\ Reads(q, p)
                              THEN w[<<r, q>>] \o <<m>> ELSE w[<<r, q>>]
    <2>1. <<r, q>> \in Pairs
        BY <1>2 DEF Pairs
    <2>2. /\ Streams(Posted(w, p, q, <<m>>), Words)
          /\ Posted(w, p, q, <<m>>)[<<r, q>>] =
                IF <<r, q>> = <<p, q>> /\ <<r, q>> \in up /\ Reads(q, p)
                THEN w[<<r, q>>] \o <<m>> ELSE w[<<r, q>>]
        BY <1>1, <2>1, PostedAll
    <2>3. x[<<r, q>>] = IF r = p THEN Posted(w, p, q, <<m>>)[<<r, q>>] ELSE w[<<r, q>>]
        BY <2>1 DEF ToAll
    <2> HIDE DEF x
    <2>4. x[<<r, q>>] \in Seq(W)
        BY <2>1, <2>2, <2>3 DEF Streams, W
    <2> QED
        BY <2>1, <2>2, <2>3, <2>4
<1>3. ASSUME NEW pq \in Pairs
      PROVE  x[pq] \in Seq(W)
    <2>1. PICK r \in Peers, q \in Peers : r # q /\ pq = <<r, q>>
        BY DEF Pairs
    <2>2. x[<<r, q>>] \in Seq(W)
        BY <1>2, <2>1
    <2> QED
        BY <2>1, <2>2
<1>4. \E f : x = [pq \in Pairs |-> f[pq]]
    <2> DEFINE f == [pq \in Pairs |-> IF pq[1] = p THEN Posted(w, p, pq[2], <<m>>)[pq] ELSE w[pq]]
    <2>1. x = [pq \in Pairs |-> f[pq]]
        BY DEF ToAll
    <2> QED
        BY <2>1
<1> HIDE DEF x
<1>5. Streams(x, Words)
    <2>1. PICK f : x = [pq \in Pairs |-> f[pq]]
        BY <1>4
    <2>2. \A pq \in Pairs : f[pq] \in Seq(W)
        BY <1>3, <2>1
    <2> QED
        BY <2>1, <2>2 DEF Streams, W
<1> QED
    BY <1>2, <1>5 DEF x

LEMMA HelloOK ==
    ASSUME PresenceOK, NEW p \in Peers, NEW hello,
           hello = Introduction(p) \o <<Telling(mine[p])>>
    PROVE  /\ hello \in Seq(Words) /\ hello \in Seq(W)
           /\ LastWord(hello, mine[p])
           /\ loggedIn[p] => Announcement(p) \in Range(hello)
<1>1. /\ Telling(mine[p]) \in Words /\ <<Telling(mine[p])>> \in Seq(W)
      /\ <<Telling(mine[p])>> \in Seq(Words) /\ LastWord(<<Telling(mine[p])>>, mine[p])
    BY WordsOf, One DEF PresenceOK
<1>2. CASE loggedIn[p]
    <2>1. /\ Introduction(p) = <<Announcement(p)>> /\ Introduction(p) \in Seq(Words)
          /\ Introduction(p) \in Seq(W) /\ Range(Introduction(p)) = {Announcement(p)}
        BY <1>2, WordsOf, One DEF Introduction
    <2>2. hello \in Seq(Words)
        BY <1>1, <2>1, ConcatProperties
    <2> QED
        BY <1>1, <2>1, <2>2, Appending
<1>3. CASE ~loggedIn[p]
    <2>1. Introduction(p) = <<>> /\ <<>> \in Seq(Words) /\ <<>> \in Seq(W)
        BY <1>3 DEF Introduction
    <2>2. hello \in Seq(Words)
        BY <1>1, <2>1, ConcatProperties
    <2> QED
        BY <1>1, <1>3, <2>1, <2>2, Appending
<1> QED
    BY <1>2, <1>3

-----------------------------------------------------------------------------
(* What a step leaves alone.                                                 *)

LEMMA LinkOKSame ==
    ASSUME LinkOK, UNCHANGED linkVars
    PROVE  LinkOK'
<1>1. LinkTyped(Words)'
    BY LinkSame DEF LinkOK
<1> QED
    BY <1>1 DEF LinkOK, linkVars

LEMMA LinkOKSent ==
    ASSUME LinkOK, Streams(wire', Words), UNCHANGED <<up, accepting, late>>
    PROVE  LinkOK'
<1>1. LinkTyped(Words)'
    BY LinkSent DEF LinkOK
<1> QED
    BY <1>1 DEF LinkOK

(* Nothing is new between p and q, or only words that are no presence.         *)
LEMMA AtSame ==
    ASSUME LinkOK, NEW p \in Peers, NEW q \in Peers,
           Heard(p, q)' =>
               /\ Heard(p, q)
               /\ <<q, p>> \in introduced' => <<q, p>> \in introduced
               /\ q \in roster[p] => q \in roster'[p]
               /\ held'[p][q] = held[p][q] /\ mine'[q] = mine[q]
               /\ \/ wire'[<<q, p>>] = wire[<<q, p>>]
                  \/ \E t \in Seq(W) : Silent(t) /\ wire'[<<q, p>>] = wire[<<q, p>>] \o t
    PROVE  /\ NamesAt(p, q) => NamesAt(p, q)'
           /\ CurrentAt(p, q) => CurrentAt(p, q)'
<1> SUFFICES ASSUME Heard(p, q)'
             PROVE  /\ NamesAt(p, q) => NamesAt(p, q)'
                    /\ CurrentAt(p, q) => CurrentAt(p, q)'
    BY DEF NamesAt, CurrentAt
<1>1. wire[<<q, p>>] \in Seq(W)
    BY DEF Heard, LinkOK, LinkTyped, Streams, W
<1> DEFINE s == wire[<<q, p>>]
           v == wire'[<<q, p>>]
<1>2. /\ Range(s) \subseteq Range(v)
      /\ Silent(s) => Silent(v)
      /\ \A presence : LastWord(s, presence) => LastWord(v, presence)
    <2>1. CASE v = s
        BY <2>1
    <2>2. CASE \E t \in Seq(W) : Silent(t) /\ v = s \o t
        <3>1. PICK t \in Seq(W) : Silent(t) /\ v = s \o t
            BY <2>2
        <3> QED
            BY <1>1, <3>1, Appending
    <2> QED
        BY <2>1, <2>2
<1>3. NamesAt(p, q) => NamesAt(p, q)'
    BY <1>2 DEF NamesAt, Announcement
<1>4. CurrentAt(p, q) => CurrentAt(p, q)'
    BY <1>2 DEF CurrentAt
<1> QED
    BY <1>3, <1>4

-----------------------------------------------------------------------------
(* What the interfaces do with a call, a frame or an event.                   *)

LEMMA ConnectCallOK ==
    ASSUME ConnectOK, NEW p \in Peers, LogIn(p) \/ LogOut(p) \/ ReportStatus(p)
    PROVE  ConnectOK' /\ UNCHANGED <<roster, introduced>>
<1>1. \A s \in Seq(BOOLEAN), b \in BOOLEAN :
        /\ Append(s, b) \in Seq(BOOLEAN) /\ Append(s, b) # <<>> /\ Last(Append(s, b)) = b
        /\ <<>> \in Seq(BOOLEAN)
        /\ s # <<>> => Last(s) \in BOOLEAN
    BY DEF Last
<1>2. CASE LogIn(p)
    BY <1>1, <1>2 DEF ConnectOK, LogIn
<1>3. CASE LogOut(p)
    BY <1>1, <1>3 DEF ConnectOK, LogOut
<1>4. CASE ReportStatus(p)
    BY <1>1, <1>4 DEF ConnectOK, ReportStatus
<1> QED
    BY <1>2, <1>3, <1>4

LEMMA ConnectEventOK ==
    ASSUME ConnectOK, NEW p \in Peers, NEW q \in Peers, NEW m,
           \/ ConnectOnMet(p, q) \/ ConnectOnLeft(p, q) \/ ConnectOnMessage(p, q, m)
           \/ ConnectRestart(p)
    PROVE  ConnectOK'
<1>1. CASE ConnectOnMet(p, q)
    BY <1>1 DEF ConnectOK, ConnectOnMet
<1>2. CASE ConnectOnLeft(p, q)
    BY <1>2 DEF ConnectOK, ConnectOnLeft
<1>3. CASE ConnectOnMessage(p, q, m)
    BY <1>3 DEF ConnectOK, ConnectOnMessage
<1>4. CASE ConnectRestart(p)
    <2>1. <<>> \in Seq(BOOLEAN)
        OBVIOUS
    <2>2. /\ loggedIn' \in [Peers -> BOOLEAN] /\ toldStatus' \in [Peers -> BOOLEAN]
          /\ roster' \in [Peers -> SUBSET Peers] /\ transitions' \in [Peers -> Seq(BOOLEAN)]
        BY <1>4, <2>1 DEF ConnectOK, ConnectRestart
    <2>3. \A r \in Peers :
            /\ loggedIn'[r] = IF r = p THEN FALSE ELSE loggedIn[r]
            /\ toldStatus'[r] = IF r = p THEN FALSE ELSE toldStatus[r]
            /\ transitions'[r] = IF r = p THEN <<>> ELSE transitions[r]
        BY <1>4 DEF ConnectOK, ConnectRestart
    <2> QED
        BY <2>2, <2>3 DEF ConnectOK
<1> QED
    BY <1>1, <1>2, <1>3, <1>4

LEMMA ConnectSame ==
    ASSUME ConnectOK, UNCHANGED connectVars
    PROVE  ConnectOK'
    BY DEF ConnectOK, connectVars

(* The game learns an update after all before it.                             *)
LEMMA OneMore ==
    ASSUME NEW s \in SUBSET Peers, NEW us \in Seq(Updates), NEW u \in Updates
    PROVE  /\ Append(us, u) \in Seq(Updates)
           /\ u.friend => ToldAll(s, Append(us, u)) = ToldAll(s, us) \cup {u.who}
           /\ ~u.friend => ToldAll(s, Append(us, u)) = ToldAll(s, us) \ {u.who}
<1> DEFINE n == Len(us)
           vs == Append(us, u)
<1>1. /\ n \in Nat /\ DOMAIN us = 1 .. n /\ DOMAIN vs = 1 .. n + 1 /\ vs \in Seq(Updates)
      /\ vs[n + 1] = u
      /\ \A i \in 1 .. n : vs[i] = us[i] /\ us[i] \in Updates /\ i \in 1 .. n + 1 /\ n + 1 > i
      /\ \A i \in 1 .. n + 1 : i \in 1 .. n \/ i = n + 1
      /\ n + 1 \in 1 .. n + 1 /\ \A i \in 1 .. n + 1 : ~(i > n + 1)
    OBVIOUS
<1>2. \A v \in Updates, q \in Peers : v = [who |-> q, friend |-> TRUE] <=> v.who = q /\ v.friend
    BY DEF Updates
<1> HIDE DEF vs, n
<1>3. ASSUME NEW q \in Peers, q # u.who
      PROVE  q \in ToldAll(s, vs) <=> q \in ToldAll(s, us)
    <2>1. (\A i \in DOMAIN us : us[i].who # q) <=> (\A i \in DOMAIN vs : vs[i].who # q)
        BY <1>1, <1>3
    <2>2. ASSUME NEW i \in 1 .. n
          PROVE  (\A j \in DOMAIN us : j > i => us[j].who # q)
                    <=> (\A j \in DOMAIN vs : j > i => vs[j].who # q)
        BY <1>1, <1>3, <2>2
    <2>3. vs[n + 1] # [who |-> q, friend |-> TRUE]
        BY <1>1, <1>2, <1>3
    <2>4. (\E i \in DOMAIN us : /\ us[i] = [who |-> q, friend |-> TRUE]
                                /\ \A j \in DOMAIN us : j > i => us[j].who # q)
            <=> (\E i \in DOMAIN vs : /\ vs[i] = [who |-> q, friend |-> TRUE]
                                      /\ \A j \in DOMAIN vs : j > i => vs[j].who # q)
        BY <1>1, <2>2, <2>3
    <2> QED
        BY <2>1, <2>4 DEF ToldAll
<1>4. u.who \in Peers /\ (u.who \in ToldAll(s, vs) <=> u.friend)
    <2>1. u.who \in Peers /\ u.friend \in BOOLEAN
        BY DEF Updates
    <2>2. ~\A i \in DOMAIN vs : vs[i].who # u.who
        BY <1>1
    <2>3. CASE u.friend
        <3>1. vs[n + 1] = [who |-> u.who, friend |-> TRUE]
            BY <1>1, <1>2, <2>1, <2>3
        <3> QED
            BY <1>1, <2>1, <2>3, <3>1 DEF ToldAll
    <2>4. CASE ~u.friend
        <3>1. \A i \in 1 .. n : ~\A j \in DOMAIN vs : j > i => vs[j].who # u.who
            BY <1>1
        <3>2. vs[n + 1] # [who |-> u.who, friend |-> TRUE]
            BY <1>1, <1>2, <2>1, <2>4
        <3> QED
            BY <1>1, <2>1, <2>2, <2>4, <3>1, <3>2 DEF ToldAll
    <2> QED
        BY <2>1, <2>3, <2>4
<1>5. \A q \in ToldAll(s, vs) \cup ToldAll(s, us) : q \in Peers
    BY DEF ToldAll
<1> QED
    BY <1>1, <1>3, <1>4, <1>5 DEF vs

LEMMA NothingMore ==
    ASSUME NEW s \in SUBSET Peers
    PROVE  ToldAll(s, <<>>) = s
    BY DEF ToldAll

(* The agreement of friends and user info is kept peer by peer.                *)
LEMMA FriendsFrom ==
    ASSUME /\ friends' \in [Peers -> SUBSET Peers] /\ shown' \in [Peers -> SUBSET Peers]
           /\ users' \in [Peers -> SUBSET Peers] /\ updates' \in [Peers -> Seq(Updates)],
           \A r \in Peers : ToldAll(shown'[r], updates'[r]) = friends'[r]
    PROVE  FriendsOK'
    BY DEF FriendsOK, ToldAll

LEMMA FriendsEventOK ==
    ASSUME FriendsOK, NEW p \in Peers, NEW q \in Peers,
           FriendsOnMet(p, q) \/ FriendsOnLeft(p, q) \/ FriendsRestart(p) \/ ReportFriends(p)
    PROVE  FriendsOK'
<1>1. CASE FriendsOnMet(p, q)
    <2> DEFINE u == [who |-> q, friend |-> TRUE]
               us == IF q \in friends[p] THEN updates[p] ELSE Append(updates[p], u)
    <2>1. u \in Updates /\ u.who = q /\ u.friend
        BY DEF Updates
    <2> HIDE DEF u
    <2>2. us \in Seq(Updates) /\ ToldAll(shown[p], us) = friends[p] \cup {q}
        <3>1. CASE q \in friends[p]
            BY <3>1 DEF FriendsOK
        <3>2. CASE q \notin friends[p]
            <4>1. shown[p] \in SUBSET Peers /\ updates[p] \in Seq(Updates)
                BY DEF FriendsOK
            <4>2. /\ Append(updates[p], u) \in Seq(Updates)
                  /\ ToldAll(shown[p], Append(updates[p], u)) = ToldAll(shown[p], updates[p]) \cup {q}
                BY <2>1, <4>1, OneMore
            <4> QED
                BY <3>2, <4>2 DEF FriendsOK
        <3> QED
            BY <3>1, <3>2
    <2>3. updates' = [updates EXCEPT ![p] = us]
        BY <1>1 DEF FriendsOnMet, u
    <2> HIDE DEF us
    <2>4. updates' \in [Peers -> Seq(Updates)]
        BY <2>2, <2>3 DEF FriendsOK
    <2>5. \A r \in Peers : updates'[r] = IF r = p THEN us ELSE updates[r]
        BY <2>3 DEF FriendsOK
    <2>6. /\ friends' \in [Peers -> SUBSET Peers] /\ users' \in [Peers -> SUBSET Peers]
          /\ shown' = shown
          /\ \A r \in Peers : friends'[r] = IF r = p THEN friends[p] \cup {q} ELSE friends[r]
        BY <1>1 DEF FriendsOK, FriendsOnMet
    <2> QED
        <3>1. ASSUME NEW r \in Peers
              PROVE  ToldAll(shown'[r], updates'[r]) = friends'[r]
            BY <2>2, <2>5, <2>6 DEF FriendsOK
        <3>2. shown' \in [Peers -> SUBSET Peers]
            BY <2>6 DEF FriendsOK
        <3> QED
            BY <2>4, <2>6, <3>1, <3>2, FriendsFrom
<1>2. CASE FriendsOnLeft(p, q)
    <2> DEFINE u == [who |-> q, friend |-> FALSE]
               us == IF q \in friends[p] THEN Append(updates[p], u) ELSE updates[p]
    <2>1. u \in Updates /\ u.who = q /\ ~u.friend
        BY DEF Updates
    <2> HIDE DEF u
    <2>2. us \in Seq(Updates) /\ ToldAll(shown[p], us) = friends[p] \ {q}
        <3>1. CASE q \in friends[p]
            <4>1. shown[p] \in SUBSET Peers /\ updates[p] \in Seq(Updates)
                BY DEF FriendsOK
            <4>2. /\ Append(updates[p], u) \in Seq(Updates)
                  /\ ToldAll(shown[p], Append(updates[p], u)) = ToldAll(shown[p], updates[p]) \ {q}
                BY <2>1, <4>1, OneMore
            <4> QED
                BY <3>1, <4>2 DEF FriendsOK
        <3>2. CASE q \notin friends[p]
            BY <3>2 DEF FriendsOK
        <3> QED
            BY <3>1, <3>2
    <2>3. updates' = [updates EXCEPT ![p] = us]
        BY <1>2 DEF FriendsOnLeft, u
    <2> HIDE DEF us
    <2>4. updates' \in [Peers -> Seq(Updates)]
        BY <2>2, <2>3 DEF FriendsOK
    <2>5. \A r \in Peers : updates'[r] = IF r = p THEN us ELSE updates[r]
        BY <2>3 DEF FriendsOK
    <2>6. /\ friends' \in [Peers -> SUBSET Peers] /\ users' \in [Peers -> SUBSET Peers]
          /\ shown' = shown
          /\ \A r \in Peers : friends'[r] = IF r = p THEN friends[p] \ {q} ELSE friends[r]
        BY <1>2 DEF FriendsOK, FriendsOnLeft
    <2> QED
        <3>1. ASSUME NEW r \in Peers
              PROVE  ToldAll(shown'[r], updates'[r]) = friends'[r]
            BY <2>2, <2>5, <2>6 DEF FriendsOK
        <3>2. shown' \in [Peers -> SUBSET Peers]
            BY <2>6 DEF FriendsOK
        <3> QED
            BY <2>4, <2>6, <3>1, <3>2, FriendsFrom
<1>3. CASE FriendsRestart(p)
    <2>1. <<>> \in Seq(Updates) /\ ToldAll({}, <<>>) = {}
        BY NothingMore
    <2>2. /\ friends' \in [Peers -> SUBSET Peers] /\ users' \in [Peers -> SUBSET Peers]
          /\ shown' \in [Peers -> SUBSET Peers] /\ updates' \in [Peers -> Seq(Updates)]
          /\ friends'[p] = {} /\ shown'[p] = {} /\ updates'[p] = <<>>
          /\ \A r \in Peers \ {p} : /\ friends'[r] = friends[r] /\ shown'[r] = shown[r]
                                    /\ updates'[r] = updates[r]
        BY <1>3, <2>1 DEF FriendsOK, FriendsRestart
    <2> QED
        <3>1. ASSUME NEW r \in Peers
              PROVE  ToldAll(shown'[r], updates'[r]) = friends'[r]
            BY <2>1, <2>2 DEF FriendsOK
        <3> QED
            BY <2>2, <3>1, FriendsFrom
<1>4. CASE ReportFriends(p)
    <2>1. <<>> \in Seq(Updates) /\ \A x \in SUBSET Peers : ToldAll(x, <<>>) = x
        BY NothingMore
    <2>2. ToldAll(shown[p], updates[p]) = friends[p]
        BY DEF FriendsOK
    <2>3. shown' = [shown EXCEPT ![p] = friends[p]]
        BY <1>4, <2>2 DEF ReportFriends
    <2>4. /\ shown' \in [Peers -> SUBSET Peers] /\ updates' \in [Peers -> Seq(Updates)]
          /\ shown'[p] = friends[p] /\ updates'[p] = <<>>
          /\ friends' = friends /\ users' = users
          /\ \A r \in Peers \ {p} : shown'[r] = shown[r] /\ updates'[r] = updates[r]
        BY <1>4, <2>1, <2>3 DEF FriendsOK, ReportFriends
    <2>5. ToldAll(friends[p], <<>>) = friends[p]
        BY <2>1 DEF FriendsOK
    <2> QED
        <3>1. ASSUME NEW r \in Peers
              PROVE  ToldAll(shown'[r], updates'[r]) = friends'[r]
            BY <2>4, <2>5 DEF FriendsOK
        <3>2. users' \in [Peers -> SUBSET Peers] /\ friends' \in [Peers -> SUBSET Peers]
            BY <2>4 DEF FriendsOK
        <3> QED
            BY <2>4, <3>1, <3>2, FriendsFrom
<1> QED
    BY <1>1, <1>2, <1>3, <1>4

LEMMA FriendsSame ==
    ASSUME FriendsOK, UNCHANGED friendsVars
    PROVE  FriendsOK'
    BY DEF FriendsOK, friendsVars, ToldAll

LEMMA DraftOK ==
    ASSUME PresenceOK, NEW p \in Peers,
           \/ CreatePresenceModification(p) \/ ModificationRelease(p)
           \/ \E status \in Statuses : ModificationSetStatus(p, status)
           \/ \E batch \in Batches : ModificationSetData(p, batch)
           \/ \E batch \in Batches : ModificationDeleteData(p, batch)
    PROVE  PresenceOK' /\ UNCHANGED <<mine, proved, held>>
<1>1. draft[p] \in Drafts
    BY DEF PresenceOK
<1>2. \E d \in Drafts : draft' = [draft EXCEPT ![p] = d]
    <2>1. CASE CreatePresenceModification(p)
        <3>1. [NoDraft EXCEPT !.open = TRUE] \in Drafts
            BY DEF Drafts, NoDraft
        <3> QED
            BY <2>1, <3>1 DEF CreatePresenceModification
    <2>2. CASE ModificationRelease(p)
        <3>1. NoDraft \in Drafts
            BY DEF Drafts, NoDraft
        <3> QED
            BY <2>2, <3>1 DEF ModificationRelease
    <2>3. ASSUME NEW status \in Statuses, ModificationSetStatus(p, status)
          PROVE  \E d \in Drafts : draft' = [draft EXCEPT ![p] = d]
        <3>1. [draft[p] EXCEPT !.status = status] \in Drafts
            BY <1>1 DEF Drafts
        <3> QED
            BY <2>3, <3>1 DEF ModificationSetStatus
    <2>4. ASSUME NEW batch \in Batches, ModificationSetData(p, batch)
          PROVE  \E d \in Drafts : draft' = [draft EXCEPT ![p] = d]
        <3>1. [draft[p] EXCEPT !.set = @ \cup batch] \in Drafts
            BY <1>1 DEF Drafts, Batches
        <3> QED
            BY <2>4, <3>1 DEF ModificationSetData
    <2>5. ASSUME NEW batch \in Batches, ModificationDeleteData(p, batch)
          PROVE  \E d \in Drafts : draft' = [draft EXCEPT ![p] = d]
        <3>1. [draft[p] EXCEPT !.deleted = @ \cup batch] \in Drafts
            BY <1>1 DEF Drafts, Batches
        <3> QED
            BY <2>5, <3>1 DEF ModificationDeleteData
    <2> QED
        BY <2>1, <2>2, <2>3, <2>4, <2>5
<1>3. UNCHANGED <<mine, proved, held, queries, seen>>
    BY DEF CreatePresenceModification, ModificationRelease, ModificationSetStatus,
           ModificationSetData, ModificationDeleteData
<1>4. draft' \in [Peers -> Drafts]
    BY <1>2 DEF PresenceOK
<1> QED
    BY <1>3, <1>4 DEF PresenceOK

LEMMA MergedOK ==
    ASSUME PresenceOK, NEW p \in Peers
    PROVE  /\ Merged(mine[p], draft[p]) \in Presences
           /\ Merged(mine[p], draft[p]).status \in {mine[p].status} \cup Statuses
<1>1. mine[p] \in Presences /\ draft[p] \in Drafts
    BY DEF PresenceOK
<1> QED
    BY <1>1, PresenceAssumption DEF Presences, Drafts, Merged

LEMMA PresenceCallOK ==
    ASSUME PresenceOK, NEW p \in Peers,
           \/ SetPresence(p)
           \/ \E t \in Peers : QueryPresence(p, t) \/ QueryAnswered(p, t) \/ QueryTimedOut(p, t)
    PROVE  PresenceOK' /\ UNCHANGED <<proved, held>>
<1>1. CASE SetPresence(p)
    <2>1. UNCHANGED <<draft, proved, held, queries, seen>>
        BY <1>1 DEF SetPresence
    <2>2. mine' = mine \/ mine' = [mine EXCEPT ![p] = Merged(mine[p], draft[p])]
        BY <1>1 DEF SetPresence
    <2>3. mine' \in [Peers -> Presences]
        BY <2>2, MergedOK DEF PresenceOK
    <2> QED
        BY <2>1, <2>3 DEF PresenceOK
<1>2. ASSUME NEW t \in Peers, QueryPresence(p, t) \/ QueryAnswered(p, t) \/ QueryTimedOut(p, t)
      PROVE  PresenceOK' /\ UNCHANGED <<proved, held>>
    <2>1. UNCHANGED <<mine, draft, proved, held, seen>>
        BY <1>2 DEF QueryPresence, QueryAnswered, QueryTimedOut
    <2>2. \E x \in {"none", "asked", "found"} : queries' = [queries EXCEPT ![p][t] = x]
        BY <1>2 DEF QueryPresence, QueryAnswered, QueryTimedOut
    <2>3. queries' \in [Peers -> [Peers -> {"none", "asked", "found"}]]
        BY <2>2 DEF PresenceOK
    <2> QED
        BY <2>1, <2>3 DEF PresenceOK
<1> QED
    BY <1>1, <1>2

LEMMA PresenceEventOK ==
    ASSUME PresenceOK, NEW p \in Peers, NEW q \in Peers,
           PresenceOnMet(p, q) \/ PresenceOnLeft(p, q) \/ PresenceRestart(p)
    PROVE  PresenceOK'
<1>1. CASE PresenceOnMet(p, q)
    <2>1. /\ proved' \in [Peers -> SUBSET Peers]
          /\ \A r \in Peers : proved[r] \subseteq proved'[r]
        BY <1>1 DEF PresenceOK, PresenceOnMet
    <2>2. UNCHANGED <<mine, draft, held, queries, seen>>
        BY <1>1 DEF PresenceOnMet
    <2> QED
        BY <2>1, <2>2 DEF PresenceOK
<1>2. CASE PresenceOnLeft(p, q)
    <2>1. /\ proved' \in [Peers -> SUBSET Peers]
          /\ held' \in [Peers -> [Peers -> Presences \cup {NoPresence}]]
          /\ \A r, t \in Peers : proved'[r] = IF r = p THEN proved[r] \ {q} ELSE proved[r]
          /\ \A r, t \in Peers : held'[r][t] = IF r = p /\ t = q THEN NoPresence ELSE held[r][t]
        BY <1>2 DEF PresenceOK, PresenceOnLeft
    <2>2. UNCHANGED <<mine, draft, queries, seen>>
        BY <1>2 DEF PresenceOnLeft
    <2> QED
        BY <2>1, <2>2 DEF PresenceOK
<1>3. CASE PresenceRestart(p)
    <2>1. Seed \in Presences /\ NoDraft \in Drafts
        BY PresenceAssumption DEF Seed, Presences, NoDraft, Drafts
    <2>2. mine' \in [Peers -> Presences] /\ draft' \in [Peers -> Drafts]
        BY <1>3, <2>1 DEF PresenceOK, PresenceRestart
    <2>3. /\ proved' \in [Peers -> SUBSET Peers]
          /\ \A r \in Peers : proved'[r] = IF r = p THEN {} ELSE proved[r]
        BY <1>3 DEF PresenceOK, PresenceRestart
    <2>4. /\ held' \in [Peers -> [Peers -> Presences \cup {NoPresence}]]
          /\ \A r, t \in Peers : held'[r][t] = IF r = p THEN NoPresence ELSE held[r][t]
        BY <1>3 DEF PresenceOK, PresenceRestart
    <2>5. /\ seen' \in [Peers -> [Peers -> Presences \cup {NoPresence}]]
          /\ \A r, t \in Peers : seen'[r][t] = IF r = p THEN NoPresence ELSE seen[r][t]
        BY <1>3 DEF PresenceOK, PresenceRestart
    <2>6. queries' \in [Peers -> [Peers -> {"none", "asked", "found"}]]
        BY <1>3 DEF PresenceOK, PresenceRestart
    <2> QED
        BY <2>2, <2>3, <2>4, <2>5, <2>6 DEF PresenceOK
<1> QED
    BY <1>1, <1>2, <1>3

(* A word of q.  What is held of it is its word if it is still there.          *)
LEMMA PresenceMessageOK ==
    ASSUME PresenceOK, NEW p \in Peers, NEW q \in Peers, NEW m \in Words,
           PresenceOnMessage(p, q, m)
    PROVE  /\ PresenceOK' /\ UNCHANGED <<mine, proved>>
           /\ \A r, t \in Peers : (r # p \/ t # q) => held'[r][t] = held[r][t]
           /\ \/ held' = held /\ (Tells(m) => q \notin proved[p] \/ ~WithinCaps(m.body))
              \/ Tells(m) /\ held'[p][q] = m.body
<1>1. CASE m.type # "presence" \/ ~WithinCaps(m.body) \/ q \notin proved[p]
    <2>1. UNCHANGED presenceVars
        BY <1>1 DEF PresenceOnMessage, OnPresenceInfo
    <2> QED
        BY <1>1, <2>1 DEF PresenceOK, presenceVars, Tells
<1>2. CASE m.type = "presence" /\ WithinCaps(m.body) /\ q \in proved[p]
    <2> DEFINE presence == m.body
    <2>1. presence \in Presences
        BY <1>2 DEF Words
    <2>2. /\ held' = [held EXCEPT ![p][q] = presence]
          /\ seen' = [seen EXCEPT ![p][q] =
                        IF held[p][q] # NoPresence /\ PresenceEqual(held[p][q], presence)
                        THEN @ ELSE presence]
          /\ queries' = [queries EXCEPT ![p][q] = IF @ = "asked" THEN "found" ELSE @]
          /\ UNCHANGED <<mine, draft, proved>>
        BY <1>2 DEF PresenceOnMessage, OnPresenceInfo
    <2> HIDE DEF presence
    <2>3. /\ held' \in [Peers -> [Peers -> Presences \cup {NoPresence}]]
          /\ \A r, t \in Peers : held'[r][t] = IF r = p /\ t = q THEN presence ELSE held[r][t]
        BY <2>1, <2>2 DEF PresenceOK
    <2>4. seen' = [seen EXCEPT ![p][q] = presence]
        <3>1. CASE held[p][q] # NoPresence /\ held[p][q] = presence
            <4>1. seen[p][q] = presence
                BY <3>1 DEF PresenceOK
            <4>2. seen' = [seen EXCEPT ![p][q] = @]
                BY <2>2, <3>1 DEF PresenceEqual
            <4> QED
                BY <4>1, <4>2
        <3>2. CASE ~(held[p][q] # NoPresence /\ held[p][q] = presence)
            BY <2>2, <3>2 DEF PresenceEqual
        <3> QED
            BY <3>1, <3>2
    <2>5. /\ seen' \in [Peers -> [Peers -> Presences \cup {NoPresence}]]
          /\ \A r, t \in Peers : seen'[r][t] = IF r = p /\ t = q THEN presence ELSE seen[r][t]
        BY <2>1, <2>4 DEF PresenceOK
    <2>6. queries' \in [Peers -> [Peers -> {"none", "asked", "found"}]]
        BY <2>2 DEF PresenceOK
    <2>7. PresenceOK'
        BY <1>2, <2>2, <2>3, <2>5, <2>6 DEF PresenceOK
    <2> QED
        BY <1>2, <2>2, <2>3, <2>7 DEF Tells, presence
<1> QED
    BY <1>1, <1>2

LEMMA PresenceSame ==
    ASSUME PresenceOK, UNCHANGED presenceVars
    PROVE  PresenceOK'
    BY DEF PresenceOK, presenceVars

-----------------------------------------------------------------------------
(* One step.                                                               *)

Kept == IInv' /\ (CurrentOK => CurrentOK')

(* What is neither said nor heard changes nothing between the peers.           *)
LEMMA QuietKept ==
    ASSUME IInv, UNCHANGED <<up, accepting, wire, late, mine, held, proved, roster, introduced>>,
           UNCHANGED <<friends, users>>, ConnectOK', FriendsOK', PresenceOK'
    PROVE  Kept
<1>1. LinkOK'
    BY LinkOKSent DEF IInv, LinkOK, LinkTyped
<1>2. FollowMesh'
    BY DEF IInv, FollowMesh, Met
<1>3. ASSUME NEW p \in Peers, NEW q \in Peers
      PROVE  /\ NamesAt(p, q) => NamesAt(p, q)'
             /\ CurrentAt(p, q) => CurrentAt(p, q)'
    BY AtSame DEF IInv, Heard
<1>4. NamesOK'
    BY <1>3 DEF IInv, NamesOK
<1>5. CurrentOK => CurrentOK'
    BY <1>3 DEF CurrentOK, WithinCaps
<1> QED
    BY <1>1, <1>2, <1>4, <1>5 DEF IInv, Kept

LEMMA ConnectCallKept ==
    ASSUME IInv, NEW p \in Peers, ConnectCall(p)
    PROVE  Kept
<1>1. ConnectOK' /\ UNCHANGED <<roster, introduced>>
    BY ConnectCallOK DEF ConnectCall, IInv
<1>2. FriendsOK' /\ PresenceOK'
    BY FriendsSame, PresenceSame DEF ConnectCall, IInv
<1> QED
    BY <1>1, <1>2, QuietKept DEF ConnectCall, friendsVars, presenceVars, linkVars

LEMMA DraftCallKept ==
    ASSUME IInv, NEW p \in Peers, DraftCall(p)
    PROVE  Kept
<1>1. PresenceOK' /\ UNCHANGED <<mine, proved, held>>
    BY DraftOK DEF DraftCall, IInv
<1>2. FriendsOK' /\ ConnectOK'
    BY FriendsSame, ConnectSame DEF DraftCall, IInv
<1> QED
    BY <1>1, <1>2, QuietKept DEF DraftCall, friendsVars, connectVars, linkVars

LEMMA TickKept ==
    ASSUME IInv, NEW p \in Peers, Tick(p)
    PROVE  Kept
<1>1. CASE ReportStatus(p) /\ UNCHANGED <<friendsVars, presenceVars, linkVars>>
    <2>1. ConnectOK' /\ UNCHANGED <<roster, introduced>>
        BY <1>1, ConnectCallOK DEF IInv
    <2>2. FriendsOK' /\ PresenceOK'
        BY <1>1, FriendsSame, PresenceSame DEF IInv
    <2> QED
        BY <1>1, <2>1, <2>2, QuietKept DEF friendsVars, presenceVars, linkVars
<1>2. CASE ReportFriends(p) /\ UNCHANGED <<connectVars, presenceVars, linkVars>>
    <2>1. FriendsOK' /\ UNCHANGED <<friends, users>>
        BY <1>2, FriendsEventOK DEF IInv, ReportFriends
    <2>2. ConnectOK' /\ PresenceOK'
        BY <1>2, ConnectSame, PresenceSame DEF IInv
    <2> QED
        BY <1>2, <2>1, <2>2, QuietKept DEF connectVars, presenceVars, linkVars
<1>3. ASSUME NEW t \in Peers, QueryAnswered(p, t) \/ QueryTimedOut(p, t),
             UNCHANGED <<connectVars, friendsVars, linkVars>>
      PROVE  Kept
    <2>1. PresenceOK' /\ UNCHANGED <<proved, held>>
        BY <1>3, PresenceCallOK DEF IInv
    <2>2. ConnectOK' /\ FriendsOK'
        BY <1>3, ConnectSame, FriendsSame DEF IInv
    <2>3. UNCHANGED mine
        BY <1>3 DEF QueryAnswered, QueryTimedOut
    <2> QED
        BY <1>3, <2>1, <2>2, <2>3, QuietKept DEF connectVars, friendsVars, linkVars
<1> QED
    BY <1>1, <1>2, <1>3 DEF Tick

(* Everyone whom p is connected to is told.                                   *)
LEMMA PresenceCallKept ==
    ASSUME IInv, NEW p \in Peers, PresenceCall(p)
    PROVE  IInv' /\ (Statuses \subseteq Known /\ CurrentOK => CurrentOK')
<1>1. UNCHANGED <<connectVars, friendsVars, up, accepting, air, late>>
    BY DEF PresenceCall
<1>2. ConnectOK' /\ FriendsOK'
    BY <1>1, ConnectSame, FriendsSame DEF IInv
<1>3. PresenceOK' /\ UNCHANGED <<proved, held>>
    BY PresenceCallOK DEF PresenceCall, IInv
<1>4. FollowMesh'
    BY <1>1, <1>3 DEF IInv, FollowMesh, Met, friendsVars
<1>5. Streams(wire, Words)
    BY DEF IInv, LinkOK, LinkTyped
<1>6. CASE SetPresence(p)
    <2> DEFINE merged == Merged(mine[p], draft[p])
               m == Telling(merged)
    <2>1. CASE UNCHANGED <<mine, wire>>
        BY <1>1, <1>2, <1>3, <2>1, QuietKept DEF Kept, connectVars, friendsVars
    <2>2. CASE /\ ~(Cardinality(merged.keys) > MaxKeys)
               /\ mine' = [mine EXCEPT ![p] = merged]
               /\ wire' = ToAll(wire, p, m)
        <3>1. merged \in Presences /\ merged.status \in {mine[p].status} \cup Statuses
            BY MergedOK DEF IInv
        <3>2. m \in Words /\ <<m>> \in Seq(W) /\ LastWord(<<m>>, merged)
            BY <3>1, WordsOf, One
        <3>3. \A r \in Peers : mine'[r] = IF r = p THEN merged ELSE mine[r]
            BY <2>2 DEF IInv, PresenceOK
        <3> HIDE DEF m, merged
        <3>4. /\ Streams(wire', Words)
              /\ \A r, q \in Peers : r # q =>
                    wire'[<<r, q>>] = IF r = p /\ <<p, q>> \in up /\ Reads(q, p)
                                      THEN wire[<<r, q>>] \o <<m>> ELSE wire[<<r, q>>]
            BY <1>5, <2>2, <3>2, ToAllOK
        <3>5. LinkOK'
            BY <1>1, <3>4, LinkOKSent DEF IInv
        <3>6. ASSUME NEW a \in Peers, NEW b \in Peers, b # p
              PROVE  /\ NamesAt(a, b) => NamesAt(a, b)'
                     /\ CurrentAt(a, b) => CurrentAt(a, b)'
            <4>1. Heard(a, b)' => a # b /\ Heard(a, b)
                BY <1>1 DEF Heard, IInv, LinkOK, LinkTyped, Pairs
            <4> QED
                BY <1>1, <1>3, <3>3, <3>4, <3>6, <4>1, AtSame DEF IInv, connectVars
        <3>7. ASSUME NEW a \in Peers, Heard(a, p)'
              PROVE  /\ wire[<<p, a>>] \in Seq(W)
                     /\ wire'[<<p, a>>] = wire[<<p, a>>] \o <<m>>
                     /\ Heard(a, p)
            <4>1. Heard(a, p) /\ a # p /\ <<p, a>> \in Pairs
                BY <1>1, <3>7 DEF Heard, IInv, LinkOK, LinkTyped, Pairs
            <4> QED
                BY <1>5, <3>4, <4>1 DEF Heard, Reads, Streams, W
        <3>8. ASSUME NEW a \in Peers, NamesAt(a, p)
              PROVE  NamesAt(a, p)'
            <4>1. ASSUME Heard(a, p)'
                  PROVE  Range(wire[<<p, a>>]) \subseteq Range(wire'[<<p, a>>])
                <5>1. /\ wire[<<p, a>>] \in Seq(W)
                      /\ wire'[<<p, a>>] = wire[<<p, a>>] \o <<m>>
                    BY <3>7, <4>1
                <5> QED
                    BY <3>2, <5>1, Appending
            <4> QED
                <5>1. roster' = roster /\ introduced' = introduced
                    BY <1>1 DEF connectVars
                <5>2. Heard(a, p)' => Heard(a, p)
                    BY <3>7
                <5> QED
                    BY <3>8, <4>1, <5>1, <5>2 DEF NamesAt, Announcement
        <3>9. ASSUME NEW a \in Peers
              PROVE  CurrentAt(a, p)'
            <4>1. ASSUME Heard(a, p)'
                  PROVE  LastWord(wire'[<<p, a>>], merged)
                <5>1. /\ wire[<<p, a>>] \in Seq(W)
                      /\ wire'[<<p, a>>] = wire[<<p, a>>] \o <<m>>
                    BY <3>7, <4>1
                <5>2. LastWord(wire[<<p, a>>] \o <<m>>, merged)
                    BY <3>2, <5>1, Appending
                <5> QED
                    BY <5>1, <5>2
            <4> QED
                BY <3>3, <4>1 DEF CurrentAt
        <3>10. NamesOK'
            BY <3>6, <3>8 DEF NamesOK, IInv
        <3>11. ASSUME Statuses \subseteq Known, CurrentOK
               PROVE  CurrentOK'
            <4>1. IsFiniteSet(merged.keys)
                BY <3>1, PresenceAssumption, FS_Subset DEF Presences
            <4>2. Cardinality(merged.keys) \in Nat
                BY <4>1, FS_CardinalityType
            <4>3. Cardinality(merged.keys) <= MaxKeys
                BY <2>2, <4>2, PresenceAssumption
            <4>4. WithinCaps(merged)
                BY <3>1, <3>11, <4>3 DEF WithinCaps, CurrentOK
            <4>5. \A r \in Peers : WithinCaps(mine'[r])
                BY <3>3, <3>11, <4>4 DEF CurrentOK
            <4> QED
                BY <3>6, <3>9, <3>11, <4>5 DEF CurrentOK, WithinCaps
        <3> QED
            BY <1>2, <1>3, <1>4, <3>5, <3>10, <3>11 DEF IInv
    <2> QED
        BY <1>6, <2>1, <2>2 DEF SetPresence
<1>7. ASSUME NEW t \in Peers, QueryPresence(p, t)
      PROVE  Kept
    <2> DEFINE m == [type |-> "who", body |-> t]
    <2>1. m \in Words /\ <<m>> \in Seq(W) /\ Silent(<<m>>)
        BY WordsOf, One
    <2>2. UNCHANGED mine /\ (UNCHANGED wire \/ wire' = ToAll(wire, p, m))
        BY <1>7 DEF QueryPresence
    <2> HIDE DEF m
    <2>3. CASE UNCHANGED wire
        BY <1>1, <1>2, <1>3, <2>2, <2>3, QuietKept DEF connectVars, friendsVars
    <2>4. CASE wire' = ToAll(wire, p, m)
        <3>1. /\ Streams(wire', Words)
              /\ \A r, q \in Peers : r # q =>
                    wire'[<<r, q>>] = wire[<<r, q>>] \/ wire'[<<r, q>>] = wire[<<r, q>>] \o <<m>>
            <4> DEFINE x == ToAll(wire, p, m)
            <4>1. /\ Streams(x, Words)
                  /\ \A r, q \in Peers : r # q =>
                        x[<<r, q>>] = IF r = p /\ <<p, q>> \in up /\ Reads(q, p)
                                      THEN wire[<<r, q>>] \o <<m>> ELSE wire[<<r, q>>]
                BY <1>5, <2>1, ToAllOK
            <4>2. wire' = x
                BY <2>4
            <4> HIDE DEF x
            <4> QED
                BY <4>1, <4>2
        <3>2. LinkOK'
            BY <1>1, <3>1, LinkOKSent DEF IInv
        <3>3. ASSUME NEW a \in Peers, NEW b \in Peers
              PROVE  /\ NamesAt(a, b) => NamesAt(a, b)'
                     /\ CurrentAt(a, b) => CurrentAt(a, b)'
            <4>1. Heard(a, b)' => a # b /\ Heard(a, b)
                BY <1>1 DEF Heard, IInv, LinkOK, LinkTyped, Pairs
            <4> QED
                BY <1>1, <1>3, <2>1, <2>2, <3>1, <4>1, AtSame DEF IInv, connectVars
        <3>4. NamesOK'
            BY <3>3 DEF NamesOK, IInv
        <3>5. CurrentOK => CurrentOK'
            BY <2>2, <3>3 DEF CurrentOK, WithinCaps
        <3> QED
            BY <1>2, <1>3, <1>4, <3>2, <3>4, <3>5 DEF IInv, Kept
    <2> QED
        BY <2>2, <2>3, <2>4
<1> QED
    BY <1>6, <1>7 DEF PresenceCall, Kept

(* What follows the mesh follows p when it meets or leaves q.                  *)
LEMMA Follows ==
    ASSUME IInv, NEW p \in Peers, NEW q \in Peers,
           \/ /\ up' = up \cup {<<p, q>>} /\ FriendsOnMet(p, q) /\ PresenceOnMet(p, q)
           \/ /\ up' = up \ {<<p, q>>} /\ FriendsOnLeft(p, q) /\ PresenceOnLeft(p, q)
    PROVE  FollowMesh'
<1>1. CASE up' = up \cup {<<p, q>>} /\ FriendsOnMet(p, q) /\ PresenceOnMet(p, q)
    <2>1. \A r \in Peers :
            /\ friends'[r] = IF r = p THEN friends[p] \cup {q} ELSE friends[r]
            /\ users'[r] = IF r = p THEN users[p] \cup {q} ELSE users[r]
            /\ proved'[r] = IF r = p THEN proved[p] \cup {q} ELSE proved[r]
        BY <1>1 DEF IInv, FriendsOK, PresenceOK, FriendsOnMet, PresenceOnMet
    <2>2. \A r \in Peers : Met(r)' = IF r = p THEN Met(p) \cup {q} ELSE Met(r)
        BY <1>1 DEF Met
    <2> QED
        BY <2>1, <2>2 DEF IInv, FollowMesh
<1>2. CASE up' = up \ {<<p, q>>} /\ FriendsOnLeft(p, q) /\ PresenceOnLeft(p, q)
    <2>1. \A r \in Peers :
            /\ friends'[r] = IF r = p THEN friends[p] \ {q} ELSE friends[r]
            /\ users'[r] = IF r = p THEN users[p] \ {q} ELSE users[r]
            /\ proved'[r] = IF r = p THEN proved[p] \ {q} ELSE proved[r]
        BY <1>2 DEF IInv, FriendsOK, PresenceOK, FriendsOnLeft, PresenceOnLeft
    <2>2. \A r \in Peers : Met(r)' = IF r = p THEN Met(p) \ {q} ELSE Met(r)
        BY <1>2 DEF Met
    <2> QED
        BY <2>1, <2>2 DEF IInv, FollowMesh
<1> QED
    BY <1>1, <1>2

(* Whoever reads what p writes from now on comes to its hello.                 *)
LEMMA MeetKept ==
    ASSUME IInv, NEW p \in Peers, NEW q \in Peers, p # q, Meet(p, q)
    PROVE  Kept
<1> DEFINE hello == Introduction(p) \o <<Telling(mine[p])>>
<1>1. /\ ConnectOnMet(p, q) /\ FriendsOnMet(p, q) /\ PresenceOnMet(p, q) /\ late[p] = <<>>
      /\ MeetAsDialler(p, q, hello) \/ MeetAsAcceptor(p, q, hello)
    BY DEF Meet
<1>2. /\ hello \in Seq(Words) /\ hello \in Seq(W)
      /\ LastWord(hello, mine[p])
      /\ loggedIn[p] => Announcement(p) \in Range(hello)
    BY HelloOK DEF IInv
<1> HIDE DEF hello
<1>3. ConnectOK' /\ FriendsOK' /\ PresenceOK'
    BY <1>1, ConnectEventOK, FriendsEventOK, PresenceEventOK DEF IInv
<1>4. up' = up \cup {<<p, q>>} /\ UNCHANGED late
    BY <1>1 DEF MeetAsDialler, MeetAsAcceptor
<1>5. FollowMesh'
    BY <1>1, <1>4, Follows
<1>6. /\ <<p, q>> \in Pairs /\ <<q, p>> \in Pairs
      /\ up \subseteq Pairs /\ accepting \subseteq Pairs /\ up \cap accepting = {}
      /\ wire \in [Pairs -> Seq(W)] /\ DOMAIN late = Peers
      /\ \A r \in Peers : late[r] \in Seq(Envelopes(r, Words))
      /\ \A r \in Peers : \A i \in DOMAIN late[r] : <<r, late[r][i].from>> \notin up
    BY DEF IInv, LinkOK, LinkTyped, Pairs, Streams, W
(* Only q reads anything new.                                                 *)
<1>7. /\ accepting' \subseteq Pairs /\ up' \cap accepting' = {}
      /\ wire' \in [Pairs -> Seq(W)]
      /\ \A a, b \in Peers : (a # q \/ b # p) /\ Heard(a, b)' =>
            Heard(a, b) /\ wire'[<<b, a>>] = wire[<<b, a>>]
      /\ Heard(q, p)' => \E s \in Seq(W) : wire'[<<p, q>>] = s \o hello
    <2>1. CASE MeetAsDialler(p, q, hello)
        <3>1. /\ <<p, q>> \notin up \cup accepting /\ <<q, p>> \notin up \cup accepting
              /\ accepting' = accepting \cup {<<q, p>>}
              /\ wire' = [wire EXCEPT ![<<p, q>>] = hello, ![<<q, p>>] = <<>>]
            BY <2>1 DEF MeetAsDialler
        <3>2. /\ wire' \in [Pairs -> Seq(W)] /\ wire'[<<p, q>>] = hello
              /\ \A pq \in Pairs \ {<<p, q>>, <<q, p>>} : wire'[pq] = wire[pq]
            <4>1. <<>> \in Seq(W)
                OBVIOUS
            <4> DEFINE v == [wire EXCEPT ![<<p, q>>] = hello]
            <4>2. wire' = [v EXCEPT ![<<q, p>>] = <<>>]
                BY <3>1
            <4>3. /\ v \in [Pairs -> Seq(W)] /\ v[<<p, q>>] = hello
                  /\ \A pq \in Pairs \ {<<p, q>>} : v[pq] = wire[pq]
                BY <1>2, <1>6
            <4> HIDE DEF v
            <4>4. /\ wire' \in [Pairs -> Seq(W)]
                  /\ \A pq \in Pairs \ {<<q, p>>} : wire'[pq] = v[pq]
                BY <1>6, <4>1, <4>2, <4>3
            <4>5. <<p, q>> # <<q, p>>
                OBVIOUS
            <4> QED
                BY <1>6, <4>3, <4>4, <4>5
        <3>3. hello = <<>> \o hello /\ <<>> \in Seq(W)
            BY <1>2, ConcatEmptySeq, EmptySeq
        <3>4. accepting' \subseteq Pairs /\ up' \cap accepting' = {}
            <4>1. <<p, q>> # <<q, p>>
                OBVIOUS
            <4> QED
                BY <1>4, <1>6, <3>1, <4>1, Zenon
        <3>5. ASSUME NEW a \in Peers, NEW b \in Peers, a # q \/ b # p, Heard(a, b)'
              PROVE  Heard(a, b) /\ wire'[<<b, a>>] = wire[<<b, a>>]
            <4>1. /\ <<b, a>> \in up' /\ <<b, a>> # <<p, q>>
                  /\ <<a, b>> \in up' \cup accepting'
                BY <3>5 DEF Heard
            <4>2. <<b, a>> \in up /\ <<b, a>> # <<q, p>>
                BY <1>4, <3>1, <4>1
            <4>3. <<a, b>> # <<p, q>> /\ <<a, b>> # <<q, p>>
                BY <3>5, <4>2
            <4>4. <<a, b>> \in up \cup accepting
                BY <1>4, <3>1, <4>1, <4>3
            <4> QED
                BY <1>6, <3>2, <4>1, <4>2, <4>4 DEF Heard
        <3> QED
            BY <3>2, <3>3, <3>4, <3>5
    <2>2. CASE MeetAsAcceptor(p, q, hello)
        <3>1. /\ <<p, q>> \in accepting /\ accepting' = accepting \ {<<p, q>>}
              /\ wire' = IF Reads(q, p) THEN [wire EXCEPT ![<<p, q>>] = @ \o hello] ELSE wire
            BY <2>2 DEF MeetAsAcceptor
        <3> DEFINE s == wire[<<p, q>>]
                   t == s \o hello
        <3>2. s \in Seq(W) /\ t \in Seq(W)
            BY <1>2, <1>6, Appending
        <3>3. wire' = IF Reads(q, p) THEN [wire EXCEPT ![<<p, q>>] = t] ELSE wire
            BY <3>1
        <3> HIDE DEF t
        <3>4. /\ wire' \in [Pairs -> Seq(W)]
              /\ Reads(q, p) => wire'[<<p, q>>] = t
              /\ \A pq \in Pairs \ {<<p, q>>} : wire'[pq] = wire[pq]
            BY <1>6, <3>2, <3>3
        <3>5. accepting' \subseteq Pairs /\ up' \cap accepting' = {}
            BY <1>4, <1>6, <3>1
        <3>6. ASSUME NEW a \in Peers, NEW b \in Peers, a # q \/ b # p, Heard(a, b)'
              PROVE  Heard(a, b) /\ wire'[<<b, a>>] = wire[<<b, a>>]
            <4>1. <<b, a>> \in up /\ <<b, a>> # <<p, q>>
                BY <1>4, <3>6 DEF Heard
            <4>2. <<a, b>> \in up \cup accepting
                BY <1>4, <3>1, <3>6 DEF Heard
            <4> QED
                BY <1>6, <3>4, <4>1, <4>2 DEF Heard
        <3>7. Heard(q, p)' => Reads(q, p)
            BY <1>4, <1>6, <3>1 DEF Heard, Reads
        <3> QED
            BY <3>2, <3>4, <3>5, <3>6, <3>7 DEF t
    <2> QED
        BY <1>1, <2>1, <2>2
<1>8. LinkOK'
    <2>1. up' \subseteq Pairs
        BY <1>4, <1>6
    <2>2. ASSUME NEW r \in Peers, NEW i \in DOMAIN late[r]
          PROVE  <<r, late[r][i].from>> \notin up'
        <3>1. r # p
            BY <1>1, <2>2
        <3> QED
            BY <1>4, <1>6, <3>1
    <2> QED
        BY <1>4, <1>6, <1>7, <2>1, <2>2 DEF LinkOK, LinkTyped, Streams, W
<1>9. ASSUME NEW a \in Peers, NEW b \in Peers, a # q \/ b # p
      PROVE  /\ NamesAt(a, b) => NamesAt(a, b)'
             /\ CurrentAt(a, b) => CurrentAt(a, b)'
    <2>1. UNCHANGED <<roster, mine, held>>
        BY <1>1 DEF ConnectOnMet, PresenceOnMet
    <2>2. <<b, a>> \in introduced' => <<b, a>> \in introduced
        <3>1. introduced' \subseteq introduced \cup {<<p, q>>}
            BY <1>1 DEF ConnectOnMet
        <3>2. <<b, a>> # <<p, q>>
            BY <1>9
        <3> QED
            BY <3>1, <3>2
    <2> QED
        BY <1>7, <1>9, <2>1, <2>2, AtSame DEF IInv
<1>10. NamesAt(q, p)' /\ CurrentAt(q, p)'
    <2>1. UNCHANGED mine /\ (<<p, q>> \in introduced' => loggedIn[p])
        BY <1>1 DEF ConnectOnMet, PresenceOnMet
    <2>2. ASSUME NEW s \in Seq(W), wire'[<<p, q>>] = s \o hello
          PROVE  /\ LastWord(wire'[<<p, q>>], mine[p])
                 /\ <<p, q>> \in introduced' => Announcement(p) \in Range(wire'[<<p, q>>])
        BY <1>2, <2>1, <2>2, Appending
    <2>3. Heard(q, p)' => LastWord(wire'[<<p, q>>], mine[p])
        BY <1>7, <2>2
    <2>4. Heard(q, p)' /\ <<p, q>> \in introduced' => Announcement(p) \in Range(wire'[<<p, q>>])
        BY <1>7, <2>2
    <2> QED
        BY <2>1, <2>3, <2>4 DEF NamesAt, CurrentAt, Announcement
<1>11. NamesOK'
    BY <1>9, <1>10 DEF IInv, NamesOK
<1>12. CurrentOK => CurrentOK'
    <2>1. UNCHANGED mine
        BY <1>1 DEF PresenceOnMet
    <2> QED
        BY <1>9, <1>10, <2>1 DEF CurrentOK, WithinCaps
<1> QED
    BY <1>3, <1>5, <1>8, <1>11, <1>12 DEF IInv, Kept

LEMMA GiveUpKept ==
    ASSUME IInv, NEW p \in Peers, NEW q \in Peers, p # q, GiveUp(p, q)
    PROVE  Kept
<1>1. /\ <<p, q>> \in accepting /\ accepting' = accepting \ {<<p, q>>}
      /\ wire' = [wire EXCEPT ![<<q, p>>] = <<>>,
                              ![<<p, q>>] = IF <<q, p>> \in up THEN <<Eof>> ELSE <<>>]
      /\ UNCHANGED <<up, late, connectVars, friendsVars, presenceVars>>
    BY DEF GiveUp, TurnAway
<1>2. ConnectOK' /\ FriendsOK' /\ PresenceOK'
    BY <1>1, ConnectSame, FriendsSame, PresenceSame DEF IInv
<1>3. FollowMesh'
    BY <1>1 DEF IInv, FollowMesh, Met, friendsVars, presenceVars
<1>4. /\ <<p, q>> \in Pairs /\ <<q, p>> \in Pairs
      /\ up \subseteq Pairs /\ accepting \subseteq Pairs /\ up \cap accepting = {}
      /\ wire \in [Pairs -> Seq(W)] /\ LinkTyped(Words)
    BY DEF IInv, LinkOK, LinkTyped, Pairs, Streams, W
<1>5. /\ wire' \in [Pairs -> Seq(W)]
      /\ \A pq \in Pairs \ {<<p, q>>, <<q, p>>} : wire'[pq] = wire[pq]
    <2> DEFINE e == IF <<q, p>> \in up THEN <<Eof>> ELSE <<>>
    <2>1. <<>> \in Seq(W) /\ e \in Seq(W)
        <3>1. <<>> \in Seq(W) /\ <<Eof>> \in Seq(W)
            BY DEF W
        <3> QED
            BY <3>1
    <2> DEFINE v == [wire EXCEPT ![<<q, p>>] = <<>>]
    <2>2. wire' = [v EXCEPT ![<<p, q>>] = e]
        BY <1>1
    <2>3. v \in [Pairs -> Seq(W)] /\ \A pq \in Pairs \ {<<q, p>>} : v[pq] = wire[pq]
        BY <1>4, <2>1
    <2> HIDE DEF e, v
    <2> QED
        BY <1>4, <2>1, <2>2, <2>3
<1>6. LinkOK'
    BY <1>1, <1>4, <1>5 DEF IInv, LinkOK, LinkTyped, Streams, W
<1>7. ASSUME NEW a \in Peers, NEW b \in Peers
      PROVE  /\ NamesAt(a, b) => NamesAt(a, b)'
             /\ CurrentAt(a, b) => CurrentAt(a, b)'
    <2>1. ASSUME Heard(a, b)'
          PROVE  Heard(a, b) /\ wire'[<<b, a>>] = wire[<<b, a>>]
        <3>1. <<b, a>> \in up /\ <<a, b>> \in up \cup accepting'
            BY <1>1, <2>1 DEF Heard
        <3>2. <<b, a>> # <<p, q>> /\ <<a, b>> # <<p, q>>
            BY <1>1, <1>4, <3>1
        <3>3. <<b, a>> # <<q, p>> /\ <<b, a>> \in Pairs
            BY <1>4, <3>1, <3>2
        <3> QED
            BY <1>1, <1>5, <3>1, <3>2, <3>3 DEF Heard
    <2> QED
        BY <1>1, <2>1, AtSame DEF IInv, connectVars, presenceVars
<1>8. NamesOK'
    BY <1>7 DEF IInv, NamesOK
<1>9. CurrentOK => CurrentOK'
    <2>1. UNCHANGED mine
        BY <1>1 DEF presenceVars
    <2> QED
        BY <1>7, <2>1 DEF CurrentOK, WithinCaps
<1> QED
    BY <1>2, <1>3, <1>6, <1>8, <1>9 DEF IInv, Kept

LEMMA LeftKept ==
    ASSUME IInv, NEW p \in Peers, NEW q \in Peers, p # q,
           NEW n \in 0 .. Len(wire[<<q, p>>]), Left(p, q, n)
    PROVE  Kept
<1>1. /\ DropPeer(p, q, n, wire)
      /\ ConnectOnLeft(p, q) /\ FriendsOnLeft(p, q) /\ PresenceOnLeft(p, q)
    BY DEF Left
<1>2. ConnectOK' /\ FriendsOK' /\ PresenceOK'
    BY <1>1, ConnectEventOK, FriendsEventOK, PresenceEventOK DEF IInv
<1>3. /\ <<p, q>> \in up /\ <<p, q>> \in Pairs /\ <<q, p>> \in Pairs
      /\ up \cap accepting = {} /\ up \subseteq Pairs
      /\ Streams(wire, Words) /\ LinkTyped(Words) /\ DOMAIN late = Peers /\ n \in Nat
    <2>1. /\ <<p, q>> \in up /\ <<p, q>> \in Pairs /\ <<q, p>> \in Pairs
          /\ up \cap accepting = {} /\ up \subseteq Pairs
          /\ Streams(wire, Words) /\ LinkTyped(Words) /\ DOMAIN late = Peers
        BY <1>1 DEF IInv, LinkOK, LinkTyped, Pairs, DropPeer
    <2>2. Len(wire[<<q, p>>]) \in Nat
        BY <2>1, LenProperties DEF Streams
    <2> QED
        BY <2>1, <2>2
<1>4. /\ up' = up \ {<<p, q>>} /\ accepting' = accepting
      /\ \A pq \in Pairs : {pq[1], pq[2]} # {p, q} => wire'[pq] = wire[pq]
    <2>1. accepting' = accepting
        BY <1>1 DEF DropPeer
    <2>2. up' = up \ {<<p, q>>}
        BY <1>1 DEF DropPeer
    <2>3. \A pq \in Pairs : {pq[1], pq[2]} # {p, q} => wire'[pq] = wire[pq]
        <3>1. PICK kept \in 0 .. Len(wire[<<p, q>>]) :
                wire' = [wire EXCEPT ![<<q, p>>] = <<>>,
                                     ![<<p, q>>] = IF Reads(q, p)
                                                   THEN SubSeq(wire[<<p, q>>], 1, kept) \o <<Eof>>
                                                   ELSE <<>>]
            BY <1>1 DEF DropPeer
        <3>2. ASSUME NEW pq \in Pairs, {pq[1], pq[2]} # {p, q}
              PROVE  wire'[pq] = wire[pq]
            <4>1. pq # <<p, q>> /\ pq # <<q, p>>
                BY <3>2
            <4> QED
                BY <1>3, <3>1, <4>1 DEF Streams
        <3> QED
            BY <3>2
    <2> QED
        BY <2>1, <2>2, <2>3
<1>5. FollowMesh'
    BY <1>1, <1>4, Follows
<1>6. LinkOK'
    <2>1. LinkTyped(Words)'
        BY <1>1, <1>3, DropOK
    <2>2. up' \cap accepting' = {}
        BY <1>3, <1>4
    <2>3. late' = [late EXCEPT ![p] =
                     [i \in 1 .. n |-> [from |-> q, msg |-> wire[<<q, p>>][i]]]]
        BY <1>1 DEF DropPeer
    <2>4. ASSUME NEW r \in Peers, NEW i \in DOMAIN late'[r]
          PROVE  <<r, late'[r][i].from>> \notin up'
        <3>1. CASE r = p
            <4>1. late'[p] = [j \in 1 .. n |-> [from |-> q, msg |-> wire[<<q, p>>][j]]]
                BY <1>3, <2>3
            <4>2. late'[p][i].from = q
                BY <2>4, <3>1, <4>1
            <4> QED
                BY <1>4, <3>1, <4>2
        <3>2. CASE r # p
            <4>1. late'[r] = late[r]
                BY <1>3, <2>3, <3>2
            <4> QED
                BY <1>4, <2>4, <4>1 DEF IInv, LinkOK
        <3> QED
            BY <3>1, <3>2
    <2> QED
        BY <2>1, <2>2, <2>4 DEF LinkOK
<1>7. ASSUME NEW a \in Peers, NEW b \in Peers
      PROVE  /\ NamesAt(a, b) => NamesAt(a, b)'
             /\ CurrentAt(a, b) => CurrentAt(a, b)'
    <2>1. ASSUME Heard(a, b)'
          PROVE  /\ Heard(a, b) /\ wire'[<<b, a>>] = wire[<<b, a>>]
                 /\ a # p \/ b # q
        <3>1. <<b, a>> \in up' /\ <<a, b>> \in up' \cup accepting
            BY <1>4, <2>1 DEF Heard
        <3>2. <<b, a>> # <<p, q>> /\ <<a, b>> # <<p, q>>
            BY <1>3, <1>4, <3>1
        <3>3. {b, a} # {p, q} /\ <<b, a>> \in Pairs
            BY <1>3, <1>4, <3>1, <3>2
        <3> QED
            BY <1>4, <3>1, <3>2, <3>3 DEF Heard
    <2>2. UNCHANGED <<mine, introduced>>
        BY <1>1 DEF PresenceOnLeft, ConnectOnLeft
    <2>3. a # p \/ b # q => /\ held'[a][b] = held[a][b]
                            /\ b \in roster[a] => b \in roster'[a]
        BY <1>1 DEF IInv, PresenceOK, ConnectOK, PresenceOnLeft, ConnectOnLeft
    <2> QED
        BY <2>1, <2>2, <2>3, AtSame DEF IInv
<1>8. NamesOK'
    BY <1>7 DEF IInv, NamesOK
<1>9. CurrentOK => CurrentOK'
    <2>1. UNCHANGED mine
        BY <1>1 DEF PresenceOnLeft
    <2> QED
        BY <1>7, <2>1 DEF CurrentOK, WithinCaps
<1> QED
    BY <1>2, <1>5, <1>6, <1>8, <1>9 DEF IInv, Kept

LEMMA CrashKept ==
    ASSUME IInv, NEW p \in Peers, Crash(p)
    PROVE  Kept
<1>1. Vanish(p) /\ ConnectRestart(p) /\ FriendsRestart(p) /\ PresenceRestart(p)
    BY DEF Crash
<1>2. ConnectOK' /\ FriendsOK' /\ PresenceOK'
    BY <1>1, ConnectEventOK, FriendsEventOK, PresenceEventOK DEF IInv
<1>3. /\ up \subseteq Pairs /\ up \cap accepting = {} /\ LinkTyped(Words)
      /\ DOMAIN late = Peers
    BY DEF IInv, LinkOK, LinkTyped
<1>4. /\ up' = {pq \in up : pq[1] # p}
      /\ \A pq \in Pairs : p \notin {pq[1], pq[2]} => wire'[pq] = wire[pq]
      /\ accepting' = {pq \in accepting : pq[1] # p}
      /\ late' = [late EXCEPT ![p] = <<>>]
    BY <1>1, VanishElsewhere DEF Vanish
<1>5. LinkOK'
    <2>1. LinkTyped(Words)'
        BY <1>1, <1>3, VanishOK
    <2>2. up' \cap accepting' = {} /\ up' \subseteq up
        BY <1>3, <1>4
    <2>3. ASSUME NEW r \in Peers, NEW i \in DOMAIN late'[r]
          PROVE  <<r, late'[r][i].from>> \notin up'
        <3>1. r # p /\ late'[r] = late[r]
            BY <1>3, <1>4, <2>3
        <3> QED
            BY <2>2, <2>3, <3>1 DEF IInv, LinkOK
    <2> QED
        BY <2>1, <2>2, <2>3 DEF LinkOK
<1>6. \A r \in Peers :
        /\ friends'[r] = IF r = p THEN {} ELSE friends[r]
        /\ users'[r] = IF r = p THEN {} ELSE users[r]
        /\ proved'[r] = IF r = p THEN {} ELSE proved[r]
        /\ roster'[r] = IF r = p THEN {} ELSE roster[r]
        /\ mine'[r] = IF r = p THEN Seed ELSE mine[r]
        /\ r # p => held'[r] = held[r]
    BY <1>1 DEF IInv, ConnectOK, FriendsOK, PresenceOK, ConnectRestart, FriendsRestart, PresenceRestart
<1>7. FollowMesh'
    <2>1. \A r \in Peers : Met(r)' = IF r = p THEN {} ELSE Met(r)
        BY <1>4 DEF Met
    <2> QED
        BY <1>6, <2>1 DEF IInv, FollowMesh
<1>8. ASSUME NEW a \in Peers, NEW b \in Peers
      PROVE  /\ NamesAt(a, b) => NamesAt(a, b)'
             /\ CurrentAt(a, b) => CurrentAt(a, b)'
    <2>1. ASSUME Heard(a, b)'
          PROVE  /\ Heard(a, b) /\ wire'[<<b, a>>] = wire[<<b, a>>]
                 /\ a # p /\ b # p
        <3>1. /\ <<b, a>> \in up /\ b # p
              /\ <<a, b>> \in up \cup accepting /\ a # p
            BY <1>4, <2>1 DEF Heard
        <3>2. <<b, a>> \in Pairs
            BY <1>3, <3>1
        <3> QED
            BY <1>4, <3>1, <3>2 DEF Heard
    <2>2. UNCHANGED introduced
        BY <1>1 DEF ConnectRestart
    <2> QED
        BY <1>6, <2>1, <2>2, AtSame DEF IInv
<1>9. NamesOK'
    BY <1>8 DEF IInv, NamesOK
<1>10. CurrentOK => CurrentOK'
    <2>1. WithinCaps(Seed)
        BY PresenceAssumption, FS_EmptySet DEF Seed, WithinCaps
    <2>2. CurrentOK => \A r \in Peers : WithinCaps(mine'[r])
        BY <1>6, <2>1 DEF CurrentOK
    <2> QED
        BY <1>8, <2>2 DEF CurrentOK, WithinCaps
<1> QED
    BY <1>2, <1>5, <1>7, <1>9, <1>10 DEF IInv, Kept

LEMMA DeliverKept ==
    ASSUME IInv, NEW p \in Peers, NEW q \in Peers, p # q, Deliver(p, q)
    PROVE  Kept
<1> DEFINE s == wire[<<q, p>>]
           m == Head(s)
           w == [wire EXCEPT ![<<q, p>>] = Tail(@)]
           ms == AnswerTo(p, m)
<1>1. /\ <<p, q>> \in up /\ s # <<>> /\ m # Eof
      /\ ConnectOnMessage(p, q, m) /\ PresenceOnMessage(p, q, m)
      /\ wire' = Posted(w, p, q, ms)
      /\ UNCHANGED <<friendsVars, up, accepting, late>>
    BY DEF Deliver, OnNetworkMessage
<1>2. /\ <<p, q>> \in Pairs /\ <<q, p>> \in Pairs /\ <<p, q>> # <<q, p>>
      /\ wire \in [Pairs -> Seq(W)] /\ LinkTyped(Words) /\ s \in Seq(W)
    BY DEF IInv, LinkOK, LinkTyped, Pairs, Streams, W
<1>3. /\ m \in Words /\ Streams(w, Words)
      /\ \A pq \in Pairs \ {<<q, p>>} : w[pq] = wire[pq]
      /\ Range(s) = {m} \cup Range(w[<<q, p>>])
    BY <1>1, <1>2, ReadOK
<1>4. w[<<q, p>>] = Tail(s)
    BY <1>2
<1>5. /\ Silent(s) => ~Tells(m) /\ Silent(Tail(s))
      /\ \A presence : LastWord(s, presence) =>
           LastWord(Tail(s), presence) \/ (m = Telling(presence) /\ Silent(Tail(s)))
    BY <1>1, <1>2, Reading
<1>6. /\ ms \in Seq(Words)
      /\ ms = <<>> \/ (ms \in Seq(W) /\ LastWord(ms, mine[p]))
    <2>1. CASE m.type = "who" /\ m.body = p
        <3>1. ms = <<Telling(mine[p])>>
            BY <2>1 DEF AnswerTo
        <3>2. Telling(mine[p]) \in Words
            BY WordsOf DEF IInv, PresenceOK
        <3> QED
            BY <3>1, <3>2, One
    <2>2. CASE ~(m.type = "who" /\ m.body = p)
        BY <2>2 DEF AnswerTo
    <2> QED
        BY <2>1, <2>2
<1> HIDE DEF m, w, ms, s
<1>7. /\ Streams(wire', Words)
      /\ \A pq \in Pairs : wire'[pq] = IF pq = <<p, q>> /\ pq \in up /\ Reads(q, p)
                                       THEN w[pq] \o ms ELSE w[pq]
    BY <1>1, <1>3, <1>6, PostedAll
<1>8. /\ wire'[<<q, p>>] = Tail(s)
      /\ wire'[<<p, q>>] = IF Reads(q, p) THEN wire[<<p, q>>] \o ms ELSE wire[<<p, q>>]
      /\ \A pq \in Pairs \ {<<p, q>>, <<q, p>>} : wire'[pq] = wire[pq]
    BY <1>1, <1>2, <1>3, <1>4, <1>7
<1>9. PresenceOK' /\ ConnectOK' /\ FriendsOK'
    BY <1>1, <1>3, PresenceMessageOK, ConnectEventOK, FriendsSame DEF IInv
<1>10. /\ UNCHANGED <<mine, proved, introduced>>
       /\ \A r, t \in Peers : (r # p \/ t # q) => held'[r][t] = held[r][t]
       /\ \/ held' = held /\ (Tells(m) => q \notin proved[p] \/ ~WithinCaps(m.body))
          \/ Tells(m) /\ held'[p][q] = m.body
    BY <1>1, <1>3, PresenceMessageOK DEF IInv, ConnectOnMessage
<1>11. /\ \A r \in Peers : roster[r] \subseteq roster'[r]
       /\ m = Announcement(q) => q \in roster'[p]
    BY <1>1 DEF IInv, ConnectOK, ConnectOnMessage, Announcement
<1>12. LinkOK'
    BY <1>1, <1>7, LinkOKSent DEF IInv
<1>13. FollowMesh'
    BY <1>1, <1>10 DEF IInv, FollowMesh, Met, friendsVars
<1>14. \A a, b \in Peers : Heard(a, b)' <=> Heard(a, b)
    BY <1>1 DEF Heard
(* What p reads.                                                             *)
<1>15. NamesAt(p, q) => NamesAt(p, q)'
    <2>1. Range(s) = {m} \cup Range(wire'[<<q, p>>])
        BY <1>3, <1>4, <1>8
    <2>2. /\ NamesAt(p, q) /\ Heard(p, q) /\ <<q, p>> \in introduced
            => q \in roster[p] \/ Announcement(q) \in Range(s)
        BY DEF NamesAt, s
    <2> QED
        BY <1>10, <1>11, <1>14, <2>1, <2>2 DEF NamesAt, Announcement
<1>16. CurrentOK => CurrentAt(p, q)'
    <2> SUFFICES ASSUME CurrentOK, Heard(p, q)
                 PROVE  \/ held'[p][q] = mine[q] /\ Silent(wire'[<<q, p>>])
                        \/ LastWord(wire'[<<q, p>>], mine[q])
        BY <1>10, <1>14 DEF CurrentAt
    <2>1. (held[p][q] = mine[q] /\ Silent(s)) \/ LastWord(s, mine[q])
        BY DEF CurrentOK, CurrentAt, s
    <2>2. q \in proved[p] /\ WithinCaps(mine[q])
        BY <1>1 DEF IInv, FollowMesh, Met, CurrentOK
    <2>3. CASE held[p][q] = mine[q] /\ Silent(s)
        <3>1. held' = held
            BY <1>5, <1>10, <2>3
        <3> QED
            BY <1>5, <1>8, <2>3, <3>1
    <2>4. CASE m = Telling(mine[q]) /\ Silent(Tail(s))
        <3>1. Tells(m) /\ m.body = mine[q]
            BY <2>4 DEF Tells, Telling
        <3>2. held'[p][q] = mine[q]
            BY <1>10, <2>2, <3>1
        <3> QED
            BY <1>8, <2>4, <3>2
    <2>5. CASE LastWord(Tail(s), mine[q])
        BY <1>8, <2>5
    <2> QED
        BY <1>5, <2>1, <2>3, <2>4, <2>5
(* What q reads.                                                             *)
<1>17. NamesAt(q, p) => NamesAt(q, p)'
    <2>1. Range(wire[<<p, q>>]) \subseteq Range(wire'[<<p, q>>])
        <3>1. ms \in Seq(W) /\ wire[<<p, q>>] \in Seq(W)
            BY <1>2, <1>6, EmptySeq
        <3> QED
            BY <1>8, <3>1, Appending
    <2>2. p \in roster[q] => p \in roster'[q]
        BY <1>11
    <2> QED
        BY <1>10, <1>14, <2>1, <2>2 DEF NamesAt, Announcement
<1>18. CurrentAt(q, p) => CurrentAt(q, p)'
    <2> SUFFICES ASSUME CurrentAt(q, p), Heard(q, p)
                 PROVE  \/ held'[q][p] = mine[p] /\ Silent(wire'[<<p, q>>])
                        \/ LastWord(wire'[<<p, q>>], mine[p])
        BY <1>10, <1>14 DEF CurrentAt
    <2>1. wire[<<p, q>>] \in Seq(W) /\ held'[q][p] = held[q][p]
        BY <1>2, <1>10
    <2>2. CASE wire'[<<p, q>>] = wire[<<p, q>>]
        BY <2>1, <2>2 DEF CurrentAt
    <2>3. CASE ms = <<>>
        <3>1. wire'[<<p, q>>] = wire[<<p, q>>]
            BY <1>8, <2>1, <2>3, ConcatEmptySeq
        <3> QED
            BY <2>2, <3>1
    <2>4. CASE /\ ms \in Seq(W) /\ LastWord(ms, mine[p])
               /\ wire'[<<p, q>>] = wire[<<p, q>>] \o ms
        BY <2>1, <2>4, Appending
    <2> QED
        BY <1>6, <1>8, <2>2, <2>3, <2>4
<1>19. ASSUME NEW a \in Peers, NEW b \in Peers, {a, b} # {p, q}
       PROVE  /\ NamesAt(a, b) => NamesAt(a, b)'
              /\ CurrentAt(a, b) => CurrentAt(a, b)'
    <2>1. Heard(a, b)' => Heard(a, b) /\ wire'[<<b, a>>] = wire[<<b, a>>]
        <3>1. <<b, a>> # <<p, q>> /\ <<b, a>> # <<q, p>>
            BY <1>19
        <3>2. Heard(a, b) => <<b, a>> \in Pairs
            BY <1>2 DEF Heard, LinkTyped
        <3> QED
            BY <1>8, <1>14, <3>1, <3>2
    <2>2. held'[a][b] = held[a][b]
        BY <1>10, <1>19
    <2> QED
        BY <1>10, <1>11, <2>1, <2>2, AtSame DEF IInv
<1>20. \A a, b \in Peers : {a, b} = {p, q} => (a = p /\ b = q) \/ (a = q /\ b = p) \/ a = b
    OBVIOUS
<1>21. \A a \in Peers : NamesAt(a, a)' /\ CurrentAt(a, a)'
    BY <1>2, <1>14 DEF NamesAt, CurrentAt, Heard, LinkTyped, Pairs
<1>22. NamesOK'
    BY <1>15, <1>17, <1>19, <1>20, <1>21 DEF IInv, NamesOK
<1>23. CurrentOK => CurrentOK'
    <2>1. ASSUME CurrentOK, NEW a \in Peers, NEW b \in Peers
          PROVE  CurrentAt(a, b)'
        BY <1>16, <1>18, <1>19, <1>20, <1>21, <2>1 DEF CurrentOK
    <2> QED
        BY <1>10, <2>1 DEF CurrentOK, WithinCaps
<1> QED
    BY <1>9, <1>12, <1>13, <1>22, <1>23 DEF IInv, Kept

(* The word of somebody who is gone is no presence and has no answer.          *)
LEMMA DeliverLateKept ==
    ASSUME IInv, NEW p \in Peers, DeliverLate(p)
    PROVE  Kept
<1> DEFINE q == Head(late[p]).from
           m == Head(late[p]).msg
           ms == AnswerTo(p, m)
<1>1. /\ late[p] # <<>> /\ late' = [late EXCEPT ![p] = Tail(@)]
      /\ ConnectOnMessage(p, q, m) /\ PresenceOnMessage(p, q, m)
      /\ wire' = Posted(wire, p, q, ms)
      /\ UNCHANGED <<friendsVars, up, accepting>>
    BY DEF DeliverLate, OnNetworkMessage
<1>2. LinkTyped(Words) /\ Streams(wire, Words)
    BY DEF IInv, LinkOK, LinkTyped
<1>3. q \in Peers \ {p} /\ m \in Words
    BY <1>1, <1>2, ReadLateOK
<1>4. late[p] \in Seq(Envelopes(p, Words)) /\ Head(late[p]) = late[p][1] /\ 1 \in DOMAIN late[p]
    BY <1>1, <1>2, HeadTailProperties, LenProperties DEF LinkTyped
<1>5. <<p, q>> \notin up
    BY <1>4 DEF IInv, LinkOK
<1> HIDE DEF q, m, ms
<1>6. UNCHANGED wire
    BY <1>1, <1>5 DEF Posted
<1>7. PresenceOK' /\ ConnectOK' /\ FriendsOK'
    BY <1>1, <1>3, PresenceMessageOK, ConnectEventOK, FriendsSame DEF IInv
<1>8. UNCHANGED <<mine, proved, held, introduced>>
    <2>1. q \notin proved[p]
        BY <1>5 DEF IInv, FollowMesh, Met
    <2>2. UNCHANGED presenceVars
        BY <1>1, <2>1 DEF PresenceOnMessage, OnPresenceInfo
    <2> QED
        BY <1>1, <2>2 DEF presenceVars, ConnectOnMessage
<1>9. \A r \in Peers : roster[r] \subseteq roster'[r]
    BY <1>1 DEF IInv, ConnectOK, ConnectOnMessage
<1>10. LinkOK'
    <2>1. LinkTyped(Words)'
        BY <1>1, <1>2, <1>6, LateTaken
    <2>2. \A r \in Peers \ {p} : late'[r] = late[r]
        BY <1>1, <1>2 DEF LinkTyped
    <2>3. /\ late'[p] = Tail(late[p])
          /\ \A i \in DOMAIN Tail(late[p]) : /\ i + 1 \in DOMAIN late[p]
                                             /\ Tail(late[p])[i] = late[p][i + 1]
        <3>1. late'[p] = Tail(late[p])
            BY <1>1, <1>2 DEF LinkTyped
        <3> QED
            BY <1>1, <1>4, <3>1, HeadTailProperties, LenProperties
    <2>4. ASSUME NEW r \in Peers, NEW i \in DOMAIN late'[r]
          PROVE  <<r, late'[r][i].from>> \notin up
        BY <2>2, <2>3, <2>4 DEF IInv, LinkOK
    <2> QED
        BY <1>1, <2>1, <2>4 DEF IInv, LinkOK
<1>11. FollowMesh'
    BY <1>1, <1>8 DEF IInv, FollowMesh, Met, friendsVars
<1>12. ASSUME NEW a \in Peers, NEW b \in Peers
       PROVE  /\ NamesAt(a, b) => NamesAt(a, b)'
              /\ CurrentAt(a, b) => CurrentAt(a, b)'
    <2>1. Heard(a, b)' => Heard(a, b)
        BY <1>1 DEF Heard
    <2> QED
        BY <1>6, <1>8, <1>9, <2>1, AtSame DEF IInv
<1>13. NamesOK'
    BY <1>12 DEF IInv, NamesOK
<1>14. CurrentOK => CurrentOK'
    BY <1>8, <1>12 DEF CurrentOK, WithinCaps
<1> QED
    BY <1>7, <1>10, <1>11, <1>13, <1>14 DEF IInv, Kept

-----------------------------------------------------------------------------
(* Every step.                                                             *)

LEMMA InitIInv == Init => IInv /\ CurrentOK
<1> SUFFICES ASSUME Init PROVE IInv /\ CurrentOK
    OBVIOUS
<1> USE DEF Init, LinkInit, ConnectInit, FriendsInit, PresenceInit
<1>1. LinkOK
    BY EmptySeq DEF LinkOK, LinkTyped, Streams
<1>2. ConnectOK
    BY EmptySeq DEF ConnectOK
<1>3. FriendsOK
    <2>1. ToldAll({}, <<>>) = {} /\ <<>> \in Seq(Updates)
        BY NothingMore, EmptySeq
    <2> QED
        BY <2>1 DEF FriendsOK
<1>4. Seed \in Presences /\ NoDraft \in Drafts /\ WithinCaps(Seed)
    BY PresenceAssumption, FS_EmptySet DEF Seed, Presences, NoDraft, Drafts, WithinCaps
<1>5. PresenceOK
    BY <1>4 DEF PresenceOK
<1>6. FollowMesh
    BY DEF FollowMesh, Met
<1>7. NamesOK
    BY DEF NamesOK, NamesAt, Heard
<1>8. CurrentOK
    BY <1>4 DEF CurrentOK, CurrentAt, Heard
<1> QED
    BY <1>1, <1>2, <1>3, <1>5, <1>6, <1>7, <1>8 DEF IInv

LEMMA StepIInv ==
    ASSUME IInv, [Next]_vars
    PROVE  IInv' /\ (Statuses \subseteq Known /\ CurrentOK => CurrentOK')
<1>1. CASE UNCHANGED vars
    <2>1. UNCHANGED connectVars /\ UNCHANGED friendsVars /\ UNCHANGED presenceVars /\ UNCHANGED linkVars
        BY <1>1 DEF vars
    <2>2. ConnectOK' /\ FriendsOK' /\ PresenceOK'
        BY <2>1, ConnectSame, FriendsSame, PresenceSame DEF IInv
    <2> QED
        BY <2>1, <2>2, QuietKept DEF Kept, connectVars, friendsVars, presenceVars, linkVars
<1>2. ASSUME NEW p \in Peers, Game(p)
      PROVE  IInv' /\ (Statuses \subseteq Known /\ CurrentOK => CurrentOK')
    BY <1>2, ConnectCallKept, DraftCallKept, PresenceCallKept DEF Game, Kept
<1>3. ASSUME NEW p \in Peers, Tick(p)
      PROVE  Kept
    BY <1>3, TickKept
<1>4. ASSUME NEW p \in Peers, Mesh(p)
      PROVE  Kept
    <2>1. ASSUME NEW q \in Peers \ {p}, Meet(p, q) \/ GiveUp(p, q)
          PROVE  Kept
        BY <2>1, MeetKept, GiveUpKept
    <2>2. ASSUME NEW q \in Peers \ {p}, NEW n \in 0 .. Len(wire[<<q, p>>]),
                 Lose(p, q, n) \/ Break(p, q, n)
          PROVE  Kept
        BY <2>2, LeftKept DEF Lose, Break
    <2>3. ASSUME NEW q \in Peers \ {p}, Deliver(p, q)
          PROVE  Kept
        BY <2>3, DeliverKept
    <2> QED
        BY <1>4, <2>1, <2>2, <2>3, DeliverLateKept, CrashKept DEF Mesh
<1> QED
    BY <1>1, <1>2, <1>3, <1>4 DEF Next, Kept

THEOREM Invariance == Spec => []IInv
<1>1. Init => IInv
    BY InitIInv
<1>2. IInv /\ [Next]_vars => IInv'
    BY StepIInv
<1> QED
    BY <1>1, <1>2, PTL DEF Spec

(* Every variable of the three interfaces and of the mesh keeps its type,      *)
(* whatever is called, sent, lost or restarted.                             *)
THEOREM TypeCorrect == Spec => []TypeOK
<1>1. IInv => TypeOK
    <2> SUFFICES ASSUME IInv PROVE TypeOK
        OBVIOUS
    <2>1. up \cup accepting \subseteq Pairs
        BY DEF IInv, LinkOK, LinkTyped
    <2>2. \A p \in Peers :
            /\ transitions[p] \in Seq(BOOLEAN)
            /\ updates[p] \in Seq([who : Peers, friend : BOOLEAN])
            /\ draft[p].status \in Statuses \cup {None}
            /\ draft[p].deleted \cup draft[p].set \subseteq Keys
        BY DEF IInv, ConnectOK, FriendsOK, PresenceOK, Updates, Drafts
    <2> QED
        BY <2>1, <2>2 DEF TypeOK, IInv, ConnectOK, FriendsOK, PresenceOK
<1> QED
    BY <1>1, Invariance, PTL

(* Everything the game can ask about who is there gives the same answer, and   *)
(* the answer of the mesh (peer_connected and peer_disconnected of friends,  *)
(* user info and presence).                                                 *)
THEOREM ReadersOfTheMesh == Spec => []ReadersAgree
<1>1. IInv => ReadersAgree
    <2> SUFFICES ASSUME IInv, NEW p \in Peers, NEW t \in Peers, p # t
                 PROVE  /\ IsFriend(p, t) <=> t \in Met(p)
                        /\ QueryUserInfo(p, t) = InviteResult(p, t)
                        /\ HasPresence(p, t) => IsFriend(p, t)
                        /\ "Success" \in {QueryUserInfoByDisplayName(p, t), CopyBestDisplayName(p, t)}
                              => IsFriend(p, t)
        BY DEF ReadersAgree
    <2>1. friends[p] = Met(p) /\ users[p] = Met(p) /\ proved[p] = Met(p)
        BY DEF IInv, FollowMesh
    <2>2. HasPresence(p, t) => t \in proved[p]
        BY DEF HasPresence, IInv, PresenceOK
    <2> QED
        BY <2>1, <2>2 DEF IsFriend, QueryUserInfo, InviteResult, QueryUserInfoByDisplayName,
           CopyBestDisplayName, Named, Resolved
<1> QED
    BY <1>1, Invariance, PTL

(* What the game has been told, with what is still to be told, is how things   *)
(* are (cb_run_frame of connect and of friends, fire_presence_changed).      *)
THEOREM GameKnows == Spec => []GameCatchesUp
<1>1. IInv => GameCatchesUp
    BY DEF GameCatchesUp, IInv, ConnectOK, FriendsOK, PresenceOK
<1> QED
    BY <1>1, Invariance, PTL

(* A peer that was logged in when it met another is known to it by name, or    *)
(* its name is under way (announce_to and on_network_message of connect).     *)
THEOREM Introductions == Spec => []IntroducedIsKnown
<1>1. IInv => IntroducedIsKnown
    BY DEF IntroducedIsKnown, IInv, NamesOK, NamesAt, Heard, Connected, IsKnownPeer
<1> QED
    BY <1>1, Invariance, PTL

(* As long as the games only set statuses that have a name, each of two peers  *)
(* that are connected holds the presence of the other as it is, or has it    *)
(* before it as the last word (set_presence, on_network_message).            *)
THEOREM CurrentPresence ==
    ASSUME Statuses \subseteq Known
    PROVE  Spec => []PresenceCurrent
<1>1. Init => IInv /\ CurrentOK
    BY InitIInv
<1>2. (IInv /\ CurrentOK) /\ [Next]_vars => (IInv /\ CurrentOK)'
    BY StepIInv
<1>3. IInv /\ CurrentOK => PresenceCurrent
    <2> SUFFICES ASSUME IInv, CurrentOK, NEW p \in Peers, NEW q \in Peers, Connected(p, q)
                 PROVE  \/ /\ held[p][q] = mine[q]
                           /\ \A i \in DOMAIN wire[<<q, p>>] : wire[<<q, p>>][i].type # "presence"
                        \/ \E i \in DOMAIN wire[<<q, p>>] :
                             /\ wire[<<q, p>>][i] = Telling(mine[q])
                             /\ \A j \in DOMAIN wire[<<q, p>>] :
                                    j > i => wire[<<q, p>>][j].type # "presence"
        BY DEF PresenceCurrent
    <2>1. Heard(p, q)
        BY DEF Connected, Heard
    <2> QED
        BY <2>1 DEF CurrentOK, CurrentAt, Silent, LastWord, Tells
<1> QED
    BY <1>1, <1>2, <1>3, PTL DEF Spec
=============================================================================
