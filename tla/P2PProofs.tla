----------------------------- MODULE P2PProofs -----------------------------
(***************************************************************************)
(* What P2P promises for any peers, sockets, limits and bounds: the types,  *)
(* that the game is told the truth about its connections, that no packet    *)
(* outlives its connection in the queue, that the limit on the queue is     *)
(* kept, that undisturbed connections are open at both ends, and that the   *)
(* game reads reliable packets in the order they were sent.                *)
(***************************************************************************)
EXTENDS P2P, MeshLinkProofs, FiniteSetTheorems

-----------------------------------------------------------------------------
(* The parts of a set of numbers in their order, and the elements of a set in *)
(* some order.                                                             *)

Below(S, m) == {k \in S : k <= m}

(* One number more adds itself to those counted, if it is in the set.         *)
LEMMA BelowNext ==
    ASSUME NEW S \in SUBSET Nat, NEW m \in Nat, IsFiniteSet(S)
    PROVE  /\ Cardinality(Below(S, m)) \in Nat /\ IsFiniteSet(Below(S, m))
           /\ m + 1 \in S => Cardinality(Below(S, m + 1)) = Cardinality(Below(S, m)) + 1
           /\ m + 1 \notin S => Cardinality(Below(S, m + 1)) = Cardinality(Below(S, m))
<1>1. IsFiniteSet(Below(S, m)) /\ Cardinality(Below(S, m)) \in Nat
    <2>1. Below(S, m) \in SUBSET S
        BY DEF Below
    <2> QED
        BY <2>1, FS_Subset, FS_CardinalityType, Zenon
<1>2. \A k \in S : k <= m + 1 <=> k <= m \/ k = m + 1
    <2>1. \A k \in Nat : k <= m + 1 <=> k <= m \/ k = m + 1
        OBVIOUS
    <2> QED
        BY <2>1
<1>3. ~(m + 1 <= m)
    OBVIOUS
<1>4. CASE m + 1 \in S
    <2>1. Below(S, m + 1) = Below(S, m) \cup {m + 1} /\ m + 1 \notin Below(S, m)
        BY <1>2, <1>3, <1>4, Zenon DEF Below
    <2> QED
        BY <1>1, <1>4, <2>1, FS_AddElement
<1>5. CASE m + 1 \notin S
    <2>1. Below(S, m + 1) = Below(S, m)
        BY <1>2, <1>5, Zenon DEF Below
    <2> QED
        BY <1>1, <1>5, <2>1
<1> QED
    BY <1>1, <1>4, <1>5

(* The j-th of a set of positions is one of them, and they come in order.     *)
LEMMA NthOK ==
    ASSUME NEW n \in Nat, NEW S \in SUBSET (1 .. n)
    PROVE  /\ IsFiniteSet(S) /\ Cardinality(S) \in Nat /\ Cardinality(S) <= n
           /\ \A j \in 1 .. Cardinality(S) : Nth(S, j) \in S
           /\ \A j, l \in 1 .. Cardinality(S) : j < l => Nth(S, j) < Nth(S, l)
<1>1. IsFiniteSet(S) /\ Cardinality(S) \in Nat /\ Cardinality(S) <= n /\ S \in SUBSET Nat
    <2>1. IsFiniteSet(1 .. n) /\ Cardinality(1 .. n) = n
        BY FS_Interval
    <2>2. IsFiniteSet(S) /\ Cardinality(S) <= Cardinality(1 .. n)
        BY <2>1, FS_Subset, Zenon
    <2>3. S \in SUBSET Nat
        OBVIOUS
    <2> QED
        BY <2>1, <2>2, <2>3, FS_CardinalityType
<1> DEFINE C(m) == Cardinality(Below(S, m))
<1>2. \A m \in Nat : C(m) \in Nat /\ IsFiniteSet(Below(S, m))
    BY <1>1, BelowNext
<1>3. C(n) = Cardinality(S)
    <2>1. \A k \in S : k <= n
        OBVIOUS
    <2>2. Below(S, n) = S
        BY <2>1, Zenon DEF Below
    <2> QED
        BY <2>2
<1>4. C(0) = 0
    <2>1. \A k \in S : ~(k <= 0)
        OBVIOUS
    <2>2. Below(S, 0) = {}
        BY <2>1, Zenon DEF Below
    <2> QED
        BY <2>2, FS_EmptySet
<1>5. ASSUME NEW j \in 1 .. Cardinality(S)
      PROVE  \E i \in S : C(i) = j
    <2> DEFINE R == {m \in Nat : m <= n /\ C(m) >= j}
    <2>1. n \in R
        BY <1>1, <1>3
    <2>3. PICK m \in R : \A x \in R : m <= x
        <3> HIDE DEF R
        <3>1. R \in SUBSET Nat /\ R # {}
            BY <2>1 DEF R
        <3>2. \E m \in R : \A x \in R : m <= x
            BY <3>1, LeastOf
        <3> QED
            BY <3>2
    <2>4. m \in Nat /\ m <= n /\ C(m) >= j
        OBVIOUS
    <2>5. m # 0
        BY <1>1, <1>4, <2>4
    <2>6. m - 1 \in Nat /\ m - 1 <= n /\ (m - 1) + 1 = m /\ ~(m <= m - 1)
        BY <2>4, <2>5
    <2>7. ~(C(m - 1) >= j)
        BY <2>3, <2>6
    <2>8. C(m - 1) \in Nat /\ C(m) \in Nat /\ j \in Nat
        BY <1>1, <1>2, <2>4, <2>6
    <2>9. /\ (m - 1) + 1 \in S => C((m - 1) + 1) = C(m - 1) + 1
          /\ (m - 1) + 1 \notin S => C((m - 1) + 1) = C(m - 1)
        BY <1>1, <2>6, BelowNext
    <2> HIDE DEF C
    <2>10. (m \in S => C(m) = C(m - 1) + 1) /\ (m \notin S => C(m) = C(m - 1))
        BY <2>6, <2>9
    <2> QED
        BY <2>4, <2>7, <2>8, <2>10
<1>6. \A j \in 1 .. Cardinality(S) : Nth(S, j) \in S /\ C(Nth(S, j)) = j
    BY <1>5 DEF Nth, Below
<1>7. ASSUME NEW a \in S, NEW b \in S, b <= a
      PROVE  C(b) <= C(a)
    <2>1. \A k \in S : k <= b => k <= a
        BY <1>1, <1>7
    <2>2. Below(S, b) \in SUBSET Below(S, a)
        BY <2>1, Zenon DEF Below
    <2>3. IsFiniteSet(Below(S, a))
        BY <1>1, <1>2
    <2> QED
        BY <2>2, <2>3, FS_Subset, Zenon
<1>8. ASSUME NEW j \in 1 .. Cardinality(S), NEW l \in 1 .. Cardinality(S), j < l
      PROVE  Nth(S, j) < Nth(S, l)
    <2> DEFINE a == Nth(S, j)
               b == Nth(S, l)
    <2>1. a \in S /\ b \in S /\ C(a) = j /\ C(b) = l
        BY <1>6
    <2> HIDE DEF a, b, C
    <2>2. a \in Nat /\ b \in Nat /\ (b <= a => l <= j)
        BY <1>1, <1>7, <2>1
    <2>3. a < b
        BY <1>1, <1>8, <2>2
    <2> QED
        BY <2>3 DEF a, b
<1> QED
    BY <1>1, <1>6, <1>8

LEMMA KeepOK ==
    ASSUME NEW M, NEW s \in Seq(M), NEW S \in SUBSET (DOMAIN s)
    PROVE  /\ Keep(s, S) \in Seq(M)
           /\ Len(Keep(s, S)) = Cardinality(S) /\ Len(Keep(s, S)) <= Len(s)
           /\ DOMAIN Keep(s, S) = 1 .. Cardinality(S)
           /\ \A j \in DOMAIN Keep(s, S) : Nth(S, j) \in S /\ Keep(s, S)[j] = s[Nth(S, j)]
           /\ \A j, l \in DOMAIN Keep(s, S) : j < l => Nth(S, j) < Nth(S, l)
<1>1. Len(s) \in Nat /\ DOMAIN s = 1 .. Len(s)
    BY LenProperties
<1>2. /\ Cardinality(S) \in Nat /\ Cardinality(S) <= Len(s)
      /\ \A j \in 1 .. Cardinality(S) : Nth(S, j) \in S
      /\ \A j, l \in 1 .. Cardinality(S) : j < l => Nth(S, j) < Nth(S, l)
    BY <1>1, NthOK
<1>3. \A j \in 1 .. Cardinality(S) : s[Nth(S, j)] \in M
    BY <1>1, <1>2, ElementOfSeq
<1>4. Keep(s, S) \in Seq(M)
    BY <1>2, <1>3, IsASeq DEF Keep
<1>5. DOMAIN Keep(s, S) = 1 .. Cardinality(S)
    BY DEF Keep
<1>6. Len(Keep(s, S)) = Cardinality(S)
    BY <1>2, <1>4, <1>5, LenProperties
<1>7. \A j \in 1 .. Cardinality(S) : Keep(s, S)[j] = s[Nth(S, j)]
    BY DEF Keep
<1> QED
    BY <1>2, <1>4, <1>5, <1>6, <1>7

LEMMA SetToSeqOK ==
    ASSUME NEW S, IsFiniteSet(S)
    PROVE  /\ Cardinality(S) \in Nat
           /\ \A i \in 1 .. Cardinality(S) : SetToSeq(S)[i] \in S
           /\ \A i, j \in 1 .. Cardinality(S) : SetToSeq(S)[i] = SetToSeq(S)[j] => i = j
           /\ \A x \in S : \E i \in 1 .. Cardinality(S) : SetToSeq(S)[i] = x
<1> DEFINE n == Cardinality(S)
           f == SetToSeq(S)
<1>1. n \in Nat /\ ExistsBijection(1 .. n, S)
    BY FS_CardinalityType
<1>2. \E g \in [1 .. n -> S] : IsInjective(g)
    BY <1>1 DEF ExistsBijection, Bijection, Injection
<1>3. f \in [1 .. n -> S] /\ IsInjective(f)
    BY <1>2 DEF SetToSeq
<1>4. f \in Surjection(1 .. n, S)
    <2>1. f \in Injection(1 .. n, S)
        BY <1>3 DEF Injection
    <2>2. IsFiniteSet(1 .. n) /\ Cardinality(1 .. n) = n
        BY <1>1, FS_Interval
    <2> HIDE DEF f, n
    <2>3. Cardinality(1 .. n) = Cardinality(S) <=> f \in Surjection(1 .. n, S)
        BY <2>1, FS_Injection
    <2> QED
        BY <2>2, <2>3 DEF n
<1> HIDE DEF f
<1>5. \A x \in S : \E i \in 1 .. n : f[i] = x
    BY <1>4 DEF Surjection
<1>6. \A i, j \in 1 .. n : f[i] = f[j] => i = j
    BY <1>3 DEF IsInjective
<1>7. \A i \in 1 .. n : f[i] \in S
    BY <1>3
<1> QED
    BY <1>1, <1>5, <1>6, <1>7 DEF f

-----------------------------------------------------------------------------
(* What the game is told.                                                   *)

Events == [kind : Kinds, key : Keys]

(* What a game that last heard h of the connection k has heard of it once it   *)
(* has been told of the events s.                                           *)
Told(h, s, k, kind) ==
    \/ \E i \in DOMAIN s :
         /\ s[i] = [kind |-> kind, key |-> k]
         /\ \A j \in DOMAIN s : j > i => s[j].key # k
    \/ /\ h = kind
       /\ \A i \in DOMAIN s : s[i].key # k

LEMMA ToldMore ==
    ASSUME NEW h, NEW k, NEW s \in Seq(Events), NEW t \in Seq(Events), NEW kind
    PROVE  /\ (\A i \in DOMAIN t : t[i].key # k)
                => (Told(h, s \o t, k, kind) <=> Told(h, s, k, kind))
           /\ \A i \in DOMAIN t :
                t[i].key = k /\ (\A j \in DOMAIN t : t[j].key = k => j = i)
                  => (Told(h, s \o t, k, kind) <=> kind = t[i].kind)
<1> DEFINE u == s \o t
           m == Len(s)
           n == Len(t)
<1>1. /\ u \in Seq(Events) /\ m \in Nat /\ n \in Nat
      /\ DOMAIN s = 1 .. m /\ DOMAIN t = 1 .. n /\ DOMAIN u = 1 .. m + n
      /\ \A i \in 1 .. m + n : u[i] = IF i <= m THEN s[i] ELSE t[i - m]
    BY ConcatProperties, LenProperties
<1> HIDE DEF u, m, n
<1>2. \A i \in 1 .. m : i \in 1 .. m + n /\ u[i] = s[i]
    BY <1>1
<1>3. \A i \in 1 .. n : i + m \in 1 .. m + n /\ i + m > m /\ u[i + m] = t[i]
    BY <1>1
<1>4. \A j \in 1 .. m + n : j > m => j - m \in 1 .. n /\ u[j] = t[j - m] /\ (j - m) + m = j
    BY <1>1
<1>5. \A j \in 1 .. m + n : ~(j > m) => j \in 1 .. m /\ u[j] = s[j]
    BY <1>1
<1>6. ASSUME \A i \in 1 .. n : t[i].key # k
      PROVE  Told(h, u, k, kind) <=> Told(h, s, k, kind)
    <2>1. \A j \in 1 .. m + n : j > m => u[j].key # k
        BY <1>4, <1>6
    <2>2. ASSUME Told(h, u, k, kind)
          PROVE  Told(h, s, k, kind)
        <3>1. CASE \E i \in 1 .. m + n :
                     /\ u[i] = [kind |-> kind, key |-> k]
                     /\ \A j \in 1 .. m + n : j > i => u[j].key # k
            <4>1. PICK i \in 1 .. m + n :
                     /\ u[i] = [kind |-> kind, key |-> k]
                     /\ \A j \in 1 .. m + n : j > i => u[j].key # k
                BY <3>1
            <4>2. u[i].key = k
                BY <4>1
            <4>3. ~(i > m)
                BY <2>1, <4>2
            <4>4. i \in 1 .. m /\ s[i] = [kind |-> kind, key |-> k]
                BY <1>5, <4>1, <4>3
            <4>5. \A j \in 1 .. m : j > i => s[j].key # k
                BY <1>2, <4>1
            <4> QED
                BY <1>1, <4>4, <4>5 DEF Told
        <3>2. CASE h = kind /\ \A i \in 1 .. m + n : u[i].key # k
            <4>1. \A i \in 1 .. m : s[i].key # k
                BY <1>2, <3>2
            <4> QED
                BY <1>1, <3>2, <4>1 DEF Told
        <3> QED
            BY <1>1, <2>2, <3>1, <3>2 DEF Told
    <2>3. ASSUME Told(h, s, k, kind)
          PROVE  Told(h, u, k, kind)
        <3>1. CASE \E i \in 1 .. m :
                     /\ s[i] = [kind |-> kind, key |-> k]
                     /\ \A j \in 1 .. m : j > i => s[j].key # k
            <4>1. PICK i \in 1 .. m :
                     /\ s[i] = [kind |-> kind, key |-> k]
                     /\ \A j \in 1 .. m : j > i => s[j].key # k
                BY <3>1
            <4>2. i \in 1 .. m + n /\ u[i] = [kind |-> kind, key |-> k]
                BY <1>2, <4>1
            <4>3. \A j \in 1 .. m + n : j > i => u[j].key # k
                BY <1>5, <2>1, <4>1
            <4> QED
                BY <1>1, <4>2, <4>3 DEF Told
        <3>2. CASE h = kind /\ \A i \in 1 .. m : s[i].key # k
            <4>1. \A i \in 1 .. m + n : u[i].key # k
                BY <1>5, <2>1, <3>2
            <4> QED
                BY <1>1, <3>2, <4>1 DEF Told
        <3> QED
            BY <1>1, <2>3, <3>1, <3>2 DEF Told
    <2> QED
        BY <2>2, <2>3
<1>7. ASSUME NEW i \in 1 .. n, t[i].key = k, \A j \in 1 .. n : t[j].key = k => j = i
      PROVE  Told(h, u, k, kind) <=> kind = t[i].kind
    <2>1. i + m \in 1 .. m + n /\ u[i + m] = t[i]
        BY <1>3
    <2>2. t[i] \in Events
        BY <1>1, ElementOfSeq
    <2>3. t[i] = [kind |-> t[i].kind, key |-> k]
        BY <1>7, <2>2 DEF Events
    <2>4. ASSUME NEW j \in 1 .. m + n, j > m, u[j].key = k
          PROVE  j = i + m
        <3>1. j - m \in 1 .. n /\ t[j - m].key = k /\ (j - m) + m = j
            BY <1>4, <2>4
        <3>2. j - m = i
            BY <1>7, <3>1
        <3> QED
            BY <3>1, <3>2
    <2>5. \A j \in 1 .. m + n : j > i + m => u[j].key # k
        <3>1. \A j \in 1 .. m + n : j > i + m => j > m /\ j # i + m
            BY <1>1
        <3> QED
            BY <2>4, <3>1
    <2>6. ASSUME kind = t[i].kind
          PROVE  Told(h, u, k, kind)
        BY <1>1, <2>1, <2>3, <2>5, <2>6 DEF Told
    <2>7. ASSUME Told(h, u, k, kind)
          PROVE  kind = t[i].kind
        <3>1. u[i + m].key = k
            BY <1>7, <2>1
        <3>2. PICK l \in 1 .. m + n :
                /\ u[l] = [kind |-> kind, key |-> k]
                /\ \A j \in 1 .. m + n : j > l => u[j].key # k
            BY <1>1, <2>1, <2>7, <3>1 DEF Told
        <3>3. ~(i + m > l)
            BY <2>1, <3>1, <3>2
        <3>4. l > m
            BY <1>1, <3>3
        <3>5. u[l].key = k
            BY <3>2
        <3>6. l = i + m
            BY <2>4, <3>4, <3>5
        <3>7. u[l] = t[i]
            BY <2>1, <3>6
        <3> QED
            BY <3>2, <3>7
    <2> QED
        BY <2>6, <2>7
<1> QED
    BY <1>1, <1>6, <1>7 DEF u

(* Told of the first event, the game has the others to come.                  *)
LEMMA ToldFirst ==
    ASSUME NEW h, NEW k, NEW s \in Seq(Events), s # <<>>, NEW kind
    PROVE  Told(h, s, k, kind)
             <=> Told(IF Head(s).key = k THEN Head(s).kind ELSE h, Tail(s), k, kind)
<1> DEFINE t == Tail(s)
           n == Len(s)
           e == Head(s)
           g == IF e.key = k THEN e.kind ELSE h
<1>1. /\ n \in Nat \ {0} /\ DOMAIN s = 1 .. n /\ e = s[1] /\ e \in Events
      /\ t \in Seq(Events) /\ DOMAIN t = 1 .. n - 1
      /\ \A i \in 1 .. n - 1 : t[i] = s[i + 1]
    BY HeadTailProperties, LenProperties
<1>2. g = IF e.key = k THEN e.kind ELSE h
    OBVIOUS
<1>3. e = [kind |-> e.kind, key |-> e.key]
    BY <1>1 DEF Events
<1> HIDE DEF t, n, e, g
<1>4. 1 \in 1 .. n /\ \A i \in 1 .. n - 1 : i + 1 \in 1 .. n /\ i + 1 > 1 /\ t[i] = s[i + 1]
    BY <1>1
<1>5. \A i \in 1 .. n : i # 1 => i - 1 \in 1 .. n - 1 /\ (i - 1) + 1 = i /\ t[i - 1] = s[i]
    BY <1>1
<1>6. ASSUME Told(h, s, k, kind)
      PROVE  Told(g, t, k, kind)
    <2>1. CASE \E i \in 1 .. n :
                 /\ s[i] = [kind |-> kind, key |-> k]
                 /\ \A j \in 1 .. n : j > i => s[j].key # k
        <3>1. PICK i \in 1 .. n :
                 /\ s[i] = [kind |-> kind, key |-> k]
                 /\ \A j \in 1 .. n : j > i => s[j].key # k
            BY <2>1
        <3>2. CASE i = 1
            <4>1. g = kind
                BY <1>1, <1>2, <3>1, <3>2
            <4>2. \A j \in 1 .. n - 1 : t[j].key # k
                BY <1>4, <3>1, <3>2
            <4> QED
                BY <1>1, <4>1, <4>2 DEF Told
        <3>3. CASE i # 1
            <4>1. i - 1 \in 1 .. n - 1 /\ t[i - 1] = [kind |-> kind, key |-> k] /\ (i - 1) + 1 = i
                BY <1>5, <3>1, <3>3
            <4>2. ASSUME NEW j \in 1 .. n - 1, j > i - 1
                  PROVE  t[j].key # k
                <5>1. j + 1 \in 1 .. n /\ j + 1 > i /\ t[j] = s[j + 1]
                    BY <1>1, <1>4, <4>2
                <5> QED
                    BY <3>1, <5>1
            <4> QED
                BY <1>1, <4>1, <4>2 DEF Told
        <3> QED
            BY <3>2, <3>3
    <2>2. CASE h = kind /\ \A i \in 1 .. n : s[i].key # k
        <3>1. g = kind
            BY <1>1, <1>2, <1>4, <2>2
        <3>2. \A j \in 1 .. n - 1 : t[j].key # k
            BY <1>4, <2>2
        <3> QED
            BY <1>1, <3>1, <3>2 DEF Told
    <2> QED
        BY <1>1, <1>6, <2>1, <2>2 DEF Told
<1>7. ASSUME Told(g, t, k, kind)
      PROVE  Told(h, s, k, kind)
    <2>1. CASE \E i \in 1 .. n - 1 :
                 /\ t[i] = [kind |-> kind, key |-> k]
                 /\ \A j \in 1 .. n - 1 : j > i => t[j].key # k
        <3>1. PICK i \in 1 .. n - 1 :
                 /\ t[i] = [kind |-> kind, key |-> k]
                 /\ \A j \in 1 .. n - 1 : j > i => t[j].key # k
            BY <2>1
        <3>2. i + 1 \in 1 .. n /\ s[i + 1] = [kind |-> kind, key |-> k]
            BY <1>4, <3>1
        <3>3. ASSUME NEW j \in 1 .. n, j > i + 1
              PROVE  s[j].key # k
            <4>1. j # 1 /\ j - 1 > i
                BY <1>1, <3>3
            <4> QED
                BY <1>5, <3>1, <4>1
        <3> QED
            BY <1>1, <3>2, <3>3 DEF Told
    <2>2. CASE g = kind /\ \A i \in 1 .. n - 1 : t[i].key # k
        <3>1. \A j \in 1 .. n : j # 1 => s[j].key # k
            BY <1>5, <2>2
        <3>2. CASE e.key = k
            <4>1. s[1] = [kind |-> kind, key |-> k]
                BY <1>1, <1>2, <1>3, <2>2, <3>2
            <4>2. \A j \in 1 .. n : j > 1 => s[j].key # k
                BY <3>1
            <4> QED
                BY <1>1, <1>4, <4>1, <4>2 DEF Told
        <3>3. CASE e.key # k
            <4>1. h = kind /\ \A j \in 1 .. n : s[j].key # k
                BY <1>1, <1>2, <2>2, <3>1, <3>3
            <4> QED
                BY <1>1, <4>1 DEF Told
        <3> QED
            BY <3>2, <3>3
    <2> QED
        BY <1>1, <1>7, <2>1, <2>2 DEF Told
<1> QED
    BY <1>6, <1>7 DEF g, t, e

(* One event for each of the keys.                                           *)
Notices(kind, keys) ==
    [i \in 1 .. Cardinality(keys) |-> [kind |-> kind, key |-> SetToSeq(keys)[i]]]

LEMMA KeysFinite == IsFiniteSet(Keys) /\ \A keys \in SUBSET Keys : IsFiniteSet(keys)
<1>1. IsFiniteSet(Keys)
    BY PeersAssumption, FS_Product DEF Keys
<1> QED
    BY <1>1, FS_Subset, Zenon

LEMMA NoticesOK ==
    ASSUME NEW kind \in Kinds, NEW keys \in SUBSET Keys
    PROVE  LET t == Notices(kind, keys)
           IN  /\ t \in Seq(Events)
               /\ \A k \in keys : \E i \in DOMAIN t :
                    /\ t[i].key = k /\ t[i].kind = kind
                    /\ \A j \in DOMAIN t : t[j].key = k => j = i
               /\ \A i \in DOMAIN t : t[i].key \in keys
<1> DEFINE n == Cardinality(keys)
           f == SetToSeq(keys)
           t == Notices(kind, keys)
<1>1. /\ n \in Nat
      /\ \A i \in 1 .. n : f[i] \in keys
      /\ \A i, j \in 1 .. n : f[i] = f[j] => i = j
      /\ \A x \in keys : \E i \in 1 .. n : f[i] = x
    BY KeysFinite, SetToSeqOK, Zenon
<1>2. t = [i \in 1 .. n |-> [kind |-> kind, key |-> f[i]]]
    BY DEF Notices
<1> HIDE DEF n, f, t
<1>3. /\ DOMAIN t = 1 .. n
      /\ \A i \in 1 .. n : t[i].key = f[i] /\ t[i].kind = kind /\ t[i] \in Events
    BY <1>1, <1>2 DEF Events
<1>4. t \in Seq(Events)
    <2>1. \A i \in 1 .. n : [kind |-> kind, key |-> f[i]] \in Events
        BY <1>1 DEF Events
    <2> QED
        BY <1>1, <1>2, <2>1, IsASeq
<1>5. ASSUME NEW k \in keys
      PROVE  \E i \in DOMAIN t :
               /\ t[i].key = k /\ t[i].kind = kind
               /\ \A j \in DOMAIN t : t[j].key = k => j = i
    <2>1. PICK i \in 1 .. n : f[i] = k
        BY <1>1
    <2>2. \A j \in 1 .. n : t[j].key = k => j = i
        BY <1>1, <1>3, <2>1
    <2> QED
        BY <1>3, <2>1, <2>2
<1>6. \A i \in DOMAIN t : t[i].key \in keys
    BY <1>1, <1>3
<1> QED
    BY <1>4, <1>5, <1>6 DEF t

-----------------------------------------------------------------------------
(* What a peer keeps of its connections, of its queue, and of what it has to    *)
(* tell its game.                                                          *)

Packets == [n : 0 .. MaxPackets, rel : BOOLEAN]
Arrivals == [key : Keys, packet : Packets]

EntryOK(c, d) ==
    /\ c \in [Keys -> States]
    /\ d \in [Keys -> Seq(Packets)]
    /\ \A k \in Keys : c[k] \in {"none", "open"} => d[k] = <<>>

QueueOK(c, r, g) ==
    /\ r \in Seq(Arrivals)
    /\ \A i \in DOMAIN r : c[r[i].key] = "open"
    /\ g \in [Keys -> 0 .. MaxPackets]

NewsOK(c, e, f, t, h) ==
    /\ e \in Seq(Events) /\ f \in Seq(Events)
    /\ t \in BOOLEAN /\ (f # <<>> => t)
    /\ h \in [Keys -> Kinds \cup {"nothing"}]
    /\ \A k \in Keys :
         /\ c[k] = "open" <=> Told(h[k], f \o e, k, "established")
         /\ c[k] = "requested" <=> Told(h[k], f \o e, k, "request")

(* Two states the game is told the same of, and a state with what it is told.  *)
Alike(a, b) == (a = "open" <=> b = "open") /\ (a = "requested" <=> b = "requested")
Shows(a, kind) ==
    (a = "open" <=> kind = "established") /\ (a = "requested" <=> kind = "request")

(* The game will hear of what has changed.                                    *)
LEMMA NewsQueued ==
    ASSUME NEW c, NEW e, NEW f, NEW t, NEW h, NewsOK(c, e, f, t, h),
           NEW keys \in SUBSET Keys, NEW kind \in Kinds, NEW c2,
           \A k \in Keys \ keys : Alike(c2[k], c[k]),
           \A k \in keys : Shows(c2[k], kind)
    PROVE  NewsOK(c2, e \o Notices(kind, keys), f, t, h)
<1> DEFINE n == Notices(kind, keys)
           s == f \o e
<1>1. e \in Seq(Events) /\ f \in Seq(Events)
    BY DEF NewsOK
<1>2. /\ n \in Seq(Events)
      /\ \A k \in keys : \E i \in DOMAIN n :
           /\ n[i].key = k /\ n[i].kind = kind
           /\ \A j \in DOMAIN n : n[j].key = k => j = i
      /\ \A i \in DOMAIN n : n[i].key \in keys
    BY NoticesOK
<1> HIDE DEF n
<1>3. s \in Seq(Events) /\ e \o n \in Seq(Events) /\ f \o (e \o n) = s \o n
    BY <1>1, <1>2, ConcatProperties, ConcatAssociative
<1>4. \A k \in Keys : /\ c[k] = "open" <=> Told(h[k], s, k, "established")
                      /\ c[k] = "requested" <=> Told(h[k], s, k, "request")
    BY DEF NewsOK
<1> HIDE DEF s
<1>5. ASSUME NEW k \in Keys, k \notin keys, NEW kd
      PROVE  Told(h[k], s \o n, k, kd) <=> Told(h[k], s, k, kd)
    <2>1. \A i \in DOMAIN n : n[i].key # k
        BY <1>2, <1>5
    <2> QED
        BY <1>2, <1>3, <2>1, ToldMore
<1>6. ASSUME NEW k \in keys, NEW kd \in Kinds
      PROVE  Told(h[k], s \o n, k, kd) <=> kd = kind
    <2>1. PICK i \in DOMAIN n : /\ n[i].key = k /\ n[i].kind = kind
                                /\ \A j \in DOMAIN n : n[j].key = k => j = i
        BY <1>2
    <2>2. Told(h[k], s \o n, k, kd) <=> kd = n[i].kind
        BY <1>2, <1>3, <2>1, ToldMore
    <2> QED
        BY <2>1, <2>2
<1>7. \A k \in Keys : /\ c2[k] = "open" <=> Told(h[k], s \o n, k, "established")
                      /\ c2[k] = "requested" <=> Told(h[k], s \o n, k, "request")
    <2>1. ASSUME NEW k \in Keys, k \notin keys
          PROVE  /\ c2[k] = "open" <=> Told(h[k], s \o n, k, "established")
                 /\ c2[k] = "requested" <=> Told(h[k], s \o n, k, "request")
        <3>1. k \in Keys \ keys
            BY <2>1
        <3> QED
            BY <1>4, <1>5, <2>1, <3>1 DEF Alike
    <2>2. ASSUME NEW k \in keys
          PROVE  /\ c2[k] = "open" <=> Told(h[k], s \o n, k, "established")
                 /\ c2[k] = "requested" <=> Told(h[k], s \o n, k, "request")
        <3>1. Shows(c2[k], kind)
            OBVIOUS
        <3>2. "established" \in Kinds /\ "request" \in Kinds
            BY DEF Kinds
        <3>3. Told(h[k], s \o n, k, "established") <=> "established" = kind
            BY <1>6, <3>2
        <3>4. Told(h[k], s \o n, k, "request") <=> "request" = kind
            BY <1>6, <3>2
        <3> QED
            BY <3>1, <3>3, <3>4 DEF Shows
    <2> QED
        BY <2>1, <2>2
<1> QED
    BY <1>1, <1>3, <1>7 DEF NewsOK, n

LEMMA NewsSame ==
    ASSUME NEW c, NEW e, NEW f, NEW t, NEW h, NewsOK(c, e, f, t, h), NEW c2,
           \A k \in Keys : Alike(c2[k], c[k])
    PROVE  NewsOK(c2, e, f, t, h)
    BY DEF NewsOK, Alike

LEMMA NewsTicking ==
    ASSUME NEW c, NEW e, NEW f, NEW t, NEW h, NewsOK(c, e, f, t, h)
    PROVE  /\ t = FALSE => NewsOK(c, <<>>, e, TRUE, h)
           /\ f # <<>> => NewsOK(c, e, Tail(f), t, [h EXCEPT ![Head(f).key] = Head(f).kind])
           /\ f = <<>> => NewsOK(c, e, f, FALSE, h)
<1>1. e \in Seq(Events) /\ f \in Seq(Events) /\ <<>> \in Seq(Events)
    BY EmptySeq DEF NewsOK
<1>2. CASE t = FALSE
    <2>1. f = <<>>
        BY <1>2 DEF NewsOK
    <2>2. f \o e = e /\ e \o <<>> = e
        BY <1>1, <2>1, ConcatEmptySeq
    <2> QED
        BY <1>1, <2>1, <2>2 DEF NewsOK
<1>3. ASSUME f # <<>>
      PROVE  NewsOK(c, e, Tail(f), t, [h EXCEPT ![Head(f).key] = Head(f).kind])
    <2> DEFINE a == Head(f)
               h2 == [h EXCEPT ![a.key] = a.kind]
               s == f \o e
    <2>1. a \in Events /\ Tail(f) \in Seq(Events)
        BY <1>1, <1>3, HeadTailProperties
    <2>2. s \in Seq(Events) /\ s # <<>> /\ Head(s) = a /\ Tail(s) = Tail(f) \o e
        <3>1. /\ s \in Seq(Events) /\ Len(s) = Len(f) + Len(e)
              /\ \A i \in 1 .. Len(f) + Len(e) : s[i] = IF i <= Len(f) THEN f[i] ELSE e[i - Len(f)]
            BY <1>1, ConcatProperties
        <3>2. Len(f) \in Nat \ {0} /\ Len(e) \in Nat
            BY <1>1, <1>3, LenProperties, EmptySeq
        <3>3. s # <<>>
            BY <3>1, <3>2
        <3>4. Head(s) = a
            <4>1. Head(s) = s[1] /\ a = f[1]
                BY <1>1, <1>3, <3>1, <3>3, HeadTailProperties
            <4>2. 1 \in 1 .. Len(f) + Len(e) /\ 1 <= Len(f)
                BY <3>2
            <4> QED
                BY <3>1, <4>1, <4>2
        <3>5. Tail(s) = Tail(f) \o e
            <4> DEFINE x == Tail(s)
                       y == Tail(f) \o e
                       m == Len(f)
                       n == Len(e)
            <4>1. /\ x \in Seq(Events) /\ Len(x) = m + n - 1
                  /\ \A i \in 1 .. m + n - 1 : x[i] = s[i + 1]
                BY <3>1, <3>2, <3>3, HeadTailProperties
            <4>2. /\ Len(Tail(f)) = m - 1
                  /\ \A i \in 1 .. m - 1 : Tail(f)[i] = f[i + 1]
                BY <1>1, <1>3, HeadTailProperties
            <4>3. /\ y \in Seq(Events) /\ Len(y) = (m - 1) + n
                  /\ \A i \in 1 .. (m - 1) + n : y[i] = IF i <= m - 1 THEN Tail(f)[i] ELSE e[i - (m - 1)]
                BY <1>1, <2>1, <4>2, ConcatProperties
            <4> HIDE DEF x, y, m, n, s, a, h2
            <4>4. m \in Nat \ {0} /\ n \in Nat
                BY <3>2 DEF m, n
            <4>5. \A i \in 1 .. m + n : s[i] = IF i <= m THEN f[i] ELSE e[i - m]
                BY <3>1 DEF m, n
            <4>6. ASSUME NEW i \in 1 .. m + n - 1
                  PROVE  x[i] = y[i]
                <5>1. i \in 1 .. (m - 1) + n /\ i + 1 \in 1 .. m + n /\ i - (m - 1) = (i + 1) - m
                    BY <4>4, <4>6
                <5>2. CASE i <= m - 1
                    <6>1. i \in 1 .. m - 1 /\ i + 1 <= m
                        BY <4>4, <5>2
                    <6> QED
                        BY <4>1, <4>2, <4>3, <4>5, <5>1, <5>2, <6>1
                <5>3. CASE ~(i <= m - 1)
                    <6>1. ~(i + 1 <= m)
                        BY <4>4, <5>3
                    <6> QED
                        BY <4>1, <4>3, <4>5, <5>1, <5>3, <6>1
                <5> QED
                    BY <5>2, <5>3
            <4>7. Len(x) = Len(y)
                BY <4>1, <4>3, <4>4
            <4>8. \A i \in 1 .. Len(x) : x[i] = y[i]
                BY <4>1, <4>6
            <4> QED
                BY <4>1, <4>3, <4>7, <4>8, SeqEqual DEF x, y
        <3> QED
            BY <3>1, <3>3, <3>4, <3>5
    <2>3. h2 \in [Keys -> Kinds \cup {"nothing"}]
          /\ \A k \in Keys : h2[k] = IF a.key = k THEN a.kind ELSE h[k]
        BY <2>1 DEF NewsOK, Events
    <2> HIDE DEF h2, s, a
    <2>4. ASSUME NEW k \in Keys, NEW kind
          PROVE  Told(h[k], s, k, kind) <=> Told(h2[k], Tail(f) \o e, k, kind)
        <3>1. Told(h[k], s, k, kind)
                <=> Told(IF Head(s).key = k THEN Head(s).kind ELSE h[k], Tail(s), k, kind)
            BY <2>2, ToldFirst
        <3> QED
            BY <2>2, <2>3, <3>1
    <2>5. \A k \in Keys :
             /\ c[k] = "open" <=> Told(h[k], s, k, "established")
             /\ c[k] = "requested" <=> Told(h[k], s, k, "request")
        BY DEF NewsOK, s
    <2>6. t \in BOOLEAN /\ t
        BY <1>3 DEF NewsOK
    <2>7. \A k \in Keys :
             /\ c[k] = "open" <=> Told(h2[k], Tail(f) \o e, k, "established")
             /\ c[k] = "requested" <=> Told(h2[k], Tail(f) \o e, k, "request")
        BY <2>4, <2>5
    <2> QED
        BY <1>1, <2>1, <2>3, <2>6, <2>7 DEF NewsOK, h2, a
<1>4. CASE f = <<>>
    BY <1>4 DEF NewsOK
<1> QED
    BY <1>2, <1>3, <1>4

-----------------------------------------------------------------------------
(* How a peer's own state changes.  PeerOK is about one peer; the others keep  *)
(* theirs.                                                                 *)

PeerOK(c, d, r, g, e, f, t, h) ==
    EntryOK(c, d) /\ QueueOK(c, r, g) /\ NewsOK(c, e, f, t, h)

LEMMA Established ==
    ASSUME NEW c, NEW d, NEW r, NEW g, NEW e, NEW f, NEW t, NEW h,
           PeerOK(c, d, r, g, e, f, t, h),
           NEW k \in Keys, c[k] \in {"requested", "pending"}
    PROVE  PeerOK([c EXCEPT ![k] = "open"], [d EXCEPT ![k] = <<>>], r, g,
                  e \o Notices("established", {k}), f, t, h)
<1> DEFINE c2 == [c EXCEPT ![k] = "open"]
           d2 == [d EXCEPT ![k] = <<>>]
<1>1. c2 \in [Keys -> States] /\ \A j \in Keys : c2[j] = IF j = k THEN "open" ELSE c[j]
    BY DEF PeerOK, EntryOK, States
<1>2. d2 \in [Keys -> Seq(Packets)] /\ \A j \in Keys : d2[j] = IF j = k THEN <<>> ELSE d[j]
    <2>1. <<>> \in Seq(Packets)
        BY EmptySeq
    <2> QED
        BY <2>1 DEF PeerOK, EntryOK
<1> HIDE DEF c2, d2
<1>3. EntryOK(c2, d2)
    BY <1>1, <1>2 DEF PeerOK, EntryOK
<1>4. QueueOK(c2, r, g)
    <2>1. \A i \in DOMAIN r : r[i].key \in Keys /\ c[r[i].key] = "open"
        <3>1. \A i \in DOMAIN r : r[i] \in Arrivals
            BY ElementOfSeq, LenProperties DEF PeerOK, QueueOK
        <3> QED
            BY <3>1 DEF PeerOK, QueueOK, Arrivals
    <2> QED
        BY <1>1, <2>1 DEF PeerOK, QueueOK
<1>5. NewsOK(c2, e \o Notices("established", {k}), f, t, h)
    <2>1. {k} \in SUBSET Keys /\ "established" \in Kinds
        BY DEF Kinds
    <2>2. \A j \in Keys \ {k} : Alike(c2[j], c[j])
        BY <1>1 DEF Alike, Shows
    <2>3. \A j \in {k} : Shows(c2[j], "established")
        BY <1>1 DEF Alike, Shows
    <2>4. NewsOK(c, e, f, t, h)
        BY DEF PeerOK
    <2> QED
        BY <2>1, <2>2, <2>3, <2>4, NewsQueued
<1> QED
    BY <1>3, <1>4, <1>5 DEF PeerOK, c2, d2

LEMMA Unknown ==
    ASSUME NEW c, NEW d, NEW r, NEW g, NEW e, NEW f, NEW t, NEW h,
           PeerOK(c, d, r, g, e, f, t, h),
           NEW k \in Keys, c[k] = "none"
    PROVE  PeerOK([c EXCEPT ![k] = "requested"], d, r, g,
                  e \o Notices("request", {k}), f, t, h)
<1> DEFINE c2 == [c EXCEPT ![k] = "requested"]
<1>1. c2 \in [Keys -> States] /\ \A j \in Keys : c2[j] = IF j = k THEN "requested" ELSE c[j]
    BY DEF PeerOK, EntryOK, States
<1> HIDE DEF c2
<1>2. EntryOK(c2, d)
    BY <1>1 DEF PeerOK, EntryOK
<1>3. QueueOK(c2, r, g)
    <2>1. \A i \in DOMAIN r : r[i].key \in Keys /\ c[r[i].key] = "open"
        <3>1. \A i \in DOMAIN r : r[i] \in Arrivals
            BY ElementOfSeq, LenProperties DEF PeerOK, QueueOK
        <3> QED
            BY <3>1 DEF PeerOK, QueueOK, Arrivals
    <2> QED
        BY <1>1, <2>1 DEF PeerOK, QueueOK
<1>4. NewsOK(c2, e \o Notices("request", {k}), f, t, h)
    <2>1. {k} \in SUBSET Keys /\ "request" \in Kinds
        BY DEF Kinds
    <2>2. \A j \in Keys \ {k} : Alike(c2[j], c[j])
        BY <1>1 DEF Alike, Shows
    <2>3. \A j \in {k} : Shows(c2[j], "request")
        BY <1>1 DEF Alike, Shows
    <2>4. NewsOK(c, e, f, t, h)
        BY DEF PeerOK
    <2> QED
        BY <2>1, <2>2, <2>3, <2>4, NewsQueued
<1> QED
    BY <1>2, <1>3, <1>4 DEF PeerOK, c2

(* An entry that is neither open nor asked for becomes one we wait for, and may *)
(* hold more packets than before.                                           *)
LEMMA Asked ==
    ASSUME NEW c, NEW d, NEW r, NEW g, NEW e, NEW f, NEW t, NEW h,
           PeerOK(c, d, r, g, e, f, t, h),
           NEW k \in Keys, c[k] \in {"none", "pending"},
           NEW d2 \in [Keys -> Seq(Packets)], \A j \in Keys : j # k => d2[j] = d[j]
    PROVE  PeerOK([c EXCEPT ![k] = "pending"], d2, r, g, e, f, t, h)
<1> DEFINE c2 == [c EXCEPT ![k] = "pending"]
<1>1. c2 \in [Keys -> States] /\ \A j \in Keys : c2[j] = IF j = k THEN "pending" ELSE c[j]
    BY DEF PeerOK, EntryOK, States
<1> HIDE DEF c2
<1>2. EntryOK(c2, d2)
    BY <1>1 DEF PeerOK, EntryOK
<1>3. QueueOK(c2, r, g)
    <2>1. \A i \in DOMAIN r : r[i].key \in Keys /\ c[r[i].key] = "open"
        <3>1. \A i \in DOMAIN r : r[i] \in Arrivals
            BY ElementOfSeq, LenProperties DEF PeerOK, QueueOK
        <3> QED
            BY <3>1 DEF PeerOK, QueueOK, Arrivals
    <2> QED
        BY <1>1, <2>1 DEF PeerOK, QueueOK
<1>4. NewsOK(c2, e, f, t, h)
    <2>1. \A j \in Keys : Alike(c2[j], c[j])
        BY <1>1 DEF Alike, Shows
    <2> QED
        BY <2>1, NewsSame DEF PeerOK
<1> QED
    BY <1>2, <1>3, <1>4 DEF PeerOK, c2

LEMMA Held ==
    ASSUME NEW c, NEW d, NEW r, NEW g, NEW e, NEW f, NEW t, NEW h,
           PeerOK(c, d, r, g, e, f, t, h),
           NEW k \in Keys, c[k] \in {"requested", "pending"},
           NEW d2 \in [Keys -> Seq(Packets)], \A j \in Keys : j # k => d2[j] = d[j]
    PROVE  PeerOK(c, d2, r, g, e, f, t, h)
    BY DEF PeerOK, EntryOK

(* What is left of a queue when the packets of the connections in keys go.     *)
Left(r, keys) == Keep(r, {i \in DOMAIN r : r[i].key \notin keys})

LEMMA LeftOK ==
    ASSUME NEW r \in Seq(Arrivals), NEW keys
    PROVE  /\ Left(r, keys) \in Seq(Arrivals)
           /\ Len(Left(r, keys)) <= Len(r)
           /\ \A j \in DOMAIN Left(r, keys) :
                \E i \in DOMAIN r : Left(r, keys)[j] = r[i] /\ r[i].key \notin keys
<1> DEFINE S == {i \in DOMAIN r : r[i].key \notin keys}
<1>1. S \in SUBSET (DOMAIN r)
    OBVIOUS
<1>2. \A i \in S : i \in DOMAIN r /\ r[i].key \notin keys
    OBVIOUS
<1>3. Left(r, keys) = Keep(r, S)
    BY DEF Left
<1> HIDE DEF S
<1>4. /\ Keep(r, S) \in Seq(Arrivals) /\ Len(Keep(r, S)) <= Len(r)
      /\ \A j \in DOMAIN Keep(r, S) : Nth(S, j) \in S /\ Keep(r, S)[j] = r[Nth(S, j)]
    BY <1>1, KeepOK
<1> QED
    BY <1>2, <1>3, <1>4

(* Connections end, and with them what was held and what was to be read.       *)
LEMMA Erased ==
    ASSUME NEW c, NEW d, NEW r, NEW g, NEW e, NEW f, NEW t, NEW h,
           PeerOK(c, d, r, g, e, f, t, h),
           NEW named, NEW keys \in SUBSET Keys, keys \subseteq named,
           NEW kind \in {"closed", "interrupted"}
    PROVE  PeerOK([k \in Keys |-> IF k \in keys THEN "none" ELSE c[k]],
                  [k \in Keys |-> IF k \in keys THEN <<>> ELSE d[k]],
                  Left(r, named), g, e \o Notices(kind, keys), f, t, h)
<1> DEFINE c2 == [k \in Keys |-> IF k \in keys THEN "none" ELSE c[k]]
           d2 == [k \in Keys |-> IF k \in keys THEN <<>> ELSE d[k]]
           r2 == Left(r, named)
<1>1. c2 \in [Keys -> States] /\ \A j \in Keys : c2[j] = IF j \in keys THEN "none" ELSE c[j]
    BY DEF PeerOK, EntryOK, States
<1>2. d2 \in [Keys -> Seq(Packets)] /\ \A j \in Keys : d2[j] = IF j \in keys THEN <<>> ELSE d[j]
    <2>1. <<>> \in Seq(Packets)
        BY EmptySeq
    <2> QED
        BY <2>1 DEF PeerOK, EntryOK
<1>3. /\ r2 \in Seq(Arrivals)
      /\ \A j \in DOMAIN r2 : \E i \in DOMAIN r : r2[j] = r[i] /\ r[i].key \notin named
    BY LeftOK DEF PeerOK, QueueOK
<1> HIDE DEF c2, d2, r2
<1>4. EntryOK(c2, d2)
    BY <1>1, <1>2 DEF PeerOK, EntryOK
<1>5. QueueOK(c2, r2, g)
    <2>1. ASSUME NEW j \in DOMAIN r2
          PROVE  c2[r2[j].key] = "open"
        <3>1. PICK i \in DOMAIN r : r2[j] = r[i] /\ r[i].key \notin named
            BY <1>3
        <3>2. r2[j] \in Arrivals
            BY <1>3, ElementOfSeq, LenProperties
        <3>3. c[r[i].key] = "open" /\ r[i].key \in Keys /\ r[i].key \notin keys
            BY <3>1, <3>2 DEF PeerOK, QueueOK, Arrivals
        <3> QED
            BY <1>1, <3>1, <3>3
    <2> QED
        BY <1>3, <2>1 DEF PeerOK, QueueOK
<1>6. NewsOK(c2, e \o Notices(kind, keys), f, t, h)
    <2>1. kind \in Kinds
        BY DEF Kinds
    <2>2. \A j \in Keys \ keys : Alike(c2[j], c[j])
        BY <1>1 DEF Alike, Shows
    <2>3. \A j \in keys : Shows(c2[j], kind)
        BY <1>1 DEF Alike, Shows
    <2>4. NewsOK(c, e, f, t, h)
        BY DEF PeerOK
    <2> QED
        BY <2>1, <2>2, <2>3, <2>4, NewsQueued
<1> QED
    BY <1>4, <1>5, <1>6 DEF PeerOK, c2, d2, r2

LEMMA Cleared ==
    ASSUME NEW c, NEW d, NEW r, NEW g, NEW e, NEW f, NEW t, NEW h,
           PeerOK(c, d, r, g, e, f, t, h), NEW keys
    PROVE  PeerOK(c, [k \in Keys |-> IF k \in keys THEN <<>> ELSE d[k]],
                  Left(r, keys), g, e, f, t, h)
<1> DEFINE d2 == [k \in Keys |-> IF k \in keys THEN <<>> ELSE d[k]]
           r2 == Left(r, keys)
<1>1. d2 \in [Keys -> Seq(Packets)] /\ \A j \in Keys : d2[j] = IF j \in keys THEN <<>> ELSE d[j]
    <2>1. <<>> \in Seq(Packets)
        BY EmptySeq
    <2> QED
        BY <2>1 DEF PeerOK, EntryOK
<1>2. /\ r2 \in Seq(Arrivals)
      /\ \A j \in DOMAIN r2 : \E i \in DOMAIN r : r2[j] = r[i] /\ r[i].key \notin keys
    BY LeftOK DEF PeerOK, QueueOK
<1> HIDE DEF d2, r2
<1>3. EntryOK(c, d2)
    BY <1>1 DEF PeerOK, EntryOK
<1>4. QueueOK(c, r2, g)
    BY <1>2 DEF PeerOK, QueueOK
<1> QED
    BY <1>3, <1>4 DEF PeerOK, d2, r2

LEMMA Arrived ==
    ASSUME NEW c, NEW d, NEW r, NEW g, NEW e, NEW f, NEW t, NEW h,
           PeerOK(c, d, r, g, e, f, t, h),
           NEW k \in Keys, c[k] = "open", NEW packet \in Packets
    PROVE  PeerOK(c, d, Append(r, [key |-> k, packet |-> packet]), g, e, f, t, h)
<1> DEFINE a == [key |-> k, packet |-> packet]
           r2 == Append(r, a)
<1>1. a \in Arrivals /\ a.key = k
    BY DEF Arrivals
<1> HIDE DEF a
<1>2. /\ r2 \in Seq(Arrivals) /\ Len(r2) = Len(r) + 1 /\ Len(r) \in Nat
      /\ DOMAIN r = 1 .. Len(r) /\ DOMAIN r2 = 1 .. Len(r) + 1
      /\ \A i \in 1 .. Len(r) : r2[i] = r[i]
      /\ r2[Len(r) + 1] = a
    BY <1>1, AppendProperties, LenProperties DEF PeerOK, QueueOK
<1> HIDE DEF r2
<1>3. ASSUME NEW i \in DOMAIN r2
      PROVE  c[r2[i].key] = "open"
    <2>1. i \in 1 .. Len(r) \/ i = Len(r) + 1
        BY <1>2
    <2> QED
        BY <1>1, <1>2, <2>1 DEF PeerOK, QueueOK
<1> QED
    BY <1>2, <1>3 DEF PeerOK, QueueOK, r2, a

LEMMA ReadFirst ==
    ASSUME NEW c, NEW d, NEW r, NEW g, NEW e, NEW f, NEW t, NEW h,
           PeerOK(c, d, r, g, e, f, t, h), r # <<>>
    PROVE  /\ Head(r) \in Arrivals
           /\ PeerOK(c, d, Tail(r),
                     [g EXCEPT ![Head(r).key] = IF Head(r).packet.rel THEN Head(r).packet.n ELSE @],
                     e, f, t, h)
<1> DEFINE a == Head(r)
           g2 == [g EXCEPT ![a.key] = IF a.packet.rel THEN a.packet.n ELSE @]
           r2 == Tail(r)
<1>1. /\ a \in Arrivals /\ r2 \in Seq(Arrivals)
      /\ Len(r) \in Nat \ {0} /\ DOMAIN r = 1 .. Len(r) /\ DOMAIN r2 = 1 .. Len(r) - 1
      /\ \A i \in 1 .. Len(r) - 1 : r2[i] = r[i + 1]
    BY HeadTailProperties, LenProperties, EmptySeq DEF PeerOK, QueueOK
<1> HIDE DEF a, r2
<1>2. a.key \in Keys /\ a.packet.n \in 0 .. MaxPackets
    BY <1>1 DEF Arrivals, Packets
<1>3. g2 \in [Keys -> 0 .. MaxPackets]
    <2>1. g \in [Keys -> 0 .. MaxPackets]
        BY DEF PeerOK, QueueOK
    <2> HIDE DEF PeerOK
    <2> QED
        BY <1>2, <2>1
<1> HIDE DEF g2
<1>4. ASSUME NEW i \in DOMAIN r2
      PROVE  c[r2[i].key] = "open"
    <2>1. i + 1 \in DOMAIN r /\ r2[i] = r[i + 1]
        BY <1>1
    <2> QED
        BY <2>1 DEF PeerOK, QueueOK
<1>5. QueueOK(c, r2, g2)
    BY <1>1, <1>3, <1>4 DEF QueueOK
<1> QED
    BY <1>1, <1>5 DEF PeerOK, a, r2, g2

-----------------------------------------------------------------------------
(* The inductive invariant.                                                 *)

Messages ==
    [type : {"data", "request", "response", "close"}, socket : Sockets, packet : Packets]

Datagrams == {d \in [from : Peers, to : Peers, msg : Messages] : d.from # d.to}

LinkOK == LinkTyped(Messages) /\ up \cap accepting = {} /\ air \subseteq Datagrams

SpentOK ==
    spent \in [packets : 0 .. MaxPackets, closes : Nat, offers : Nat, drops : Nat, limits : Nat]

At(p) ==
    PeerOK(conn[p], delayed[p], received[p], got[p], events[p], firing[p], ticking[p], heard[p])

PeersOK ==
    /\ conn \in [Peers -> [Keys -> States]]
    /\ delayed \in [Peers -> [Keys -> Seq(Packets)]]
    /\ received \in [Peers -> Seq(Arrivals)]
    /\ got \in [Peers -> [Keys -> 0 .. MaxPackets]]
    /\ events \in [Peers -> Seq(Events)] /\ firing \in [Peers -> Seq(Events)]
    /\ ticking \in [Peers -> BOOLEAN]
    /\ heard \in [Peers -> [Keys -> Kinds \cup {"nothing"}]]
    /\ \A p \in Peers : At(p)

IInv == LinkOK /\ SpentOK /\ PeersOK

-----------------------------------------------------------------------------
(* What the steps share.                                                    *)

LEMMA PeersSame == PeersOK /\ UNCHANGED <<entries, received, got, notices>> => PeersOK'
    BY DEF PeersOK, At, entries, notices

(* Only p's own state has changed.                                           *)
OnlyAt(p) ==
    /\ conn' = [conn EXCEPT ![p] = conn'[p]]
    /\ delayed' = [delayed EXCEPT ![p] = delayed'[p]]
    /\ received' = [received EXCEPT ![p] = received'[p]]
    /\ got' = [got EXCEPT ![p] = got'[p]]
    /\ events' = [events EXCEPT ![p] = events'[p]]
    /\ firing' = [firing EXCEPT ![p] = firing'[p]]
    /\ ticking' = [ticking EXCEPT ![p] = ticking'[p]]
    /\ heard' = [heard EXCEPT ![p] = heard'[p]]

LEMMA PeersStep ==
    ASSUME PeersOK, NEW p \in Peers, OnlyAt(p), At(p)'
    PROVE  PeersOK'
<1>1. /\ conn'[p] \in [Keys -> States] /\ delayed'[p] \in [Keys -> Seq(Packets)]
      /\ received'[p] \in Seq(Arrivals) /\ got'[p] \in [Keys -> 0 .. MaxPackets]
      /\ events'[p] \in Seq(Events) /\ firing'[p] \in Seq(Events)
      /\ ticking'[p] \in BOOLEAN /\ heard'[p] \in [Keys -> Kinds \cup {"nothing"}]
    BY DEF At, PeerOK, EntryOK, QueueOK, NewsOK
<1>2. /\ conn' \in [Peers -> [Keys -> States]]
      /\ delayed' \in [Peers -> [Keys -> Seq(Packets)]]
      /\ received' \in [Peers -> Seq(Arrivals)]
      /\ got' \in [Peers -> [Keys -> 0 .. MaxPackets]]
      /\ events' \in [Peers -> Seq(Events)] /\ firing' \in [Peers -> Seq(Events)]
      /\ ticking' \in [Peers -> BOOLEAN]
      /\ heard' \in [Peers -> [Keys -> Kinds \cup {"nothing"}]]
    BY <1>1 DEF PeersOK, OnlyAt
<1>3. ASSUME NEW r \in Peers, r # p
      PROVE  At(r)'
    <2>1. /\ conn'[r] = conn[r] /\ delayed'[r] = delayed[r] /\ received'[r] = received[r]
          /\ got'[r] = got[r] /\ events'[r] = events[r] /\ firing'[r] = firing[r]
          /\ ticking'[r] = ticking[r] /\ heard'[r] = heard[r]
        BY <1>3 DEF PeersOK, OnlyAt
    <2>2. At(r)
        BY DEF PeersOK
    <2> QED
        BY <2>1, <2>2 DEF At
<1> QED
    BY <1>2, <1>3 DEF PeersOK

LEMMA StaysAt ==
    ASSUME NEW T, NEW v \in [Peers -> T], NEW p \in Peers
    PROVE  v = [v EXCEPT ![p] = v[p]]
    OBVIOUS

LEMMA SpendOK ==
    ASSUME SpentOK, NEW what \in {"packets", "closes", "offers", "drops", "limits"}, NEW max,
           what = "packets" => max = MaxPackets, Spend(what, max)
    PROVE  SpentOK'
    BY PeersAssumption DEF SpentOK, Spend

LEMMA EstablishStep ==
    ASSUME PeersOK, NEW p \in Peers, NEW key \in Keys, conn[p][key] \in {"requested", "pending"},
           NEW first, NEW w, NEW a, Establish(p, key, first, w, a),
           UNCHANGED <<received, got, firing, ticking, heard>>
    PROVE  PeersOK'
<1>1. /\ conn'[p] = [conn[p] EXCEPT ![key] = "open"]
      /\ conn' = [conn EXCEPT ![p] = conn'[p]]
    BY DEF Establish, PeersOK
<1>2. /\ delayed'[p] = [delayed[p] EXCEPT ![key] = <<>>]
      /\ delayed' = [delayed EXCEPT ![p] = delayed'[p]]
    BY DEF Establish, PeersOK
<1>3. /\ events'[p] = events[p] \o Notices("established", {key})
      /\ events' = [events EXCEPT ![p] = events'[p]]
    BY DEF Establish, QueueEvents, Notices, PeersOK
<1>4. OnlyAt(p)
    BY <1>1, <1>2, <1>3, StaysAt DEF OnlyAt, PeersOK
<1>5. PeerOK(conn[p], delayed[p], received[p], got[p], events[p], firing[p], ticking[p], heard[p])
    BY DEF PeersOK, At
<1>6. PeerOK([conn[p] EXCEPT ![key] = "open"], [delayed[p] EXCEPT ![key] = <<>>], received[p],
             got[p], events[p] \o Notices("established", {key}), firing[p], ticking[p], heard[p])
    BY <1>5, Established
<1>7. At(p)'
    BY <1>1, <1>2, <1>3, <1>6 DEF At
<1> QED
    BY <1>4, <1>7, PeersStep

LEMMA UnknownStep ==
    ASSUME PeersOK, NEW p \in Peers, NEW key \in Keys, NEW w, NEW a, OnUnknown(p, key, w, a),
           UNCHANGED <<got, firing, ticking, heard>>
    PROVE  PeersOK'
<1>1. /\ conn'[p] = [conn[p] EXCEPT ![key] = "requested"]
      /\ conn' = [conn EXCEPT ![p] = conn'[p]]
    BY DEF OnUnknown, PeersOK
<1>2. /\ events'[p] = events[p] \o Notices("request", {key})
      /\ events' = [events EXCEPT ![p] = events'[p]]
    BY DEF OnUnknown, QueueEvents, Notices, PeersOK
<1>3. UNCHANGED <<delayed, received>>
    BY DEF OnUnknown
<1>4. OnlyAt(p)
    BY <1>1, <1>2, <1>3, StaysAt DEF OnlyAt, PeersOK
<1>5. PeerOK(conn[p], delayed[p], received[p], got[p], events[p], firing[p], ticking[p], heard[p])
    BY DEF PeersOK, At
<1>6. PeerOK([conn[p] EXCEPT ![key] = "requested"], delayed[p], received[p],
             got[p], events[p] \o Notices("request", {key}), firing[p], ticking[p], heard[p])
    BY <1>5, Unknown DEF OnUnknown
<1>7. At(p)'
    BY <1>1, <1>2, <1>3, <1>6 DEF At
<1> QED
    BY <1>4, <1>7, PeersStep

LEMMA EraseStep ==
    ASSUME PeersOK, NEW p \in Peers, NEW named, NEW keys \in SUBSET Keys, keys \subseteq named,
           NEW kind \in {"closed", "interrupted"},
           Erase(p, keys), FlushPackets(p, named), QueueEvents(p, kind, keys),
           UNCHANGED <<got, firing, ticking, heard>>
    PROVE  PeersOK'
<1>1. /\ conn'[p] = [k \in Keys |-> IF k \in keys THEN "none" ELSE conn[p][k]]
      /\ conn' = [conn EXCEPT ![p] = conn'[p]]
    BY DEF Erase, PeersOK
<1>2. /\ delayed'[p] = [k \in Keys |-> IF k \in keys THEN <<>> ELSE delayed[p][k]]
      /\ delayed' = [delayed EXCEPT ![p] = delayed'[p]]
    BY DEF Erase, PeersOK
<1>3. /\ received'[p] = Left(received[p], named)
      /\ received' = [received EXCEPT ![p] = received'[p]]
    BY DEF FlushPackets, Left, PeersOK
<1>4. /\ events'[p] = events[p] \o Notices(kind, keys)
      /\ events' = [events EXCEPT ![p] = events'[p]]
    BY DEF QueueEvents, Notices, PeersOK
<1>5. OnlyAt(p)
    BY <1>1, <1>2, <1>3, <1>4, StaysAt DEF OnlyAt, PeersOK
<1>6. PeerOK(conn[p], delayed[p], received[p], got[p], events[p], firing[p], ticking[p], heard[p])
    BY DEF PeersOK, At
<1>7. PeerOK([k \in Keys |-> IF k \in keys THEN "none" ELSE conn[p][k]],
             [k \in Keys |-> IF k \in keys THEN <<>> ELSE delayed[p][k]],
             Left(received[p], named), got[p], events[p] \o Notices(kind, keys),
             firing[p], ticking[p], heard[p])
    BY <1>6, Erased
<1>8. At(p)'
    BY <1>1, <1>2, <1>3, <1>4, <1>7 DEF At
<1> QED
    BY <1>5, <1>8, PeersStep

LEMMA Kinded ==
    ASSUME NEW key \in Keys,
           NEW type \in {"data", "request", "response", "close"}, NEW packet \in Packets
    PROVE  Message(type, key[2], packet) \in Messages
    BY DEF Message, Messages, Keys

LEMMA ControlOK ==
    ASSUME NEW key \in Keys, NEW type \in {"data", "request", "response", "close"}
    PROVE  Control(type, key) \in Seq(Messages)
<1>1. Nothing \in Packets
    BY PeersAssumption DEF Nothing, Packets
<1>2. Message(type, key[2], Nothing) \in Messages
    BY <1>1, Kinded
<1> QED
    BY <1>2 DEF Control

(* Whatever goes by wire or by air is a message to another peer.              *)
LEMMA TransmitOK ==
    ASSUME NEW p \in Peers, NEW key \in Keys, p # key[1],
           NEW first \in Seq(Messages), NEW packets \in Seq(Packets),
           NEW w, Streams(w, Messages), NEW a \in SUBSET Datagrams,
           Transmit(p, key, first, packets, w, a)
    PROVE  Streams(wire', Messages) /\ air' \subseteq Datagrams
<1> DEFINE q == key[1]
           messages == [i \in DOMAIN packets |-> Message("data", key[2], packets[i])]
           flying == {i \in DOMAIN packets : ~packets[i].rel /\ {<<p, q>>, <<q, p>>} \subseteq up}
<1>1. PICK byAir \in SUBSET flying :
        /\ wire' = Posted(w, p, q, first \o Keep(messages, DOMAIN packets \ byAir))
        /\ air' = a \cup {[from |-> p, to |-> q, msg |-> messages[i]] : i \in byAir}
    BY DEF Transmit
<1>2. DOMAIN packets = 1 .. Len(packets) /\ Len(packets) \in Nat
    BY LenProperties
<1>3. \A i \in DOMAIN packets : messages[i] \in Messages
    <2>1. \A i \in DOMAIN packets : packets[i] \in Packets
        BY ElementOfSeq, LenProperties
    <2>2. \A i \in DOMAIN packets : Message("data", key[2], packets[i]) \in Messages
        BY <2>1, Kinded
    <2> QED
        BY <2>2
<1>4. messages \in Seq(Messages) /\ DOMAIN messages = DOMAIN packets
    <2>1. DOMAIN messages = 1 .. Len(packets)
        BY <1>2
    <2> HIDE DEF messages
    <2>2. \A i \in 1 .. Len(packets) : messages[i] \in Messages
        BY <1>2, <1>3
    <2>3. messages = [i \in 1 .. Len(packets) |-> messages[i]]
        BY <1>2 DEF messages
    <2> QED
        BY <1>2, <2>1, <2>2, <2>3, IsASeq
<1>5. byAir \subseteq DOMAIN packets
    OBVIOUS
<1> HIDE DEF messages, flying
<1>6. Keep(messages, DOMAIN packets \ byAir) \in Seq(Messages)
    <2>1. DOMAIN packets \ byAir \in SUBSET (DOMAIN messages)
        BY <1>4
    <2> QED
        BY <1>4, <2>1, KeepOK
<1>7. first \o Keep(messages, DOMAIN packets \ byAir) \in Seq(Messages)
    BY <1>6, ConcatProperties
<1>8. Streams(wire', Messages)
    BY <1>1, <1>7, PostedSeq
<1>9. \A i \in byAir : [from |-> p, to |-> q, msg |-> messages[i]] \in Datagrams
    <2>1. q \in Peers
        BY DEF Keys
    <2> QED
        BY <1>3, <1>5, <2>1 DEF Datagrams
<1> QED
    BY <1>1, <1>8, <1>9

LEMMA PostedControl ==
    ASSUME NEW p, NEW q, NEW key \in Keys, NEW w, Streams(w, Messages),
           NEW type \in {"data", "request", "response", "close"}
    PROVE  Streams(Posted(w, p, q, Control(type, key)), Messages)
    BY ControlOK, PostedSeq

LEMMA LinkStep ==
    ASSUME LinkOK, Streams(wire', Messages), air' \subseteq Datagrams,
           UNCHANGED <<up, accepting, late>>
    PROVE  LinkOK'
    BY LinkSent DEF LinkOK

LEMMA LinkKept == LinkOK /\ UNCHANGED linkVars => LinkOK'
    BY LinkSame DEF LinkOK, linkVars

-----------------------------------------------------------------------------
(* The calls.                                                               *)

LEMMA Numbered ==
    ASSUME SpentOK, Spend("packets", MaxPackets), NEW rel \in BOOLEAN
    PROVE  [n |-> spent.packets + 1, rel |-> rel] \in Packets
<1>1. spent.packets + 1 \in 0 .. MaxPackets
    BY PeersAssumption DEF SpentOK, Spend
<1> QED
    BY <1>1 DEF Packets

LEMMA HoldBackOK ==
    ASSUME PeersOK, SpentOK, NEW p \in Peers, NEW key \in Keys, NEW rel \in BOOLEAN,
           NEW hold, HoldBack(p, key, rel, hold)
    PROVE  /\ SpentOK'
           /\ delayed'[p] \in [Keys -> Seq(Packets)]
           /\ delayed' = [delayed EXCEPT ![p] = delayed'[p]]
           /\ \A j \in Keys : j # key => delayed'[p][j] = delayed[p][j]
<1>1. delayed \in [Peers -> [Keys -> Seq(Packets)]]
    BY DEF PeersOK
<1>2. CASE UNCHANGED <<delayed, spent>>
    BY <1>1, <1>2 DEF SpentOK
<1>3. CASE /\ Spend("packets", MaxPackets)
           /\ delayed' = [delayed EXCEPT ![p][key] =
                            Append(@, [n |-> spent.packets + 1, rel |-> rel])]
    <2>1. SpentOK'
        BY <1>3, SpendOK
    <2> DEFINE n == [n |-> spent.packets + 1, rel |-> rel]
               s == Append(delayed[p][key], n)
    <2>2. n \in Packets
        BY <1>3, Numbered
    <2>3. s \in Seq(Packets)
        BY <1>1, <2>2, AppendProperties
    <2>4. delayed' = [delayed EXCEPT ![p][key] = s]
        BY <1>3
    <2> HIDE DEF s
    <2> QED
        BY <1>1, <2>1, <2>3, <2>4
<1> QED
    BY <1>2, <1>3 DEF HoldBack

(* Asking for a connection, with or without a packet to hold.                 *)
LEMMA AskStep ==
    ASSUME LinkOK, PeersOK, NEW p \in Peers, NEW key \in Keys, conn[p][key] \in {"none", "pending"},
           Ask(p, key), delayed'[p] \in [Keys -> Seq(Packets)],
           delayed' = [delayed EXCEPT ![p] = delayed'[p]],
           \A j \in Keys : j # key => delayed'[p][j] = delayed[p][j],
           UNCHANGED <<queues, notices, up, accepting, late>>
    PROVE  LinkOK' /\ PeersOK'
<1>1. LinkOK'
    <2>1. "request" \in {"data", "request", "response", "close"}
        OBVIOUS
    <2>2. Streams(wire, Messages) /\ air \subseteq Datagrams
        BY DEF LinkOK, LinkTyped
    <2>3. Streams(Posted(wire, p, key[1], Control("request", key)), Messages)
        BY <2>1, <2>2, PostedControl
    <2>4. Streams(wire', Messages) /\ air' \subseteq Datagrams
        BY <2>2, <2>3 DEF Ask
    <2> QED
        BY <2>4, LinkStep
<1>2. conn'[p] = [conn[p] EXCEPT ![key] = "pending"] /\ conn' = [conn EXCEPT ![p] = conn'[p]]
    BY DEF Ask, PeersOK
<1>3. UNCHANGED <<received, got, events, firing, ticking, heard>>
    BY DEF queues, notices
<1>4. OnlyAt(p)
    BY <1>2, <1>3, StaysAt DEF OnlyAt, PeersOK
<1>5. PeerOK(conn[p], delayed[p], received[p], got[p], events[p], firing[p], ticking[p], heard[p])
    BY DEF PeersOK, At
<1>6. PeerOK([conn[p] EXCEPT ![key] = "pending"], delayed'[p], received[p], got[p],
             events[p], firing[p], ticking[p], heard[p])
    BY <1>5, Asked
<1>7. At(p)'
    BY <1>2, <1>3, <1>6 DEF At
<1> QED
    BY <1>1, <1>4, <1>7, PeersStep

LEMMA SendPacketStep ==
    ASSUME IInv, NEW p \in Peers, NEW key \in Keys, NEW rel \in BOOLEAN, NEW hold,
           SendPacket(p, key, rel, hold)
    PROVE  IInv'
<1> USE DEF IInv
<1>1. CASE SendPacketNew(p, key, rel, hold)
    <2>1. /\ SpentOK'
          /\ delayed'[p] \in [Keys -> Seq(Packets)]
          /\ delayed' = [delayed EXCEPT ![p] = delayed'[p]]
          /\ \A j \in Keys : j # key => delayed'[p][j] = delayed[p][j]
        BY <1>1, HoldBackOK DEF SendPacketNew
    <2> QED
        BY <1>1, <2>1, AskStep DEF SendPacketNew
<1>2. CASE SendPacketEarly(p, key, rel, hold)
    <2>1. /\ SpentOK'
          /\ delayed'[p] \in [Keys -> Seq(Packets)]
          /\ delayed' = [delayed EXCEPT ![p] = delayed'[p]]
          /\ \A j \in Keys : j # key => delayed'[p][j] = delayed[p][j]
        BY <1>2, HoldBackOK DEF SendPacketEarly
    <2>2. UNCHANGED <<conn, received, got, events, firing, ticking, heard, linkVars>>
        BY <1>2 DEF SendPacketEarly, queues, notices
    <2>3. OnlyAt(p)
        BY <2>1, <2>2, StaysAt DEF OnlyAt, PeersOK
    <2>4. PeerOK(conn[p], delayed[p], received[p], got[p], events[p], firing[p], ticking[p], heard[p])
        BY DEF PeersOK, At
    <2>5. PeerOK(conn[p], delayed'[p], received[p], got[p], events[p], firing[p], ticking[p], heard[p])
        BY <1>2, <2>1, <2>4, Held DEF SendPacketEarly
    <2>6. At(p)'
        BY <2>2, <2>5 DEF At
    <2> QED
        BY <2>1, <2>2, <2>3, <2>6, PeersStep, LinkKept
<1>3. CASE SendPacketOpen(p, key, rel)
    <2>1. Spend("packets", MaxPackets) /\ p # key[1]
        BY <1>3 DEF SendPacketOpen, CanCall
    <2>2. SpentOK'
        BY <2>1, SpendOK
    <2>3. PeersOK'
        BY <1>3, PeersSame DEF SendPacketOpen, queues
    <2> DEFINE n == [n |-> spent.packets + 1, rel |-> rel]
    <2>4. n \in Packets
        BY <2>1, Numbered
    <2>5. Transmit(p, key, <<>>, <<n>>, wire, air)
        BY <1>3 DEF SendPacketOpen
    <2> HIDE DEF n
    <2>6. <<n>> \in Seq(Packets) /\ <<>> \in Seq(Messages)
        BY <2>4
    <2>7. Streams(wire, Messages) /\ air \in SUBSET Datagrams
        BY DEF LinkOK, LinkTyped
    <2>8. Streams(wire', Messages) /\ air' \subseteq Datagrams
        BY <2>1, <2>5, <2>6, <2>7, TransmitOK
    <2> QED
        BY <1>3, <2>2, <2>3, <2>8, LinkStep DEF SendPacketOpen
<1> QED
    BY <1>1, <1>2, <1>3 DEF SendPacket

LEMMA AcceptStep ==
    ASSUME IInv, NEW p \in Peers, NEW key \in Keys, AcceptRequested(p, key) \/ AcceptOffer(p, key)
    PROVE  IInv'
<1> USE DEF IInv
<1>1. CASE AcceptRequested(p, key)
    <2>1. "response" \in {"data", "request", "response", "close"}
        OBVIOUS
    <2>2. Control("response", key) \in Seq(Messages)
        BY <2>1, ControlOK
    <2>3. /\ Establish(p, key, Control("response", key), wire, air)
          /\ conn[p][key] = "requested" /\ p # key[1]
          /\ UNCHANGED <<received, got, firing, ticking, heard, spent, up, accepting, late>>
        BY <1>1 DEF AcceptRequested, CanCall, queues
    <2>4. PeersOK'
        BY <2>3, EstablishStep
    <2>5. /\ Transmit(p, key, Control("response", key), delayed[p][key], wire, air)
          /\ delayed[p][key] \in Seq(Packets)
        BY <2>3 DEF Establish, PeersOK
    <2>6. Streams(wire, Messages) /\ air \in SUBSET Datagrams
        BY DEF LinkOK, LinkTyped
    <2>7. Streams(wire', Messages) /\ air' \subseteq Datagrams
        BY <2>2, <2>3, <2>5, <2>6, TransmitOK
    <2> QED
        BY <2>3, <2>4, <2>7, LinkStep DEF SpentOK
<1>2. CASE AcceptOffer(p, key)
    <2>1. SpentOK'
        BY <1>2, SpendOK DEF AcceptOffer
    <2>2. /\ delayed'[p] \in [Keys -> Seq(Packets)]
          /\ delayed' = [delayed EXCEPT ![p] = delayed'[p]]
          /\ \A j \in Keys : j # key => delayed'[p][j] = delayed[p][j]
        BY <1>2, StaysAt DEF AcceptOffer, PeersOK
    <2> QED
        BY <1>2, <2>1, <2>2, AskStep DEF AcceptOffer
<1> QED
    BY <1>1, <1>2

(* The peers whose connections end are told, each of its own.                 *)
LEMMA ClosesOK ==
    ASSUME NEW closed \in SUBSET Keys
    PROVE  [i \in 1 .. Cardinality(closed) |-> Message("close", SetToSeq(closed)[i][2], Nothing)]
             \in Seq(Messages)
<1>1. /\ Cardinality(closed) \in Nat
      /\ \A i \in 1 .. Cardinality(closed) : SetToSeq(closed)[i] \in closed
    BY KeysFinite, SetToSeqOK
<1>2. Nothing \in Packets
    BY PeersAssumption DEF Nothing, Packets
<1>3. "close" \in {"data", "request", "response", "close"}
    OBVIOUS
<1>4. \A k \in Keys : Message("close", k[2], Nothing) \in Messages
    BY <1>2, <1>3, Kinded
<1>5. \A i \in 1 .. Cardinality(closed) :
        Message("close", SetToSeq(closed)[i][2], Nothing) \in Messages
    BY <1>1, <1>4
<1> QED
    BY <1>1, <1>5, IsASeq

LEMMA CloseConnectionStep ==
    ASSUME IInv, NEW p \in Peers, NEW q \in Peers, NEW sockets \in SUBSET Sockets,
           CloseConnection(p, q, sockets)
    PROVE  IInv'
<1> USE DEF IInv
<1> DEFINE named == {q} \X sockets
           closed == Entries(p, named)
           closes == [i \in 1 .. Cardinality(closed) |->
                        Message("close", SetToSeq(closed)[i][2], Nothing)]
<1>1. named \subseteq Keys /\ closed \in SUBSET Keys /\ closed \subseteq named
    BY DEF Entries, Keys
<1>2. /\ Spend("closes", MaxCloses)
      /\ wire' = Posted(wire, p, q, closes)
      /\ QueueEvents(p, "closed", closed) /\ Erase(p, closed) /\ FlushPackets(p, named)
      /\ UNCHANGED <<overflows, limits, got, firing, ticking, heard>>
      /\ UNCHANGED <<up, accepting, air, late>>
    BY DEF CloseConnection
<1>3. closes \in Seq(Messages)
    BY <1>1, ClosesOK
<1> HIDE DEF named, closed, closes
<1>4. SpentOK'
    BY <1>2, SpendOK
<1>5. PeersOK'
    BY <1>1, <1>2, EraseStep
<1>6. Streams(wire', Messages) /\ air' \subseteq Datagrams
    BY <1>2, <1>3, PostedSeq DEF LinkOK, LinkTyped
<1> QED
    BY <1>2, <1>4, <1>5, <1>6, LinkStep

LEMMA CloseConnectionsStep ==
    ASSUME IInv, NEW p \in Peers, NEW socket \in Sockets, CloseConnections(p, socket)
    PROVE  IInv'
<1> USE DEF IInv
<1> DEFINE closed == Entries(p, Peers \X {socket})
<1>1. closed \in SUBSET Keys
    BY DEF Entries, Keys
<1>2. /\ Spend("closes", MaxCloses)
      /\ wire' = [pq \in Pairs |->
                    IF pq[1] = p /\ <<pq[2], socket>> \in closed
                    THEN Posted(wire, p, pq[2], Control("close", <<pq[2], socket>>))[pq]
                    ELSE wire[pq]]
      /\ QueueEvents(p, "closed", closed) /\ Erase(p, closed) /\ FlushPackets(p, closed)
      /\ UNCHANGED <<overflows, limits, got, firing, ticking, heard>>
      /\ UNCHANGED <<up, accepting, air, late>>
    BY DEF CloseConnections
<1> HIDE DEF closed
<1>3. SpentOK'
    BY <1>2, SpendOK
<1>4. PeersOK'
    BY <1>1, <1>2, EraseStep
<1>5. ASSUME NEW pq \in Pairs
      PROVE  wire'[pq] \in Seq(Messages \cup {Eof})
    <2>1. Streams(wire, Messages) /\ wire[pq] \in Seq(Messages \cup {Eof})
        BY DEF LinkOK, LinkTyped, Streams
    <2>2. CASE pq[1] = p /\ <<pq[2], socket>> \in closed
        <3>1. "close" \in {"data", "request", "response", "close"} /\ <<pq[2], socket>> \in Keys
            BY <1>1, <2>2
        <3>2. Streams(Posted(wire, p, pq[2], Control("close", <<pq[2], socket>>)), Messages)
            BY <2>1, <3>1, PostedControl
        <3>3. wire'[pq] = Posted(wire, p, pq[2], Control("close", <<pq[2], socket>>))[pq]
            BY <1>2, <2>2
        <3> QED
            BY <3>2, <3>3 DEF Streams
    <2>3. CASE ~(pq[1] = p /\ <<pq[2], socket>> \in closed)
        BY <1>2, <2>1, <2>3
    <2> QED
        BY <2>2, <2>3
<1>6. Streams(wire', Messages) /\ air' \subseteq Datagrams
    <2>1. DOMAIN wire' = Pairs /\ wire' = [pq \in Pairs |-> wire'[pq]]
        BY <1>2
    <2>2. air' \subseteq Datagrams
        BY <1>2 DEF LinkOK
    <2> QED
        BY <1>5, <2>1, <2>2 DEF Streams
<1> QED
    BY <1>2, <1>3, <1>4, <1>6, LinkStep

LEMMA ReceivePacketStep ==
    ASSUME IInv, NEW p \in Peers, ReceivePacket(p)
    PROVE  IInv'
<1> USE DEF IInv
<1>1. /\ received[p] # <<>>
      /\ received' = [received EXCEPT ![p] = Tail(@)]
      /\ got' = [got EXCEPT ![p][Head(received[p]).key] =
                   IF Head(received[p]).packet.rel THEN Head(received[p]).packet.n ELSE @]
      /\ UNCHANGED <<conn, delayed, events, firing, ticking, heard, spent, linkVars>>
    BY DEF ReceivePacket, entries, notices
<1>2. PeerOK(conn[p], delayed[p], received[p], got[p], events[p], firing[p], ticking[p], heard[p])
    BY DEF PeersOK, At
<1> DEFINE r == Head(received[p])
           g == [got[p] EXCEPT ![r.key] = IF r.packet.rel THEN r.packet.n ELSE @]
<1>3. PeerOK(conn[p], delayed[p], Tail(received[p]), g,
             events[p], firing[p], ticking[p], heard[p])
    BY <1>1, <1>2, ReadFirst
<1>4. got'[p] = g /\ got' = [got EXCEPT ![p] = got'[p]]
    BY <1>1 DEF PeersOK
<1> HIDE DEF g
<1>5. received'[p] = Tail(received[p]) /\ received' = [received EXCEPT ![p] = received'[p]]
    BY <1>1 DEF PeersOK
<1>6. OnlyAt(p)
    BY <1>1, <1>4, <1>5, StaysAt DEF OnlyAt, PeersOK
<1>7. At(p)'
    BY <1>1, <1>3, <1>4, <1>5 DEF At
<1> QED
    BY <1>1, <1>6, <1>7, PeersStep, LinkKept DEF SpentOK

LEMMA ClearPacketQueueStep ==
    ASSUME IInv, NEW p \in Peers, NEW keys, ClearPacketQueue(p, keys)
    PROVE  IInv'
<1> USE DEF IInv
<1>1. /\ Spend("closes", MaxCloses)
      /\ FlushPackets(p, keys)
      /\ UNCHANGED <<conn, got, events, firing, ticking, heard, linkVars>>
    BY DEF ClearPacketQueue, notices
<1>2. /\ delayed'[p] = [k \in Keys |-> IF k \in keys THEN <<>> ELSE delayed[p][k]]
      /\ delayed' = [delayed EXCEPT ![p] = delayed'[p]]
    BY DEF ClearPacketQueue, PeersOK
<1>3. /\ received'[p] = Left(received[p], keys)
      /\ received' = [received EXCEPT ![p] = received'[p]]
    BY <1>1 DEF FlushPackets, Left, PeersOK
<1>4. OnlyAt(p)
    BY <1>1, <1>2, <1>3, StaysAt DEF OnlyAt, PeersOK
<1>5. PeerOK(conn[p], delayed[p], received[p], got[p], events[p], firing[p], ticking[p], heard[p])
    BY DEF PeersOK, At
<1>6. PeerOK(conn[p], [k \in Keys |-> IF k \in keys THEN <<>> ELSE delayed[p][k]],
             Left(received[p], keys), got[p], events[p], firing[p], ticking[p], heard[p])
    BY <1>5, Cleared
<1>7. At(p)'
    BY <1>1, <1>2, <1>3, <1>6 DEF At
<1>8. SpentOK'
    BY <1>1, SpendOK
<1> QED
    BY <1>1, <1>4, <1>7, <1>8, PeersStep, LinkKept

LEMMA SetPacketQueueSizeStep ==
    ASSUME IInv, NEW p \in Peers, NEW limit, SetPacketQueueSize(p, limit)
    PROVE  IInv'
<1>1. Spend("limits", MaxLimits) /\ UNCHANGED <<entries, received, got, notices, linkVars>>
    BY DEF SetPacketQueueSize
<1>2. SpentOK'
    BY <1>1, SpendOK DEF IInv
<1> QED
    BY <1>1, <1>2, PeersSame, LinkKept DEF IInv

-----------------------------------------------------------------------------
(* The tick.                                                                *)

LEMMA TickStep ==
    ASSUME IInv, NEW p \in Peers, Tick(p)
    PROVE  IInv'
<1> USE DEF IInv
<1>1. NewsOK(conn[p], events[p], firing[p], ticking[p], heard[p])
    BY DEF PeersOK, At, PeerOK
<1>2. UNCHANGED <<conn, delayed, received, got, spent, linkVars>>
    BY DEF Tick, StartFrame, FireEvent, EndFrame, entries, queues
<1>3. /\ NewsOK(conn[p], events'[p], firing'[p], ticking'[p], heard'[p])
      /\ events' = [events EXCEPT ![p] = events'[p]]
      /\ firing' = [firing EXCEPT ![p] = firing'[p]]
      /\ ticking' = [ticking EXCEPT ![p] = ticking'[p]]
      /\ heard' = [heard EXCEPT ![p] = heard'[p]]
    <2>1. CASE StartFrame(p)
        <3>1. NewsOK(conn[p], <<>>, events[p], TRUE, heard[p])
            <4>1. ticking[p] = FALSE
                BY <2>1 DEF StartFrame, PeersOK
            <4>2. ticking[p] = FALSE => NewsOK(conn[p], <<>>, events[p], TRUE, heard[p])
                BY <1>1, NewsTicking
            <4> QED
                BY <4>1, <4>2
        <3>2. events'[p] = <<>> /\ firing'[p] = events[p] /\ ticking'[p] = TRUE /\ heard' = heard
            BY <2>1 DEF StartFrame, PeersOK
        <3>3. /\ events' = [events EXCEPT ![p] = events'[p]]
              /\ firing' = [firing EXCEPT ![p] = firing'[p]]
              /\ ticking' = [ticking EXCEPT ![p] = ticking'[p]]
            BY <2>1, <3>2 DEF StartFrame
        <3> QED
            BY <3>1, <3>2, <3>3, StaysAt DEF PeersOK
    <2>2. CASE FireEvent(p)
        <3> DEFINE e == Head(firing[p])
                   h == [heard[p] EXCEPT ![e.key] = e.kind]
        <3>1. NewsOK(conn[p], events[p], Tail(firing[p]), ticking[p], h)
            BY <1>1, <2>2, NewsTicking DEF FireEvent
        <3>2. heard'[p] = h /\ heard' = [heard EXCEPT ![p] = heard'[p]]
            BY <2>2 DEF FireEvent, PeersOK
        <3> HIDE DEF e, h
        <3>3. firing'[p] = Tail(firing[p]) /\ UNCHANGED <<events, ticking>>
            BY <2>2 DEF FireEvent, PeersOK
        <3>4. firing' = [firing EXCEPT ![p] = firing'[p]]
            BY <2>2, <3>3 DEF FireEvent
        <3> QED
            BY <3>1, <3>2, <3>3, <3>4, StaysAt DEF PeersOK
    <2>3. CASE EndFrame(p)
        <3>1. NewsOK(conn[p], events[p], firing[p], FALSE, heard[p])
            BY <1>1, <2>3, NewsTicking DEF EndFrame
        <3>2. ticking'[p] = FALSE /\ UNCHANGED <<events, firing, heard>>
            BY <2>3 DEF EndFrame, PeersOK
        <3>3. ticking' = [ticking EXCEPT ![p] = ticking'[p]]
            BY <2>3, <3>2 DEF EndFrame
        <3> QED
            BY <3>1, <3>2, <3>3, StaysAt DEF PeersOK
    <2> QED
        BY <2>1, <2>2, <2>3 DEF Tick
<1>4. OnlyAt(p)
    BY <1>2, <1>3, StaysAt DEF OnlyAt, PeersOK
<1>5. EntryOK(conn[p], delayed[p]) /\ QueueOK(conn[p], received[p], got[p])
    BY DEF PeersOK, At, PeerOK
<1>6. At(p)'
    BY <1>2, <1>3, <1>5 DEF At, PeerOK
<1> QED
    BY <1>2, <1>4, <1>6, PeersStep, LinkKept DEF SpentOK

-----------------------------------------------------------------------------
(* The mesh.                                                                *)

Moved(w, a) == Streams(w, Messages) /\ a \subseteq Datagrams

LEMMA EstablishMoves ==
    ASSUME PeersOK, NEW p \in Peers, NEW key \in Keys, p # key[1],
           conn[p][key] \in {"requested", "pending"},
           NEW first \in Seq(Messages), NEW w, NEW a, Moved(w, a), Establish(p, key, first, w, a),
           UNCHANGED <<received, got, firing, ticking, heard>>
    PROVE  PeersOK' /\ Moved(wire', air')
<1>1. Transmit(p, key, first, delayed[p][key], w, a) /\ delayed[p][key] \in Seq(Packets)
    BY DEF Establish, PeersOK
<1>2. Streams(w, Messages) /\ a \in SUBSET Datagrams
    BY DEF Moved
<1>3. Streams(wire', Messages) /\ air' \subseteq Datagrams
    BY <1>1, <1>2, TransmitOK
<1> QED
    BY <1>3, EstablishStep DEF Moved

LEMMA OnDataStep ==
    ASSUME PeersOK, NEW p \in Peers, NEW key \in Keys, NEW packet \in Packets,
           NEW w, NEW a, Moved(w, a), OnData(p, key, packet, w, a),
           UNCHANGED <<got, firing, ticking, heard>>
    PROVE  PeersOK' /\ Moved(wire', air')
<1>1. Moved(wire', air')
    BY DEF OnData, OnUnknown, Unmoved
<1>2. CASE OnUnknown(p, key, w, a)
    BY <1>1, <1>2, UnknownStep
<1>3. CASE UNCHANGED <<entries, events, received>>
    BY <1>1, <1>3, PeersSame DEF notices
<1>4. CASE /\ conn[p][key] = "open"
           /\ received' = [received EXCEPT ![p] = Append(@, [key |-> key, packet |-> packet])]
           /\ UNCHANGED <<entries, events>>
    <2> DEFINE r == Append(received[p], [key |-> key, packet |-> packet])
    <2>1. PeerOK(conn[p], delayed[p], received[p], got[p], events[p], firing[p], ticking[p], heard[p])
        BY DEF PeersOK, At
    <2>2. PeerOK(conn[p], delayed[p], r, got[p], events[p], firing[p], ticking[p], heard[p])
        BY <1>4, <2>1, Arrived
    <2>3. received'[p] = r /\ received' = [received EXCEPT ![p] = received'[p]]
        BY <1>4 DEF PeersOK
    <2> HIDE DEF r
    <2>4. OnlyAt(p)
        BY <1>4, <2>3, StaysAt DEF OnlyAt, PeersOK, entries
    <2>5. At(p)'
        BY <1>4, <2>2, <2>3 DEF At, entries
    <2> QED
        BY <1>1, <2>4, <2>5, PeersStep
<1> QED
    BY <1>2, <1>3, <1>4 DEF OnData

LEMMA OnRequestStep ==
    ASSUME PeersOK, NEW p \in Peers, NEW key \in Keys, p # key[1],
           NEW w, NEW a, Moved(w, a), OnRequest(p, key, w, a),
           UNCHANGED <<got, firing, ticking, heard>>
    PROVE  PeersOK' /\ Moved(wire', air')
<1>1. "response" \in {"data", "request", "response", "close"}
    OBVIOUS
<1>2. CASE OnUnknown(p, key, w, a)
    BY <1>2, UnknownStep DEF OnUnknown, Unmoved
<1>3. CASE /\ conn[p][key] = "pending"
           /\ Establish(p, key, Control("response", key), w, a)
           /\ UNCHANGED received
    <2>1. Control("response", key) \in Seq(Messages)
        BY <1>1, ControlOK
    <2> QED
        BY <1>3, <2>1, EstablishMoves
<1>4. CASE /\ wire' = Posted(w, p, key[1], Control("response", key)) /\ air' = a
           /\ UNCHANGED <<entries, events, received>>
    <2>1. Streams(w, Messages)
        BY DEF Moved
    <2>2. Streams(wire', Messages)
        BY <1>1, <1>4, <2>1, PostedControl
    <2> QED
        BY <1>4, <2>2, PeersSame DEF notices, Moved
<1>5. CASE Unmoved(w, a) /\ UNCHANGED <<entries, events, received>>
    BY <1>5, PeersSame DEF notices, Unmoved
<1> QED
    BY <1>2, <1>3, <1>4, <1>5 DEF OnRequest

LEMMA OnResponseStep ==
    ASSUME PeersOK, NEW p \in Peers, NEW key \in Keys, p # key[1],
           NEW w, NEW a, Moved(w, a), OnResponse(p, key, w, a),
           UNCHANGED <<got, firing, ticking, heard>>
    PROVE  PeersOK' /\ Moved(wire', air')
<1>1. CASE conn[p][key] = "pending" /\ Establish(p, key, <<>>, w, a) /\ UNCHANGED received
    <2>1. <<>> \in Seq(Messages)
        BY EmptySeq
    <2> QED
        BY <1>1, <2>1, EstablishMoves
<1>2. CASE Unmoved(w, a) /\ UNCHANGED <<entries, events, received>>
    BY <1>2, PeersSame DEF notices, Unmoved
<1> QED
    BY <1>1, <1>2 DEF OnResponse

LEMMA OnCloseStep ==
    ASSUME PeersOK, NEW p \in Peers, NEW key \in Keys,
           NEW w, NEW a, Moved(w, a), OnClose(p, key, w, a),
           UNCHANGED <<got, firing, ticking, heard>>
    PROVE  PeersOK' /\ Moved(wire', air')
<1>1. Moved(wire', air')
    BY DEF OnClose, Unmoved
<1>2. CASE /\ Erase(p, {key}) /\ FlushPackets(p, {key}) /\ QueueEvents(p, "closed", {key})
    <2>1. {key} \in SUBSET Keys /\ {key} \subseteq {key}
        OBVIOUS
    <2> QED
        BY <1>1, <1>2, <2>1, EraseStep
<1>3. CASE UNCHANGED <<entries, events, received>>
    BY <1>1, <1>3, PeersSame DEF notices
<1> QED
    BY <1>2, <1>3 DEF OnClose

LEMMA OnNetworkMessageStep ==
    ASSUME PeersOK, NEW p \in Peers, NEW q \in Peers, p # q, NEW m \in Messages,
           NEW w, NEW a, Moved(w, a), OnNetworkMessage(p, q, m, w, a)
    PROVE  PeersOK' /\ Moved(wire', air') /\ UNCHANGED spent
<1> DEFINE key == <<q, m.socket>>
<1>1. key \in Keys /\ key[1] = q /\ m.packet \in Packets
    BY DEF Messages, Keys
<1>2. /\ \/ OnData(p, key, m.packet, w, a) \/ OnRequest(p, key, w, a)
         \/ OnResponse(p, key, w, a) \/ OnClose(p, key, w, a)
      /\ UNCHANGED <<limits, got, firing, ticking, heard, spent>>
    BY DEF OnNetworkMessage
<1> HIDE DEF key
<1> QED
    BY <1>1, <1>2, OnDataStep, OnRequestStep, OnResponseStep, OnCloseStep

LEMMA DeliverStep ==
    ASSUME IInv, NEW p \in Peers, NEW q \in Peers \ {p}, Deliver(p, q)
    PROVE  IInv'
<1> USE DEF IInv
<1> DEFINE m == Head(wire[<<q, p>>])
           w == [wire EXCEPT ![<<q, p>>] = Tail(@)]
<1>1. /\ wire[<<q, p>>] # <<>> /\ m # Eof
      /\ OnNetworkMessage(p, q, m, w, air)
      /\ UNCHANGED <<up, accepting, late>>
    BY DEF Deliver
<1>2. m \in Messages /\ Streams(w, Messages)
    BY <1>1, ReadOK DEF LinkOK
<1>3. Moved(w, air)
    BY <1>2 DEF Moved, LinkOK
<1> HIDE DEF m, w
<1>4. PeersOK' /\ Moved(wire', air') /\ UNCHANGED spent
    BY <1>1, <1>2, <1>3, OnNetworkMessageStep
<1> QED
    BY <1>1, <1>4, LinkStep DEF Moved, SpentOK

LEMMA DeliverLateStep ==
    ASSUME IInv, NEW p \in Peers, DeliverLate(p)
    PROVE  IInv'
<1> USE DEF IInv
<1> DEFINE q == Head(late[p]).from
           m == Head(late[p]).msg
<1>1. /\ late[p] # <<>> /\ OnNetworkMessage(p, q, m, wire, air)
      /\ late' = [late EXCEPT ![p] = Tail(@)] /\ UNCHANGED <<up, accepting>>
    BY DEF DeliverLate
<1>2. q \in Peers \ {p} /\ m \in Messages
    BY <1>1, ReadLateOK DEF LinkOK
<1>3. Moved(wire, air)
    BY DEF Moved, LinkOK, LinkTyped
<1> HIDE DEF q, m
<1>4. PeersOK' /\ Moved(wire', air') /\ UNCHANGED spent
    BY <1>1, <1>2, <1>3, OnNetworkMessageStep
<1>5. LinkTyped(Messages)'
    BY <1>1, <1>4, LateTaken DEF LinkOK, Moved
<1> QED
    BY <1>1, <1>4, <1>5 DEF LinkOK, Moved, SpentOK

LEMMA DeliverDatagramStep ==
    ASSUME IInv, NEW p \in Peers, DeliverDatagram(p)
    PROVE  IInv'
<1> USE DEF IInv
<1>1. PICK d \in air : d.to = p /\ OnNetworkMessage(p, d.from, d.msg, wire, air \ {d})
    BY DEF DeliverDatagram
<1>2. d.from \in Peers /\ d.from # p /\ d.msg \in Messages
    BY <1>1 DEF LinkOK, Datagrams
<1>3. Moved(wire, air \ {d})
    BY DEF Moved, LinkOK, LinkTyped
<1>4. PeersOK' /\ Moved(wire', air') /\ UNCHANGED spent
    BY <1>1, <1>2, <1>3, OnNetworkMessageStep
<1> QED
    BY <1>4, LinkStep DEF DeliverDatagram, Moved, SpentOK

LEMMA LoseStep ==
    ASSUME IInv, NEW p \in Peers, NEW q \in Peers \ {p}, NEW n \in Nat, Lose(p, q, n)
    PROVE  IInv'
<1> USE DEF IInv
<1>1. DropPeer(p, q, n, wire) /\ OnPeerDisconnected(p, q)
    BY DEF Lose
<1>2. SpentOK'
    <2>1. "drops" \in {"packets", "closes", "offers", "drops", "limits"} /\ "drops" # "packets"
        OBVIOUS
    <2>2. UNCHANGED spent \/ Spend("drops", MaxDrops)
        BY DEF Lose
    <2>3. Spend("drops", MaxDrops) => SpentOK'
        BY <2>1, SpendOK
    <2> QED
        BY <2>2, <2>3 DEF SpentOK
<1> DEFINE gone == Entries(p, KeysOf(q))
<1>3. gone \in SUBSET Keys /\ gone \subseteq KeysOf(q)
    BY DEF Entries, KeysOf, Keys
<1>4. /\ Erase(p, gone) /\ FlushPackets(p, KeysOf(q)) /\ QueueEvents(p, "interrupted", gone)
      /\ UNCHANGED <<got, firing, ticking, heard>>
    BY <1>1 DEF OnPeerDisconnected
<1> HIDE DEF gone
<1>5. PeersOK'
    BY <1>3, <1>4, EraseStep
<1>6. LinkTyped(Messages)'
    BY <1>1, DropOK DEF LinkOK, LinkTyped
<1>7. up' \subseteq up /\ accepting' = accepting /\ air' \subseteq air
    BY <1>1 DEF DropPeer
<1> QED
    BY <1>2, <1>5, <1>6, <1>7 DEF LinkOK

(* Two streams of the wire replaced.                                          *)
LEMMA TwoStreams ==
    ASSUME NEW M, Streams(wire, M), NEW j \in Pairs, NEW k \in Pairs,
           NEW s \in Seq(M \cup {Eof}), NEW t \in Seq(M \cup {Eof}),
           wire' = [wire EXCEPT ![j] = s, ![k] = t]
    PROVE  Streams(wire', M)
<1> DEFINE v == [wire EXCEPT ![j] = s]
<1>1. wire' = [v EXCEPT ![k] = t]
    OBVIOUS
<1>2. v \in [Pairs -> Seq(M \cup {Eof})]
    BY DEF Streams
<1> HIDE DEF v
<1> QED
    BY <1>1, <1>2 DEF Streams

LEMMA MeetStep ==
    ASSUME IInv, NEW p \in Peers, NEW q \in Peers \ {p}, Meet(p, q)
    PROVE  IInv'
<1> USE DEF IInv
<1>1. /\ UNCHANGED <<entries, queues, notices, spent>>
      /\ MeetAsDialler(p, q, <<>>) \/ MeetAsAcceptor(p, q, <<>>)
    BY DEF Meet
<1>2. PeersOK' /\ SpentOK'
    BY <1>1, PeersSame DEF SpentOK, queues
<1>3. /\ <<p, q>> \in Pairs /\ <<q, p>> \in Pairs /\ <<p, q>> # <<q, p>>
      /\ Streams(wire, Messages) /\ <<>> \in Seq(Messages \cup {Eof})
      /\ up \subseteq Pairs /\ accepting \subseteq Pairs /\ up \cap accepting = {}
    BY EmptySeq DEF Pairs, LinkOK, LinkTyped
<1>4. /\ up' = up \cup {<<p, q>>} /\ UNCHANGED late /\ air' \subseteq air
      /\ Streams(wire', Messages)
      /\ accepting' \subseteq Pairs /\ up' \cap accepting' = {}
    <2>1. CASE MeetAsDialler(p, q, <<>>)
        <3>1. Streams(wire', Messages)
            BY <1>3, <2>1, TwoStreams DEF MeetAsDialler
        <3>2. /\ up' = up \cup {<<p, q>>} /\ accepting' = accepting \cup {<<q, p>>}
              /\ UNCHANGED late /\ air' \subseteq air
              /\ <<p, q>> \notin up \cup accepting /\ <<q, p>> \notin up \cup accepting
            BY <2>1 DEF MeetAsDialler
        <3>3. accepting' \subseteq Pairs /\ up' \cap accepting' = {}
            BY <1>3, <3>2, Zenon
        <3> QED
            BY <3>1, <3>2, <3>3
    <2>2. CASE MeetAsAcceptor(p, q, <<>>)
        <3>1. /\ up' = up \cup {<<p, q>>} /\ accepting' = accepting \ {<<p, q>>}
              /\ UNCHANGED late /\ air' \subseteq air
            BY <2>2 DEF MeetAsAcceptor
        <3> DEFINE s == wire[<<p, q>>] \o <<>>
        <3>2. s \in Seq(Messages \cup {Eof})
            BY <1>3, ConcatProperties DEF Streams
        <3>3. wire' = IF Reads(q, p) THEN [wire EXCEPT ![<<p, q>>] = s] ELSE wire
            BY <2>2 DEF MeetAsAcceptor
        <3> HIDE DEF s
        <3>4. Streams(wire', Messages)
            BY <1>3, <3>2, <3>3 DEF Streams
        <3> QED
            BY <1>3, <3>1, <3>4
    <2> QED
        BY <1>1, <2>1, <2>2
<1>5. up' \subseteq Pairs
    BY <1>3, <1>4
<1> QED
    BY <1>2, <1>4, <1>5 DEF LinkOK, LinkTyped

LEMMA GiveUpStep ==
    ASSUME IInv, NEW p \in Peers, NEW q \in Peers \ {p}, GiveUp(p, q)
    PROVE  IInv'
<1> USE DEF IInv
<1> DEFINE e == IF <<q, p>> \in up THEN <<Eof>> ELSE <<>>
<1>1. /\ accepting' = accepting \ {<<p, q>>}
      /\ wire' = [wire EXCEPT ![<<q, p>>] = <<>>, ![<<p, q>>] = e]
      /\ UNCHANGED <<up, air, late, entries, queues, notices>>
      /\ Spend("drops", MaxDrops)
    BY DEF GiveUp, TurnAway
<1>2. PeersOK'
    BY <1>1, PeersSame DEF queues
<1>3. SpentOK'
    <2>1. "drops" \in {"packets", "closes", "offers", "drops", "limits"} /\ "drops" # "packets"
        OBVIOUS
    <2> QED
        BY <1>1, <2>1, SpendOK
<1>4. /\ <<p, q>> \in Pairs /\ <<q, p>> \in Pairs /\ Streams(wire, Messages)
      /\ <<>> \in Seq(Messages \cup {Eof})
    BY EmptySeq DEF Pairs, LinkOK, LinkTyped
<1>5. e \in Seq(Messages \cup {Eof})
    <2>1. <<Eof>> \in Seq(Messages \cup {Eof})
        OBVIOUS
    <2> QED
        BY <1>4, <2>1
<1> HIDE DEF e
<1>6. Streams(wire', Messages)
    BY <1>1, <1>4, <1>5, TwoStreams
<1> QED
    BY <1>1, <1>2, <1>3, <1>6 DEF LinkOK, LinkTyped

-----------------------------------------------------------------------------
(* The invariant holds.                                                      *)

LEMMA InitIInv == Init => IInv
<1> SUFFICES ASSUME Init PROVE IInv
    OBVIOUS
<1>1. /\ <<>> \in Seq(Messages \cup {Eof}) /\ <<>> \in Seq(Packets) /\ <<>> \in Seq(Arrivals)
      /\ <<>> \in Seq(Events) /\ \A r \in Peers : <<>> \in Seq(Envelopes(r, Messages))
      /\ 0 \in 0 .. MaxPackets
    BY EmptySeq, PeersAssumption
<1>2. LinkOK
    <2>1. /\ up \in {{}, Pairs} /\ accepting = {} /\ air = {}
          /\ wire = [pq \in Pairs |-> <<>>] /\ late = [p \in Peers |-> <<>>]
        BY DEF Init, LinkInit, LinkInitMet
    <2>2. Streams(wire, Messages)
        BY <1>1, <2>1 DEF Streams
    <2> QED
        BY <1>1, <2>1, <2>2 DEF LinkOK, LinkTyped
<1>3. SpentOK
    BY <1>1 DEF Init, SpentOK
<1>4. /\ conn \in [Peers -> [Keys -> States]]
      /\ delayed \in [Peers -> [Keys -> Seq(Packets)]]
      /\ received \in [Peers -> Seq(Arrivals)]
      /\ got \in [Peers -> [Keys -> 0 .. MaxPackets]]
      /\ events \in [Peers -> Seq(Events)] /\ firing \in [Peers -> Seq(Events)]
      /\ ticking \in [Peers -> BOOLEAN]
      /\ heard \in [Peers -> [Keys -> Kinds \cup {"nothing"}]]
    <2>1. conn \in [Peers -> [Keys -> States]]
        BY DEF Init, States
    <2>2. heard \in [Peers -> [Keys -> Kinds \cup {"nothing"}]] /\ ticking \in [Peers -> BOOLEAN]
        BY DEF Init
    <2>3. /\ delayed \in [Peers -> [Keys -> Seq(Packets)]] /\ received \in [Peers -> Seq(Arrivals)]
        BY <1>1 DEF Init
    <2>4. /\ got \in [Peers -> [Keys -> 0 .. MaxPackets]]
          /\ events \in [Peers -> Seq(Events)] /\ firing \in [Peers -> Seq(Events)]
        BY <1>1 DEF Init
    <2> QED
        BY <2>1, <2>2, <2>3, <2>4
<1>5. ASSUME NEW p \in Peers
      PROVE  At(p)
    <2>1. /\ \A k \in Keys : conn[p][k] = "none" /\ delayed[p][k] = <<>> /\ heard[p][k] = "nothing"
          /\ received[p] = <<>> /\ events[p] = <<>> /\ firing[p] = <<>>
        BY DEF Init
    <2>2. EntryOK(conn[p], delayed[p]) /\ QueueOK(conn[p], received[p], got[p])
        BY <1>4, <2>1 DEF EntryOK, QueueOK
    <2>3. firing[p] \o events[p] = <<>> /\ DOMAIN <<>> = {}
        BY <1>1, <2>1, ConcatEmptySeq
    <2>4. NewsOK(conn[p], events[p], firing[p], ticking[p], heard[p])
        <3>1. \A k \in Keys : /\ ~Told(heard[p][k], firing[p] \o events[p], k, "established")
                              /\ ~Told(heard[p][k], firing[p] \o events[p], k, "request")
            BY <2>1, <2>3 DEF Told
        <3> QED
            BY <1>4, <2>1, <3>1 DEF NewsOK
    <2> QED
        BY <2>2, <2>4 DEF At, PeerOK
<1> QED
    BY <1>2, <1>3, <1>4, <1>5 DEF IInv, PeersOK

LEMMA StepIInv == IInv /\ [Next]_vars => IInv'
<1> SUFFICES ASSUME IInv, [Next]_vars PROVE IInv'
    OBVIOUS
<1>1. CASE UNCHANGED vars
    BY <1>1, LinkKept, PeersSame DEF IInv, vars, queues, SpentOK
<1>2. ASSUME NEW p \in Peers, Calls(p)
      PROVE  IInv'
    <2>1. {{s} : s \in Sockets} \cup {Sockets} \subseteq SUBSET Sockets
        OBVIOUS
    <2>2. ASSUME NEW key \in Keys, NEW rel \in BOOLEAN, NEW hold \in BOOLEAN,
                 SendPacket(p, key, rel, hold)
          PROVE  IInv'
        BY <2>2, SendPacketStep
    <2>3. ASSUME NEW key \in Keys, AcceptRequested(p, key) \/ AcceptOffer(p, key)
          PROVE  IInv'
        BY <2>3, AcceptStep
    <2>4. ASSUME NEW q \in Others(p), NEW sockets \in {{s} : s \in Sockets} \cup {Sockets},
                 CloseConnection(p, q, sockets)
          PROVE  IInv'
        BY <2>1, <2>4, CloseConnectionStep DEF Others
    <2>5. ASSUME NEW socket \in Sockets, CloseConnections(p, socket)
          PROVE  IInv'
        BY <2>5, CloseConnectionsStep
    <2>6. ASSUME NEW keys, ClearPacketQueue(p, keys)
          PROVE  IInv'
        BY <2>6, ClearPacketQueueStep
    <2>7. ASSUME NEW limit, SetPacketQueueSize(p, limit)
          PROVE  IInv'
        BY <2>7, SetPacketQueueSizeStep
    <2> QED
        BY <1>2, <2>2, <2>3, <2>4, <2>5, <2>6, <2>7, ReceivePacketStep DEF Calls
<1>3. ASSUME NEW p \in Peers, Tick(p)
      PROVE  IInv'
    BY <1>3, TickStep
<1>4. ASSUME NEW p \in Peers, Mesh(p)
      PROVE  IInv'
    <2>1. ASSUME NEW q \in Others(p), NEW n \in 0 .. Len(wire[<<q, p>>]), Lose(p, q, n)
          PROVE  IInv'
        BY <2>1, LoseStep DEF Others
    <2>2. ASSUME NEW q \in Others(p), Deliver(p, q) \/ Meet(p, q) \/ GiveUp(p, q)
          PROVE  IInv'
        BY <2>2, DeliverStep, MeetStep, GiveUpStep DEF Others
    <2> QED
        BY <1>4, <2>1, <2>2, DeliverLateStep, DeliverDatagramStep DEF Mesh
<1> QED
    BY <1>1, <1>2, <1>3, <1>4 DEF Next

THEOREM Invariance == Spec => []IInv
<1>1. Init => IInv
    BY InitIInv
<1>2. IInv /\ [Next]_vars => IInv'
    BY StepIInv
<1> QED
    BY <1>1, <1>2, PTL DEF Spec

(* Every variable keeps its type; an entry that is gone holds nothing back,    *)
(* and notifications are only under way inside a tick (discard_delayed,      *)
(* cb_run_frame).                                                          *)
THEOREM TypeCorrect == Spec => []TypeOK
<1>1. IInv => TypeOK
    <2> SUFFICES ASSUME IInv PROVE TypeOK
        OBVIOUS
    <2>1. up \cup accepting \subseteq Pairs /\ up \cap accepting = {}
        BY DEF IInv, LinkOK, LinkTyped
    <2>2. ASSUME NEW p \in Peers
          PROVE  /\ \A k \in Keys : conn[p][k] = "none" => delayed[p][k] = <<>>
                 /\ firing[p] # <<>> => ticking[p]
        BY DEF IInv, PeersOK, At, PeerOK, EntryOK, NewsOK
    <2> QED
        BY <2>1, <2>2 DEF TypeOK, IInv, PeersOK
<1> QED
    BY <1>1, Invariance, PTL

(* Whatever the order of calls, ticks and messages, the notifications told and  *)
(* to come name exactly the connections that are open and the requests that  *)
(* wait (queue_event, fire_connection_notifications).                       *)
THEOREM GameIsInformed == Spec => []GameInformed
<1>1. IInv => GameInformed
    <2> SUFFICES ASSUME IInv, NEW p \in Peers, NEW key \in Keys
                 PROVE  /\ conn[p][key] = "open" <=> Hears(p, key, "established")
                        /\ conn[p][key] = "requested" <=> Hears(p, key, "request")
        BY DEF GameInformed
    <2>1. \A kind : Hears(p, key, kind) <=> Told(heard[p][key], firing[p] \o events[p], key, kind)
        BY DEF Hears, Told
    <2>2. NewsOK(conn[p], events[p], firing[p], ticking[p], heard[p])
        BY DEF IInv, PeersOK, At, PeerOK
    <2> QED
        BY <2>1, <2>2 DEF NewsOK
<1> QED
    BY <1>1, Invariance, PTL

(* However a connection is lost, its packets leave the queue with it           *)
(* (flush_packets).                                                        *)
THEOREM NoPacketOutlivesItsConnection == Spec => []QueueOnlyOpen
<1>1. IInv => QueueOnlyOpen
    <2> SUFFICES ASSUME IInv, NEW p \in Peers, NEW i \in DOMAIN received[p]
                 PROVE  conn[p][received[p][i].key] = "open"
        BY DEF QueueOnlyOpen, Range
    <2> QED
        BY DEF IInv, PeersOK, At, PeerOK, QueueOK
<1> QED
    BY <1>1, Invariance, PTL

-----------------------------------------------------------------------------
(* The limit on the queue.                                                  *)

Bounded(p) ==
    Len(received'[p]) > Len(received[p]) =>
        limits[p].in = Unlimited \/ Len(received'[p]) <= limits[p].in

LEMMA NoLonger ==
    ASSUME PeersOK, NEW p \in Peers, NEW r \in Peers, NEW s,
           s \in Seq(Arrivals), Len(s) <= Len(received[p]),
           received' = [received EXCEPT ![p] = s]
    PROVE  Bounded(r)
<1>1. Len(received[r]) \in Nat /\ Len(received[p]) \in Nat /\ Len(s) \in Nat
    BY LenProperties DEF PeersOK
<1>2. received'[r] = IF r = p THEN s ELSE received[r]
    BY DEF PeersOK
<1> QED
    BY <1>1, <1>2 DEF Bounded

LEMMA FlushBounded ==
    ASSUME PeersOK, NEW p \in Peers, NEW r \in Peers, NEW keys, FlushPackets(p, keys)
    PROVE  Bounded(r)
<1>1. received[p] \in Seq(Arrivals)
    BY DEF PeersOK
<1>2. Left(received[p], keys) \in Seq(Arrivals) /\ Len(Left(received[p], keys)) <= Len(received[p])
    BY <1>1, LeftOK
<1>3. received' = [received EXCEPT ![p] = Left(received[p], keys)]
    BY DEF FlushPackets, Left
<1> QED
    BY <1>2, <1>3, NoLonger

LEMMA SameBounded ==
    ASSUME PeersOK, NEW r \in Peers, UNCHANGED received
    PROVE  Bounded(r)
<1>1. Len(received[r]) \in Nat
    BY LenProperties DEF PeersOK
<1> QED
    BY <1>1 DEF Bounded

LEMMA MessageBounded ==
    ASSUME PeersOK, NEW p \in Peers, NEW r \in Peers, NEW q \in Peers, NEW m \in Messages,
           NEW w, NEW a, OnNetworkMessage(p, q, m, w, a)
    PROVE  Bounded(r)
<1> DEFINE key == <<q, m.socket>>
<1>1. key \in Keys /\ m.packet \in Packets
    BY DEF Messages, Keys
<1>2. \/ OnData(p, key, m.packet, w, a) \/ OnRequest(p, key, w, a)
      \/ OnResponse(p, key, w, a) \/ OnClose(p, key, w, a)
    BY DEF OnNetworkMessage
<1> HIDE DEF key
<1>3. CASE OnData(p, key, m.packet, w, a)
    <2>1. CASE UNCHANGED received
        BY <2>1, SameBounded
    <2>2. CASE /\ Fits(Len(received[p]), limits[p].in)
               /\ received' = [received EXCEPT ![p] =
                                 Append(@, [key |-> key, packet |-> m.packet])]
        <3> DEFINE x == [key |-> key, packet |-> m.packet]
                   s == Append(received[p], x)
        <3>1. x \in Arrivals
            BY <1>1 DEF Arrivals
        <3> HIDE DEF x
        <3>2. Len(s) = Len(received[p]) + 1 /\ Len(received[p]) \in Nat
            BY <3>1, AppendProperties, LenProperties DEF PeersOK
        <3>3. received'[r] = IF r = p THEN s ELSE received[r]
            BY <2>2 DEF PeersOK, x
        <3>4. Len(received[r]) \in Nat
            BY LenProperties DEF PeersOK
        <3>5. limits[p].in = Unlimited \/ Len(received[p]) + 1 <= limits[p].in
            BY <2>2 DEF Fits
        <3> HIDE DEF s
        <3> QED
            BY <3>2, <3>3, <3>4, <3>5 DEF Bounded
    <2> QED
        BY <1>3, <2>1, <2>2 DEF OnData, OnUnknown
<1>4. CASE OnRequest(p, key, w, a) \/ OnResponse(p, key, w, a)
    BY <1>4, SameBounded DEF OnRequest, OnResponse, OnUnknown
<1>5. CASE OnClose(p, key, w, a)
    BY <1>5, SameBounded, FlushBounded DEF OnClose
<1> QED
    BY <1>2, <1>3, <1>4, <1>5

(* A packet that would make the queue longer than the limit of the moment is   *)
(* turned away, also when the game lowers the limit under a longer queue     *)
(* (on_network_message, set_packet_queue_size).                            *)
THEOREM LimitIsRespected == Spec => LimitRespected
<1>1. ASSUME IInv, [Next]_vars, NEW r \in Peers
      PROVE  Bounded(r)
    <2>1. PeersOK
        BY <1>1 DEF IInv
    <2>2. CASE UNCHANGED received
        BY <2>1, <2>2, SameBounded
    <2>3. ASSUME NEW p \in Peers, Calls(p)
          PROVE  Bounded(r)
        <3>1. CASE ReceivePacket(p)
            <4>1. Tail(received[p]) \in Seq(Arrivals) /\ Len(Tail(received[p])) <= Len(received[p])
                BY <2>1, <3>1, HeadTailProperties, LenProperties DEF ReceivePacket, PeersOK
            <4> QED
                BY <2>1, <3>1, <4>1, NoLonger DEF ReceivePacket
        <3>2. ASSUME NEW q, NEW sockets, CloseConnection(p, q, sockets)
              PROVE  Bounded(r)
            BY <2>1, <3>2, FlushBounded DEF CloseConnection
        <3>3. ASSUME NEW socket, CloseConnections(p, socket)
              PROVE  Bounded(r)
            BY <2>1, <3>3, FlushBounded DEF CloseConnections
        <3>4. ASSUME NEW keys, ClearPacketQueue(p, keys)
              PROVE  Bounded(r)
            BY <2>1, <3>4, FlushBounded DEF ClearPacketQueue
        <3>5. ASSUME NEW key, NEW rel, NEW hold,
                     SendPacket(p, key, rel, hold) \/ AcceptRequested(p, key) \/ AcceptOffer(p, key)
              PROVE  Bounded(r)
            <4>1. UNCHANGED received
                BY <3>5 DEF SendPacket, SendPacketNew, SendPacketEarly, SendPacketOpen,
                            AcceptRequested, AcceptOffer, queues
            <4> QED
                BY <2>1, <4>1, SameBounded
        <3>6. ASSUME NEW limit, SetPacketQueueSize(p, limit)
              PROVE  Bounded(r)
            BY <2>1, <3>6, SameBounded DEF SetPacketQueueSize
        <3> QED
            BY <2>3, <3>1, <3>2, <3>3, <3>4, <3>5, <3>6 DEF Calls
    <2>4. ASSUME NEW p \in Peers, Tick(p)
          PROVE  Bounded(r)
        <3>1. UNCHANGED received
            BY <2>4 DEF Tick, StartFrame, FireEvent, EndFrame, queues
        <3> QED
            BY <2>1, <3>1, SameBounded
    <2>5. ASSUME NEW p \in Peers, Mesh(p)
          PROVE  Bounded(r)
        <3>1. ASSUME NEW q \in Others(p), NEW n, Lose(p, q, n)
              PROVE  Bounded(r)
            BY <2>1, <3>1, FlushBounded DEF Lose, OnPeerDisconnected
        <3>2. ASSUME NEW q \in Others(p), Meet(p, q) \/ GiveUp(p, q)
              PROVE  Bounded(r)
            BY <2>1, <3>2, SameBounded DEF Meet, GiveUp, queues
        <3>3. ASSUME NEW q \in Others(p), Deliver(p, q)
              PROVE  Bounded(r)
            <4>1. Head(wire[<<q, p>>]) \in Messages
                BY <1>1, <3>3, ReadOK DEF Deliver, IInv, LinkOK, Others
            <4> QED
                BY <2>1, <3>3, <4>1, MessageBounded DEF Deliver, Others
        <3>4. CASE DeliverLate(p)
            <4>1. Head(late[p]).from \in Peers /\ Head(late[p]).msg \in Messages
                BY <1>1, <3>4, ReadLateOK DEF DeliverLate, IInv, LinkOK
            <4> QED
                BY <2>1, <3>4, <4>1, MessageBounded DEF DeliverLate
        <3>5. CASE DeliverDatagram(p)
            <4>1. \A d \in air : d.from \in Peers /\ d.msg \in Messages
                BY <1>1 DEF IInv, LinkOK, Datagrams
            <4> QED
                BY <2>1, <3>5, <4>1, MessageBounded DEF DeliverDatagram
        <3> QED
            BY <2>5, <3>1, <3>2, <3>3, <3>4, <3>5 DEF Mesh
    <2> QED
        BY <1>1, <2>2, <2>3, <2>4, <2>5 DEF Next, vars, queues
<1>2. IInv /\ [Next]_vars =>
        [\A p \in Peers :
           Len(received'[p]) > Len(received[p]) =>
               limits[p].in = Unlimited \/ Len(received'[p]) <= limits[p].in]_vars
    BY <1>1 DEF Bounded
<1> QED
    BY <1>2, Invariance, PTL DEF Spec, LimitRespected

-----------------------------------------------------------------------------
(* While no game has closed anything and the mesh has not broken, both ends    *)
(* agree.                                                                  *)

Response(s) == Message("response", s, Nothing)

(* What q has sent and p has not read.                                       *)
Sent(q, p) ==
    Range(wire[<<q, p>>]) \cup {d.msg : d \in {e \in air : e.from = q /\ e.to = p}}

(* p stands by what it has sent to q.                                        *)
Backed(p, q, m) ==
    /\ m # Eof /\ m.type # "close"
    /\ conn[p][<<q, m.socket>>] \in IF m.type = "request" THEN {"pending", "open"} ELSE {"open"}

(* A request p was told of is one q still makes; a connection p has open is    *)
(* open at q or about to be.                                                *)
Agreed(p, q, s) ==
    LET mine == conn[p][<<q, s>>]
        theirs == conn[q][<<p, s>>]
    IN  /\ mine = "requested" => <<p, q>> \in up /\ theirs \in {"pending", "open"}
        /\ mine = "open" =>
             \/ theirs = "open"
             \/ theirs = "pending" /\ Response(s) \in Range(wire[<<p, q>>])

Between(p, q) ==
    /\ wire[<<p, q>>] # <<>> => <<p, q>> \in up
    /\ <<p, q>> \in up => <<q, p>> \in up \cup accepting
    /\ <<p, q>> \in accepting => <<q, p>> \in up
    /\ \A m \in Sent(p, q) : Backed(p, q, m)
    /\ \A s \in Sockets : Agreed(p, q, s)

CalmOK ==
    /\ \A p \in Peers : late[p] = <<>>
    /\ \A p, q \in Peers : p # q => Between(p, q)

Calm == spent.closes = 0 /\ spent.drops = 0

(* What a calm step of p about its connection with q on the socket s may do.   *)
Advances(p, q, s) ==
    LET old == conn[p][<<q, s>>]
        new == conn'[p][<<q, s>>]
        theirs == conn[q][<<p, s>>]
    IN  /\ \/ new = old
           \/ old = "none" /\ new \in {"requested", "pending"}
           \/ old \in {"requested", "pending"} /\ new = "open"
        /\ new = "requested" => new = old \/ (<<p, q>> \in up /\ theirs \in {"pending", "open"})
        /\ new = "open" =>
             \/ new = old
             \/ theirs = "open"
             \/ theirs = "pending" /\ Response(s) \in Range(wire'[<<p, q>>])

Moves(p, q, s) ==
    /\ UNCHANGED <<up, accepting, late>>
    /\ \A r \in Peers, k \in Keys : r # p \/ k # <<q, s>> => conn'[r][k] = conn[r][k]
    /\ Advances(p, q, s)
    /\ \A a, b \in Peers : a # b /\ {a, b} # {p, q} =>
         wire'[<<a, b>>] = wire[<<a, b>>] /\ Sent(a, b)' \subseteq Sent(a, b)
    /\ wire'[<<q, p>>] # <<>> => wire[<<q, p>>] # <<>>
    /\ Sent(q, p)' \subseteq Sent(q, p)
    /\ \A t \in Sockets :
         Response(t) \in Range(wire[<<q, p>>]) /\ conn'[p][<<q, t>>] = "pending"
           => Response(t) \in Range(wire'[<<q, p>>])
    /\ wire'[<<p, q>>] # <<>> => <<p, q>> \in up
    /\ Range(wire[<<p, q>>]) \subseteq Range(wire'[<<p, q>>])
    /\ \A m \in Sent(p, q)' : m \in Sent(p, q) \/ Backed(p, q, m)'

LEMMA SentOK ==
    ASSUME LinkOK, NEW p \in Peers, NEW q \in Peers, p # q, NEW m \in Sent(p, q), m # Eof
    PROVE  m \in Messages /\ m.socket \in Sockets
<1>1. <<p, q>> \in Pairs /\ wire[<<p, q>>] \in Seq(Messages \cup {Eof})
    BY DEF LinkOK, LinkTyped, Streams, Pairs
<1>2. CASE m \in Range(wire[<<p, q>>])
    <2>1. m \in Messages \cup {Eof}
        BY <1>1, <1>2, ElementOfSeq, LenProperties DEF Range
    <2> QED
        BY <2>1 DEF Messages
<1>3. CASE m \in {d.msg : d \in {e \in air : e.from = p /\ e.to = q}}
    BY <1>3 DEF LinkOK, Datagrams, Messages
<1> QED
    BY <1>2, <1>3 DEF Sent

LEMMA CalmMove ==
    ASSUME CalmOK, LinkOK, NEW p \in Peers, NEW q \in Peers, p # q, NEW s \in Sockets,
           Moves(p, q, s)
    PROVE  CalmOK'
<1>1. \A r \in Peers : late'[r] = <<>>
    BY DEF CalmOK, Moves
<1>2. UNCHANGED <<up, accepting>>
    BY DEF Moves
<1>3. \A r, a \in Peers, t \in Sockets : r # p \/ a # q \/ t # s =>
        conn'[r][<<a, t>>] = conn[r][<<a, t>>]
    <2>1. \A r, a \in Peers, t \in Sockets : a # q \/ t # s => <<a, t>> # <<q, s>>
        OBVIOUS
    <2>2. \A a \in Peers, t \in Sockets : <<a, t>> \in Keys
        BY DEF Keys
    <2> QED
        BY <2>1, <2>2 DEF Moves
<1>4. Between(p, q) /\ Between(q, p)
    BY DEF CalmOK
(* No connection goes back.                                                  *)
<1>5. \A t \in Sockets :
        /\ conn[p][<<q, t>>] \in {"pending", "open"} => conn'[p][<<q, t>>] \in {"pending", "open"}
        /\ conn[p][<<q, t>>] = "open" => conn'[p][<<q, t>>] = "open"
        /\ conn'[q][<<p, t>>] = conn[q][<<p, t>>]
    BY <1>3 DEF Moves, Advances
<1>6. ASSUME NEW a \in Peers, NEW b \in Peers, a # b, {a, b} # {p, q}
      PROVE  Between(a, b)'
    <2>1. Between(a, b)
        BY <1>6 DEF CalmOK
    <2>2. wire'[<<a, b>>] = wire[<<a, b>>] /\ Sent(a, b)' \subseteq Sent(a, b)
        BY <1>6 DEF Moves
    <2>3. \A t \in Sockets : /\ conn'[a][<<b, t>>] = conn[a][<<b, t>>]
                             /\ conn'[b][<<a, t>>] = conn[b][<<a, t>>]
        BY <1>3, <1>6
    <2>4. ASSUME NEW m \in Sent(a, b)'
          PROVE  Backed(a, b, m)'
        <3>1. Backed(a, b, m)
            BY <2>1, <2>2 DEF Between
        <3>2. conn'[a][<<b, m.socket>>] = conn[a][<<b, m.socket>>]
            <4>1. m.socket \in Sockets
                BY <1>6, <2>2, <3>1, SentOK DEF Backed
            <4> QED
                BY <2>3, <4>1
        <3> QED
            BY <3>1, <3>2 DEF Backed
    <2>5. \A t \in Sockets : Agreed(a, b, t)'
        BY <1>2, <2>1, <2>2, <2>3 DEF Between, Agreed
    <2> QED
        BY <1>2, <2>1, <2>2, <2>4, <2>5 DEF Between
<1>7. Between(p, q)'
    <2>1. \A t \in Sockets : Agreed(p, q, t)'
        <3> SUFFICES ASSUME NEW t \in Sockets PROVE Agreed(p, q, t)'
            OBVIOUS
        <3>1. Range(wire[<<p, q>>]) \subseteq Range(wire'[<<p, q>>])
            BY DEF Moves
        <3>2. Agreed(p, q, t)
            BY <1>4 DEF Between
        <3>3. CASE t # s
            <4>1. conn'[p][<<q, t>>] = conn[p][<<q, t>>]
                BY <1>3, <3>3
            <4> QED
                BY <1>2, <1>5, <3>1, <3>2, <4>1 DEF Agreed
        <3>4. CASE t = s
            BY <1>2, <1>5, <3>1, <3>2, <3>4 DEF Agreed, Moves, Advances
        <3> QED
            BY <3>3, <3>4
    <2>2. ASSUME NEW m \in Sent(p, q)'
          PROVE  Backed(p, q, m)'
        <3>1. CASE m \in Sent(p, q)
            <4>1. Backed(p, q, m)
                BY <1>4, <3>1 DEF Between
            <4>2. m.socket \in Sockets
                BY <3>1, <4>1, SentOK DEF Backed
            <4> QED
                BY <1>5, <4>1, <4>2 DEF Backed
        <3> QED
            BY <3>1 DEF Moves
    <2> QED
        BY <1>2, <1>4, <2>1, <2>2 DEF Between, Moves
<1>8. Between(q, p)'
    <2>1. \A t \in Sockets : Agreed(q, p, t)'
        <3> SUFFICES ASSUME NEW t \in Sockets PROVE Agreed(q, p, t)'
            OBVIOUS
        <3>1. Agreed(q, p, t)
            BY <1>4 DEF Between
        <3>2. \/ conn'[p][<<q, t>>] = conn[p][<<q, t>>]
              \/ conn[p][<<q, t>>] # "pending"
              \/ conn'[p][<<q, t>>] = "open"
            BY <1>3 DEF Moves, Advances
        <3>3. Response(t) \in Range(wire[<<q, p>>]) /\ conn'[p][<<q, t>>] = "pending"
                => Response(t) \in Range(wire'[<<q, p>>])
            BY DEF Moves
        <3> QED
            BY <1>2, <1>5, <3>1, <3>2, <3>3 DEF Agreed
    <2>2. ASSUME NEW m \in Sent(q, p)'
          PROVE  Backed(q, p, m)'
        <3>1. m \in Sent(q, p)
            BY DEF Moves
        <3>2. Backed(q, p, m)
            BY <1>4, <3>1 DEF Between
        <3>3. m.socket \in Sockets
            BY <3>1, <3>2, SentOK DEF Backed
        <3> QED
            BY <1>5, <3>2, <3>3 DEF Backed
    <2> QED
        BY <1>2, <1>4, <2>1, <2>2 DEF Between, Moves
<1> QED
    <2>1. \A a, b \in Peers : {a, b} = {p, q} /\ a # b => (a = p /\ b = q) \/ (a = q /\ b = p)
        OBVIOUS
    <2> QED
        BY <1>1, <1>6, <1>7, <1>8, <2>1 DEF CalmOK

LEMMA Lengthened ==
    ASSUME NEW M, NEW s \in Seq(M), NEW t \in Seq(M)
    PROVE  Range(s \o t) = Range(s) \cup Range(t)
<1> DEFINE u == s \o t
<1>1. /\ Len(s) \in Nat /\ Len(t) \in Nat
      /\ DOMAIN s = 1 .. Len(s) /\ DOMAIN t = 1 .. Len(t) /\ DOMAIN u = 1 .. Len(s) + Len(t)
      /\ \A i \in 1 .. Len(s) + Len(t) : u[i] = IF i <= Len(s) THEN s[i] ELSE t[i - Len(s)]
    BY ConcatProperties, LenProperties
<1> HIDE DEF u
<1>2. \A i \in 1 .. Len(s) : i \in DOMAIN u /\ u[i] = s[i]
    BY <1>1
<1>3. \A i \in 1 .. Len(t) : i + Len(s) \in DOMAIN u /\ u[i + Len(s)] = t[i]
    BY <1>1
<1>4. \A i \in DOMAIN u : \/ i \in 1 .. Len(s) /\ u[i] = s[i]
                          \/ i - Len(s) \in 1 .. Len(t) /\ u[i] = t[i - Len(s)]
    BY <1>1
<1>5. Range(u) \subseteq Range(s) \cup Range(t)
    BY <1>1, <1>4 DEF Range
<1>6. Range(s) \subseteq Range(u)
    BY <1>1, <1>2 DEF Range
<1>7. Range(t) \subseteq Range(u)
    BY <1>1, <1>3 DEF Range
<1> QED
    BY <1>5, <1>6, <1>7 DEF u

(* p puts what it stands by behind w and a.                                   *)
Posts(p, q, w, a) ==
    /\ \A r \in Pairs : r # <<p, q>> => wire'[r] = w[r]
    /\ Range(w[<<p, q>>]) \subseteq Range(wire'[<<p, q>>])
    /\ wire'[<<p, q>>] # <<>> => w[<<p, q>>] # <<>> \/ <<p, q>> \in up
    /\ \A m \in Range(wire'[<<p, q>>]) : m \in Range(w[<<p, q>>]) \/ Backed(p, q, m)'
    /\ \A d \in air' : d \in a \/ (d.from = p /\ d.to = q /\ Backed(p, q, d.msg)')

LEMMA PostedMoves ==
    ASSUME NEW p \in Peers, NEW q \in Peers, p # q, NEW ms \in Seq(Messages),
           NEW w, Streams(w, Messages), NEW a, wire' = Posted(w, p, q, ms),
           \A m \in Range(ms) : Backed(p, q, m)',
           \A d \in air' : d \in a \/ (d.from = p /\ d.to = q /\ Backed(p, q, d.msg)')
    PROVE  /\ Posts(p, q, w, a)
           /\ <<p, q>> \in up /\ Reads(q, p) => Range(ms) \subseteq Range(wire'[<<p, q>>])
<1> DEFINE pq == <<p, q>>
<1>1. pq \in Pairs /\ w[pq] \in Seq(Messages \cup {Eof}) /\ ms \in Seq(Messages \cup {Eof})
    BY DEF Pairs, Streams
<1>2. \A r \in Pairs :
        wire'[r] = IF r = pq /\ r \in up /\ Reads(q, p) THEN w[r] \o ms ELSE w[r]
    BY PostedSeq
<1>3. Range(w[pq] \o ms) = Range(w[pq]) \cup Range(ms)
    BY <1>1, Lengthened
<1> HIDE DEF pq
<1>4. CASE pq \in up /\ Reads(q, p)
    BY <1>1, <1>2, <1>3, <1>4 DEF Posts, pq
<1>5. CASE ~(pq \in up /\ Reads(q, p))
    BY <1>1, <1>2, <1>5 DEF Posts, pq
<1> QED
    BY <1>4, <1>5 DEF pq

LEMMA ControlBacked ==
    ASSUME NEW p \in Peers, NEW key \in Keys, NEW type \in {"request", "response"},
           conn'[p][key] \in IF type = "request" THEN {"pending", "open"} ELSE {"open"}
    PROVE  /\ \A m \in Range(Control(type, key)) : Backed(p, key[1], m)'
           /\ Range(Control(type, key)) = {Message(type, key[2], Nothing)}
<1>1. key = <<key[1], key[2]>>
    BY DEF Keys
<1>2. Message(type, key[2], Nothing) # Eof
    BY DEF Message, Eof
<1>3. Backed(p, key[1], Message(type, key[2], Nothing))'
    BY <1>1, <1>2 DEF Backed, Message
<1>4. Range(Control(type, key)) = {Message(type, key[2], Nothing)}
    BY DEF Control, Range
<1> QED
    BY <1>3, <1>4

LEMMA TransmitMoves ==
    ASSUME NEW p \in Peers, NEW key \in Keys, p # key[1],
           NEW first \in Seq(Messages), NEW packets \in Seq(Packets),
           NEW w, Streams(w, Messages), NEW a,
           Transmit(p, key, first, packets, w, a), conn'[p][key] = "open",
           \A m \in Range(first) : Backed(p, key[1], m)'
    PROVE  /\ Posts(p, key[1], w, a)
           /\ <<p, key[1]>> \in up /\ Reads(key[1], p)
                => Range(first) \subseteq Range(wire'[<<p, key[1]>>])
<1> DEFINE q == key[1]
           messages == [i \in DOMAIN packets |-> Message("data", key[2], packets[i])]
           flying == {i \in DOMAIN packets : ~packets[i].rel /\ {<<p, q>>, <<q, p>>} \subseteq up}
<1>1. PICK byAir \in SUBSET flying :
        /\ wire' = Posted(w, p, q, first \o Keep(messages, DOMAIN packets \ byAir))
        /\ air' = a \cup {[from |-> p, to |-> q, msg |-> messages[i]] : i \in byAir}
    BY DEF Transmit
<1>2. \A i \in DOMAIN packets :
        messages[i] \in Messages /\ Backed(p, q, messages[i])'
    <2> SUFFICES ASSUME NEW i \in DOMAIN packets
                 PROVE  messages[i] \in Messages /\ Backed(p, q, messages[i])'
        OBVIOUS
    <2>1. packets[i] \in Packets
        BY ElementOfSeq, LenProperties
    <2>2. Message("data", key[2], packets[i]) \in Messages
        BY <2>1, Kinded
    <2>3. Message("data", key[2], packets[i]) # Eof
        BY DEF Message, Eof
    <2>4. key = <<key[1], key[2]>>
        BY DEF Keys
    <2>5. Backed(p, q, Message("data", key[2], packets[i]))'
        BY <2>3, <2>4 DEF Backed, Message
    <2> QED
        BY <2>2, <2>5
<1>3. messages \in Seq(Messages) /\ DOMAIN messages = DOMAIN packets
    <2>1. DOMAIN packets = 1 .. Len(packets) /\ Len(packets) \in Nat
        BY LenProperties
    <2>2. messages = [i \in 1 .. Len(packets) |-> messages[i]]
        BY <2>1
    <2>3. DOMAIN messages = DOMAIN packets
        OBVIOUS
    <2> HIDE DEF messages
    <2>4. \A i \in 1 .. Len(packets) : messages[i] \in Messages
        BY <1>2, <2>1
    <2> QED
        BY <2>1, <2>2, <2>3, <2>4, IsASeq
<1>4. byAir \subseteq DOMAIN packets
    OBVIOUS
<1> DEFINE S == DOMAIN packets \ byAir
           kept == Keep(messages, S)
           ms == first \o kept
<1> HIDE DEF messages, flying
<1>5. /\ kept \in Seq(Messages)
      /\ \A j \in DOMAIN kept : Nth(S, j) \in S /\ kept[j] = messages[Nth(S, j)]
    <2>1. S \in SUBSET (DOMAIN messages)
        BY <1>3
    <2> HIDE DEF S
    <2> QED
        BY <1>3, <2>1, KeepOK
<1>6. \A m \in Range(kept) : Backed(p, q, m)'
    <2> SUFFICES ASSUME NEW j \in DOMAIN kept PROVE Backed(p, q, kept[j])'
        BY DEF Range
    <2>1. Nth(S, j) \in DOMAIN packets /\ kept[j] = messages[Nth(S, j)]
        BY <1>5
    <2> HIDE DEF S, kept
    <2> QED
        BY <1>2, <2>1
<1> HIDE DEF kept
<1>7. ms \in Seq(Messages) /\ Range(ms) = Range(first) \cup Range(kept)
    BY <1>5, ConcatProperties, Lengthened
<1>8. wire' = Posted(w, p, q, ms)
    BY <1>1 DEF kept
<1> HIDE DEF ms
<1>9. \A d \in air' : d \in a \/ (d.from = p /\ d.to = q /\ Backed(p, q, d.msg)')
    <2>1. \A i \in byAir : Backed(p, q, messages[i])'
        BY <1>2, <1>4
    <2> QED
        BY <1>1, <2>1
<1>10. \A m \in Range(ms) : Backed(p, q, m)'
    BY <1>6, <1>7
<1>11. q \in Peers
    BY DEF Keys
<1> QED
    BY <1>7, <1>8, <1>9, <1>10, <1>11, PostedMoves

(* w and a are the wire and the air without a message of q that p has taken,   *)
(* which is a response only if p no longer waits for one.                    *)
Took(p, q, w, a) ==
    /\ \A r \in Pairs : r # <<q, p>> => w[r] = wire[r]
    /\ Range(w[<<q, p>>]) \subseteq Range(wire[<<q, p>>])
    /\ w[<<q, p>>] # <<>> => wire[<<q, p>>] # <<>>
    /\ a \subseteq air
    /\ \A t \in Sockets :
         Response(t) \in Range(wire[<<q, p>>]) /\ conn'[p][<<q, t>>] = "pending"
           => Response(t) \in Range(w[<<q, p>>])

OnlyConn(p, key) ==
    \A r \in Peers, k \in Keys : r # p \/ k # key => conn'[r][k] = conn[r][k]

LEMMA CalmPost ==
    ASSUME CalmOK, LinkOK, NEW p \in Peers, NEW q \in Peers, p # q, NEW s \in Sockets,
           NEW w, NEW a, UNCHANGED <<up, accepting, late>>,
           OnlyConn(p, <<q, s>>), Advances(p, q, s), Took(p, q, w, a), Posts(p, q, w, a)
    PROVE  CalmOK'
<1>1. <<p, q>> \in Pairs /\ <<q, p>> \in Pairs /\ <<p, q>> # <<q, p>>
    BY DEF Pairs
<1>2. w[<<p, q>>] = wire[<<p, q>>] /\ wire'[<<q, p>>] = w[<<q, p>>]
    BY <1>1 DEF Took, Posts
<1>3. wire[<<p, q>>] # <<>> => <<p, q>> \in up
    BY DEF CalmOK, Between
<1>4. ASSUME NEW b \in Peers, NEW c \in Peers, b # c, {b, c} # {p, q}
      PROVE  wire'[<<b, c>>] = wire[<<b, c>>] /\ Sent(b, c)' \subseteq Sent(b, c)
    <2>1. <<b, c>> \in Pairs /\ <<b, c>> # <<p, q>> /\ <<b, c>> # <<q, p>>
        BY <1>4 DEF Pairs
    <2>2. wire'[<<b, c>>] = wire[<<b, c>>]
        BY <2>1 DEF Took, Posts
    <2>3. \A d \in air' : d.from = b /\ d.to = c => d \in air
        BY <1>4 DEF Took, Posts
    <2> QED
        BY <2>2, <2>3 DEF Sent
<1>5. Sent(q, p)' \subseteq Sent(q, p)
    <2>1. \A d \in air' : d.from = q /\ d.to = p => d \in air
        BY DEF Took, Posts
    <2>2. Range(wire'[<<q, p>>]) \subseteq Range(wire[<<q, p>>])
        BY <1>2 DEF Took
    <2> QED
        BY <2>1, <2>2 DEF Sent
<1>6. ASSUME NEW m \in Sent(p, q)'
      PROVE  m \in Sent(p, q) \/ Backed(p, q, m)'
    <2>1. CASE m \in Range(wire'[<<p, q>>])
        BY <1>2, <2>1 DEF Posts, Sent
    <2>2. CASE \E d \in air' : d.from = p /\ d.to = q /\ m = d.msg
        <3>1. PICK d \in air' : d.from = p /\ d.to = q /\ m = d.msg
            BY <2>2
        <3>2. d \in air \/ Backed(p, q, d.msg)'
            BY DEF Took, Posts
        <3> QED
            BY <3>1, <3>2 DEF Sent
    <2> QED
        BY <1>6, <2>1, <2>2 DEF Sent
<1>7. Moves(p, q, s)
    BY <1>2, <1>3, <1>4, <1>5, <1>6 DEF Moves, OnlyConn, Took, Posts
<1> QED
    BY <1>7, CalmMove

LEMMA NothingPosted ==
    ASSUME NEW p, NEW q, NEW w, NEW a, Unmoved(w, a)
    PROVE  Posts(p, q, w, a)
    BY DEF Unmoved, Posts

LEMMA NothingTaken ==
    ASSUME NEW p, NEW q
    PROVE  Took(p, q, wire, air)
    BY DEF Took

LEMMA ControlPosts ==
    ASSUME NEW p \in Peers, NEW key \in Keys, p # key[1], NEW type \in {"request", "response"},
           conn'[p][key] \in IF type = "request" THEN {"pending", "open"} ELSE {"open"},
           NEW w, Streams(w, Messages), NEW a,
           wire' = Posted(w, p, key[1], Control(type, key)), air' = a
    PROVE  Posts(p, key[1], w, a)
<1>1. \A m \in Range(Control(type, key)) : Backed(p, key[1], m)'
    BY ControlBacked
<1>2. Control(type, key) \in Seq(Messages)
    BY ControlOK
<1>3. key[1] \in Peers
    BY DEF Keys
<1> QED
    BY <1>1, <1>2, <1>3, PostedMoves

(* A connection that opens, with what was held for it and, where a response    *)
(* goes first, the response.                                                *)
LEMMA EstablishPosts ==
    ASSUME PeersOK, NEW p \in Peers, NEW key \in Keys, p # key[1],
           NEW first \in {<<>>, Control("response", key)}, NEW w, Streams(w, Messages), NEW a,
           Establish(p, key, first, w, a)
    PROVE  /\ Posts(p, key[1], w, a)
           /\ OnlyConn(p, key) /\ conn'[p][key] = "open"
           /\ first # <<>> /\ <<p, key[1]>> \in up /\ Reads(key[1], p)
                => Response(key[2]) \in Range(wire'[<<p, key[1]>>])
<1>1. OnlyConn(p, key) /\ conn'[p][key] = "open"
    BY DEF Establish, PeersOK, OnlyConn
<1>2. "response" \in {"request", "response"} /\ "response" \in {"data", "request", "response", "close"}
    OBVIOUS
<1>3. /\ \A m \in Range(Control("response", key)) : Backed(p, key[1], m)'
      /\ Range(Control("response", key)) = {Response(key[2])}
    BY <1>1, <1>2, ControlBacked DEF Response
<1>4. Control("response", key) \in Seq(Messages)
    BY <1>2, ControlOK
<1>5. first \in Seq(Messages) /\ \A m \in Range(first) : Backed(p, key[1], m)'
    <2>1. Range(<<>>) = {} /\ <<>> \in Seq(Messages)
        BY DEF Range
    <2> QED
        BY <1>3, <1>4, <2>1
<1>6. Transmit(p, key, first, delayed[p][key], w, a) /\ delayed[p][key] \in Seq(Packets)
    BY DEF Establish, PeersOK
<1>7. /\ Posts(p, key[1], w, a)
      /\ <<p, key[1]>> \in up /\ Reads(key[1], p)
           => Range(first) \subseteq Range(wire'[<<p, key[1]>>])
    BY <1>1, <1>5, <1>6, TransmitMoves
<1> QED
    BY <1>1, <1>3, <1>7

LEMMA AskCalm ==
    ASSUME CalmOK, LinkOK, PeersOK, NEW p \in Peers, NEW key \in Keys, p # key[1],
           conn[p][key] \in {"none", "pending"}, Ask(p, key), UNCHANGED <<up, accepting, late>>
    PROVE  CalmOK'
<1>1. key = <<key[1], key[2]>> /\ key[1] \in Peers /\ key[2] \in Sockets
    BY DEF Keys
<1>2. OnlyConn(p, key) /\ conn'[p][key] = "pending"
    BY DEF Ask, PeersOK, OnlyConn
<1>3. "request" \in {"request", "response"} /\ Streams(wire, Messages)
    BY DEF LinkOK, LinkTyped
<1>4. Posts(p, key[1], wire, air)
    BY <1>2, <1>3, ControlPosts DEF Ask
<1>5. Advances(p, key[1], key[2])
    BY <1>1, <1>2 DEF Advances
<1> QED
    BY <1>1, <1>2, <1>4, <1>5, NothingTaken, CalmPost

LEMMA CalmSame ==
    ASSUME CalmOK, UNCHANGED <<conn, linkVars>>
    PROVE  CalmOK'
<1>1. UNCHANGED <<conn, up, accepting, wire, air, late>>
    BY DEF linkVars
<1>2. ASSUME NEW p \in Peers, NEW q \in Peers, p # q
      PROVE  Between(p, q)'
    <2>1. Between(p, q)
        BY <1>2 DEF CalmOK
    <2>2. Sent(p, q)' = Sent(p, q)
        BY <1>1 DEF Sent
    <2>3. \A m : Backed(p, q, m)' <=> Backed(p, q, m)
        BY <1>1 DEF Backed
    <2>4. \A s \in Sockets : Agreed(p, q, s)' <=> Agreed(p, q, s)
        BY <1>1 DEF Agreed
    <2> QED
        BY <1>1, <2>1, <2>2, <2>3, <2>4 DEF Between
<1> QED
    BY <1>1, <1>2 DEF CalmOK

LEMMA SendPacketCalm ==
    ASSUME CalmOK, IInv, NEW p \in Peers, NEW key \in Keys, NEW rel \in BOOLEAN, NEW hold,
           SendPacket(p, key, rel, hold)
    PROVE  CalmOK'
<1> USE DEF IInv
<1>1. CASE SendPacketNew(p, key, rel, hold)
    BY <1>1, AskCalm DEF SendPacketNew, CanCall
<1>2. CASE SendPacketEarly(p, key, rel, hold)
    BY <1>2, CalmSame DEF SendPacketEarly
<1>3. CASE SendPacketOpen(p, key, rel)
    <2>1. key = <<key[1], key[2]>> /\ key[1] \in Peers /\ key[2] \in Sockets /\ p # key[1]
        BY <1>3 DEF Keys, SendPacketOpen, CanCall
    <2>2. conn[p][key] = "open" /\ UNCHANGED <<conn, up, accepting, late>>
        BY <1>3 DEF SendPacketOpen, entries
    <2> DEFINE n == [n |-> spent.packets + 1, rel |-> rel]
    <2>3. n \in Packets
        BY <1>3, Numbered DEF SendPacketOpen
    <2>4. Transmit(p, key, <<>>, <<n>>, wire, air)
        BY <1>3 DEF SendPacketOpen
    <2> HIDE DEF n
    <2>5. <<n>> \in Seq(Packets) /\ <<>> \in Seq(Messages) /\ Range(<<>>) = {}
        BY <2>3 DEF Range
    <2>6. Streams(wire, Messages)
        BY DEF LinkOK, LinkTyped
    <2>7. Posts(p, key[1], wire, air)
        BY <2>1, <2>2, <2>4, <2>5, <2>6, TransmitMoves
    <2>8. OnlyConn(p, key) /\ Advances(p, key[1], key[2])
        BY <2>1, <2>2 DEF OnlyConn, Advances
    <2> QED
        BY <2>1, <2>2, <2>7, <2>8, NothingTaken, CalmPost
<1> QED
    BY <1>1, <1>2, <1>3 DEF SendPacket

LEMMA AcceptCalm ==
    ASSUME CalmOK, IInv, NEW p \in Peers, NEW key \in Keys,
           AcceptRequested(p, key) \/ AcceptOffer(p, key)
    PROVE  CalmOK'
<1> USE DEF IInv
<1>1. CASE AcceptRequested(p, key)
    <2>1. key = <<key[1], key[2]>> /\ key[1] \in Peers /\ key[2] \in Sockets /\ p # key[1]
        BY <1>1 DEF Keys, AcceptRequested, CanCall
    <2>2. /\ conn[p][key] = "requested" /\ UNCHANGED <<up, accepting, late>>
          /\ Establish(p, key, Control("response", key), wire, air)
        BY <1>1 DEF AcceptRequested
    <2>3. Streams(wire, Messages) /\ Control("response", key) # <<>>
        BY DEF LinkOK, LinkTyped, Control
    <2>4. /\ Posts(p, key[1], wire, air) /\ OnlyConn(p, key) /\ conn'[p][key] = "open"
          /\ <<p, key[1]>> \in up /\ Reads(key[1], p)
               => Response(key[2]) \in Range(wire'[<<p, key[1]>>])
        BY <2>1, <2>2, <2>3, EstablishPosts
    <2>5. Between(p, key[1])
        BY <2>1 DEF CalmOK
    <2>6. /\ <<p, key[1]>> \in up /\ conn[key[1]][<<p, key[2]>>] \in {"pending", "open"}
          /\ Reads(key[1], p)
        BY <2>1, <2>2, <2>5 DEF Between, Agreed, Reads
    <2>7. Advances(p, key[1], key[2])
        BY <2>1, <2>2, <2>4, <2>6 DEF Advances
    <2> QED
        BY <2>1, <2>2, <2>4, <2>7, NothingTaken, CalmPost
<1>2. CASE AcceptOffer(p, key)
    BY <1>2, AskCalm DEF AcceptOffer, CanCall
<1> QED
    BY <1>1, <1>2

(* What is left when p has taken the message m of q.                          *)
TookBut(p, q, w, a, m) ==
    /\ \A r \in Pairs : r # <<q, p>> => w[r] = wire[r]
    /\ Range(w[<<q, p>>]) \subseteq Range(wire[<<q, p>>])
    /\ w[<<q, p>>] # <<>> => wire[<<q, p>>] # <<>>
    /\ a \subseteq air
    /\ \A x \in Range(wire[<<q, p>>]) : x = m \/ x \in Range(w[<<q, p>>])

LEMMA MessageCalm ==
    ASSUME CalmOK, IInv, NEW p \in Peers, NEW q \in Peers, p # q, NEW m \in Messages,
           Backed(q, p, m), <<p, q>> \in up, NEW w, NEW a, Moved(w, a),
           TookBut(p, q, w, a, m), OnNetworkMessage(p, q, m, w, a), UNCHANGED <<up, accepting, late>>
    PROVE  CalmOK'
<1> DEFINE s == m.socket
           key == <<q, s>>
           theirs == conn[q][<<p, s>>]
<1>1. key \in Keys /\ key[1] = q /\ key[2] = s /\ s \in Sockets
    BY DEF Messages, Keys
<1>2. Between(p, q) /\ Reads(q, p)
    BY DEF CalmOK, Between, Reads
<1>3. /\ m.type # "close"
      /\ theirs \in IF m.type = "request" THEN {"pending", "open"} ELSE {"open"}
    BY DEF Backed
<1>4. PeersOK /\ Streams(w, Messages)
    BY DEF IInv, Moved
(* It is enough that one connection advances and something is posted, and     *)
(* that a response is not read in vain.                                     *)
<1>5. ASSUME OnlyConn(p, key), Advances(p, q, s), Posts(p, q, w, a),
             m.type = "response" => conn'[p][key] # "pending"
      PROVE  CalmOK'
    <2>1. ASSUME NEW t \in Sockets, Response(t) \in Range(wire[<<q, p>>]),
                 conn'[p][<<q, t>>] = "pending"
          PROVE  Response(t) \in Range(w[<<q, p>>])
        <3>1. Response(t) # m
            BY <1>5, <2>1 DEF Response, Message
        <3> QED
            BY <2>1, <3>1 DEF TookBut
    <2>2. Took(p, q, w, a)
        BY <2>1 DEF Took, TookBut
    <2> HIDE DEF s, key
    <2> QED
        BY <1>1, <1>5, <2>2, CalmPost DEF IInv, key
<1>6. ASSUME UNCHANGED conn
      PROVE  OnlyConn(p, key) /\ Advances(p, q, s) /\ conn'[p][key] = conn[p][key]
    BY <1>6 DEF OnlyConn, Advances
<1> HIDE DEF s, key, theirs
<1>7. CASE OnUnknown(p, key, w, a)
    <2>1. OnlyConn(p, key) /\ conn[p][key] = "none" /\ conn'[p][key] = "requested"
        BY <1>1, <1>4, <1>7 DEF OnUnknown, OnlyConn, PeersOK
    <2>2. Advances(p, q, s)
        BY <1>3, <2>1 DEF Advances, key, theirs
    <2>3. Posts(p, q, w, a)
        BY <1>7, NothingPosted DEF OnUnknown
    <2> QED
        BY <1>5, <2>1, <2>2, <2>3
<1>8. CASE OnData(p, key, m.packet, w, a) /\ m.type = "data"
    <2>1. OnUnknown(p, key, w, a) \/ (UNCHANGED conn /\ Unmoved(w, a))
        BY <1>8 DEF OnData, entries
    <2> QED
        BY <1>5, <1>6, <1>7, <1>8, <2>1, NothingPosted
<1>9. CASE OnRequest(p, key, w, a) /\ m.type = "request"
    <2>1. CASE conn[p][key] = "pending" /\ Establish(p, key, Control("response", key), w, a)
        <3>1. /\ Posts(p, q, w, a) /\ OnlyConn(p, key) /\ conn'[p][key] = "open"
              /\ Response(s) \in Range(wire'[<<p, q>>])
            <4>1. Control("response", key) # <<>>
                BY DEF Control
            <4> QED
                BY <1>1, <1>2, <1>4, <2>1, <4>1, EstablishPosts
        <3>2. Advances(p, q, s)
            BY <1>3, <1>9, <2>1, <3>1 DEF Advances, key, theirs
        <3> QED
            BY <1>5, <1>9, <3>1, <3>2
    <2>2. CASE /\ conn[p][key] = "open" /\ UNCHANGED conn
               /\ wire' = Posted(w, p, key[1], Control("response", key)) /\ air' = a
        <3>1. "response" \in {"request", "response"}
            OBVIOUS
        <3>2. Posts(p, q, w, a)
            BY <1>1, <1>4, <2>2, <3>1, ControlPosts
        <3> QED
            BY <1>5, <1>6, <1>9, <2>2, <3>2
    <2>3. CASE UNCHANGED conn /\ Unmoved(w, a)
        BY <1>5, <1>6, <1>9, <2>3, NothingPosted
    <2> QED
        BY <1>7, <1>9, <2>1, <2>2, <2>3 DEF OnRequest, entries
<1>10. CASE OnResponse(p, key, w, a) /\ m.type = "response"
    <2>1. CASE conn[p][key] = "pending" /\ Establish(p, key, <<>>, w, a)
        <3>1. Posts(p, q, w, a) /\ OnlyConn(p, key) /\ conn'[p][key] = "open"
            BY <1>1, <1>4, <2>1, EstablishPosts
        <3>2. Advances(p, q, s)
            BY <1>3, <1>10, <2>1, <3>1 DEF Advances, key, theirs
        <3> QED
            BY <1>5, <3>1, <3>2
    <2>2. CASE conn[p][key] # "pending" /\ UNCHANGED conn /\ Unmoved(w, a)
        BY <1>5, <1>6, <2>2, NothingPosted
    <2> QED
        BY <1>10, <2>1, <2>2 DEF OnResponse, entries
<1> QED
    BY <1>3, <1>8, <1>9, <1>10 DEF OnNetworkMessage, key, s

LEMMA DeliverCalm ==
    ASSUME CalmOK, IInv, NEW p \in Peers, NEW q \in Peers \ {p}, Deliver(p, q)
    PROVE  CalmOK'
<1> USE DEF IInv
<1> DEFINE m == Head(wire[<<q, p>>])
           w == [wire EXCEPT ![<<q, p>>] = Tail(@)]
<1>1. /\ wire[<<q, p>>] # <<>> /\ m # Eof /\ <<p, q>> \in up
      /\ OnNetworkMessage(p, q, m, w, air)
      /\ UNCHANGED <<up, accepting, late>>
    BY DEF Deliver
<1>2. /\ m \in Messages /\ Streams(w, Messages)
      /\ \A pq \in Pairs \ {<<q, p>>} : w[pq] = wire[pq]
      /\ Range(wire[<<q, p>>]) = {m} \cup Range(w[<<q, p>>])
    BY <1>1, ReadOK DEF LinkOK
<1>3. Moved(w, air)
    BY <1>2 DEF Moved, LinkOK
<1> HIDE DEF m, w
<1>4. Backed(q, p, m)
    <2>1. m \in Sent(q, p)
        BY <1>2 DEF Sent
    <2>2. Between(q, p)
        BY DEF CalmOK
    <2> QED
        BY <2>1, <2>2 DEF Between
<1>5. TookBut(p, q, w, air, m)
    BY <1>1, <1>2 DEF TookBut
<1> QED
    BY <1>1, <1>2, <1>3, <1>4, <1>5, MessageCalm

LEMMA DeliverDatagramCalm ==
    ASSUME CalmOK, IInv, NEW p \in Peers, DeliverDatagram(p)
    PROVE  CalmOK'
<1> USE DEF IInv
<1>1. PICK d \in air : /\ d.to = p /\ <<p, d.from>> \in up
                       /\ OnNetworkMessage(p, d.from, d.msg, wire, air \ {d})
    BY DEF DeliverDatagram
<1>2. d.from \in Peers /\ d.from # p /\ d.msg \in Messages
    BY <1>1 DEF LinkOK, Datagrams
<1>3. Moved(wire, air \ {d})
    BY DEF Moved, LinkOK, LinkTyped
<1>4. Backed(d.from, p, d.msg)
    <2>1. d.msg \in Sent(d.from, p)
        BY <1>1 DEF Sent
    <2>2. Between(d.from, p)
        BY <1>2 DEF CalmOK
    <2> QED
        BY <2>1, <2>2 DEF Between
<1>5. TookBut(p, d.from, wire, air \ {d}, d.msg)
    BY DEF TookBut
<1>6. UNCHANGED <<up, accepting, late>>
    BY DEF DeliverDatagram
<1> QED
    BY <1>1, <1>2, <1>3, <1>4, <1>5, <1>6, MessageCalm

(* Two peers that meet find nothing of before under way between them.         *)
LEMMA MeetCalm ==
    ASSUME CalmOK, IInv, NEW p \in Peers, NEW q \in Peers \ {p}, Meet(p, q)
    PROVE  CalmOK'
<1> USE DEF IInv
<1>1. /\ UNCHANGED <<conn, late>>
      /\ MeetAsDialler(p, q, <<>>) \/ MeetAsAcceptor(p, q, <<>>)
    BY DEF Meet, entries, MeetAsDialler, MeetAsAcceptor
<1>2. /\ <<p, q>> \in Pairs /\ <<q, p>> \in Pairs /\ <<p, q>> # <<q, p>>
      /\ Between(p, q) /\ Between(q, p)
      /\ wire \in [Pairs -> Seq(Messages \cup {Eof})]
    BY DEF Pairs, LinkOK, LinkTyped, Streams, CalmOK
<1>3. /\ up' = up \cup {<<p, q>>} /\ air' \subseteq air
      /\ \A r \in Pairs : wire'[r] = wire[r]
      /\ <<q, p>> \in up' \cup accepting'
      /\ <<p, q>> \notin accepting'
      /\ \A r \in Pairs : r # <<p, q>> /\ r # <<q, p>> => (r \in accepting' <=> r \in accepting)
    <2>1. CASE MeetAsDialler(p, q, <<>>)
        <3>1. <<p, q>> \notin up /\ <<q, p>> \notin up /\ <<p, q>> \notin accepting
            BY <2>1 DEF MeetAsDialler
        <3>2. wire[<<p, q>>] = <<>> /\ wire[<<q, p>>] = <<>>
            BY <1>2, <3>1 DEF Between
        <3>3. \A r \in Pairs : wire'[r] = wire[r]
            BY <1>2, <2>1, <3>2 DEF MeetAsDialler
        <3> QED
            BY <1>2, <2>1, <3>1, <3>3 DEF MeetAsDialler
    <2>2. CASE MeetAsAcceptor(p, q, <<>>)
        <3>1. wire[<<p, q>>] \o <<>> = wire[<<p, q>>]
            BY <1>2, ConcatEmptySeq
        <3>2. \A r \in Pairs : wire'[r] = wire[r]
            BY <1>2, <2>2, <3>1 DEF MeetAsAcceptor
        <3>3. <<q, p>> \in up
            BY <1>2, <2>2 DEF MeetAsAcceptor, Between
        <3> QED
            BY <1>2, <2>2, <3>2, <3>3 DEF MeetAsAcceptor
    <2> QED
        BY <1>1, <2>1, <2>2
<1>4. ASSUME NEW a \in Peers, NEW b \in Peers, a # b
      PROVE  Between(a, b)'
    <2>1. Between(a, b)
        BY <1>4 DEF CalmOK
    <2>2. <<a, b>> \in Pairs /\ <<b, a>> \in Pairs /\ wire'[<<a, b>>] = wire[<<a, b>>]
        BY <1>3, <1>4 DEF Pairs
    <2>3. /\ wire'[<<a, b>>] # <<>> => <<a, b>> \in up'
          /\ <<a, b>> \in up' => <<b, a>> \in up' \cup accepting'
          /\ <<a, b>> \in accepting' => <<b, a>> \in up'
        <3>1. CASE a = p /\ b = q
            BY <1>3, <3>1
        <3>2. CASE a = q /\ b = p
            BY <1>3, <2>1, <2>2, <3>2 DEF Between
        <3>3. CASE {a, b} # {p, q}
            <4>1. /\ <<a, b>> # <<p, q>> /\ <<a, b>> # <<q, p>>
                  /\ <<b, a>> # <<p, q>> /\ <<b, a>> # <<q, p>>
                BY <3>3
            <4> QED
                BY <1>3, <2>1, <2>2, <4>1 DEF Between
        <3> QED
            BY <3>1, <3>2, <3>3
    <2>4. \A m \in Sent(a, b)' : Backed(a, b, m)'
        <3>1. Sent(a, b)' \subseteq Sent(a, b)
            BY <1>3, <2>2 DEF Sent
        <3>2. \A m : Backed(a, b, m) => Backed(a, b, m)'
            BY <1>1 DEF Backed
        <3> QED
            BY <2>1, <3>1, <3>2 DEF Between
    <2>5. \A s \in Sockets : Agreed(a, b, s)'
        <3>1. up \subseteq up'
            BY <1>3
        <3> QED
            BY <1>1, <2>1, <2>2, <3>1 DEF Between, Agreed
    <2> QED
        BY <2>3, <2>4, <2>5 DEF Between
<1> QED
    BY <1>1, <1>4 DEF CalmOK

(* What is spent is not given back, and a close or a drop ends the calm.       *)
LEMMA SpendCalm ==
    ASSUME SpentOK, NEW what \in {"packets", "closes", "offers", "drops", "limits"}, NEW max,
           Spend(what, max), Calm'
    PROVE  Calm /\ what # "closes" /\ what # "drops"
<1>1. spent' = [spent EXCEPT ![what] = @ + 1]
    BY DEF Spend
<1>2. CASE what = "closes"
    BY <1>1, <1>2 DEF SpentOK, Calm
<1>3. CASE what = "drops"
    BY <1>1, <1>3 DEF SpentOK, Calm
<1>4. CASE what # "closes" /\ what # "drops"
    BY <1>1, <1>4 DEF SpentOK, Calm
<1> QED
    BY <1>2, <1>3, <1>4

LEMMA CallsCalm ==
    ASSUME IInv, Calm => CalmOK, NEW p \in Peers, Calls(p), Calm'
    PROVE  CalmOK'
<1>1. SpentOK
    BY DEF IInv
<1>2. UNCHANGED spent => Calm
    BY DEF Calm
<1>3. ASSUME NEW key \in Keys, NEW rel \in BOOLEAN, NEW hold \in BOOLEAN,
             SendPacket(p, key, rel, hold)
      PROVE  CalmOK'
    <2>1. UNCHANGED spent \/ Spend("packets", MaxPackets)
        BY <1>3 DEF SendPacket, SendPacketNew, SendPacketEarly, SendPacketOpen, HoldBack
    <2>2. "packets" \in {"packets", "closes", "offers", "drops", "limits"}
        OBVIOUS
    <2>3. Calm
        BY <1>1, <1>2, <2>1, <2>2, SpendCalm
    <2> QED
        BY <1>3, <2>3, SendPacketCalm
<1>4. ASSUME NEW key \in Keys, AcceptRequested(p, key) \/ AcceptOffer(p, key)
      PROVE  CalmOK'
    <2>1. UNCHANGED spent \/ Spend("offers", MaxOffers)
        BY <1>4 DEF AcceptRequested, AcceptOffer
    <2>2. "offers" \in {"packets", "closes", "offers", "drops", "limits"}
        OBVIOUS
    <2>3. Calm
        BY <1>1, <1>2, <2>1, <2>2, SpendCalm
    <2> QED
        BY <1>4, <2>3, AcceptCalm
<1>5. ~ Spend("closes", MaxCloses)
    <2>1. "closes" \in {"packets", "closes", "offers", "drops", "limits"}
        OBVIOUS
    <2> QED
        BY <1>1, <2>1, SpendCalm
<1>6. CASE ReceivePacket(p)
    BY <1>2, <1>6, CalmSame DEF ReceivePacket, entries
<1>7. ASSUME NEW limit, SetPacketQueueSize(p, limit)
      PROVE  CalmOK'
    <2>1. Spend("limits", MaxLimits) /\ UNCHANGED <<conn, linkVars>>
        BY <1>7 DEF SetPacketQueueSize, entries
    <2>2. "limits" \in {"packets", "closes", "offers", "drops", "limits"}
        OBVIOUS
    <2>3. Calm
        BY <1>1, <2>1, <2>2, SpendCalm
    <2> QED
        BY <2>1, <2>3, CalmSame
<1> QED
    BY <1>3, <1>4, <1>5, <1>6, <1>7
    DEF Calls, CloseConnection, CloseConnections, ClearPacketQueue

LEMMA MeshCalm ==
    ASSUME IInv, Calm => CalmOK, NEW p \in Peers, Mesh(p), Calm'
    PROVE  CalmOK'
<1>1. SpentOK
    BY DEF IInv
<1>2. UNCHANGED spent => CalmOK
    BY DEF Calm
<1>3. ~ Spend("drops", MaxDrops)
    <2>1. "drops" \in {"packets", "closes", "offers", "drops", "limits"}
        OBVIOUS
    <2> QED
        BY <1>1, <2>1, SpendCalm
<1>4. ASSUME NEW q \in Others(p), Deliver(p, q)
      PROVE  CalmOK'
    BY <1>2, <1>4, DeliverCalm DEF Deliver, OnNetworkMessage, Others
<1>5. CASE DeliverLate(p)
    BY <1>2, <1>5 DEF DeliverLate, OnNetworkMessage, CalmOK
<1>6. CASE DeliverDatagram(p)
    BY <1>2, <1>6, DeliverDatagramCalm DEF DeliverDatagram, OnNetworkMessage
<1>7. ASSUME NEW q \in Others(p), NEW n, Lose(p, q, n)
      PROVE  CalmOK'
    <2>1. Eof \in Range(wire[<<q, p>>]) /\ CalmOK
        BY <1>2, <1>3, <1>7 DEF Lose
    <2>2. Between(q, p) /\ Eof \in Sent(q, p)
        BY <2>1 DEF CalmOK, Others, Sent
    <2> QED
        BY <2>2 DEF Between, Backed
<1>8. ASSUME NEW q \in Others(p), Meet(p, q)
      PROVE  CalmOK'
    BY <1>2, <1>8, MeetCalm DEF Meet, Others
<1> QED
    BY <1>3, <1>4, <1>5, <1>6, <1>7, <1>8 DEF Mesh, GiveUp

LEMMA InitCalm == Init => CalmOK
<1> SUFFICES ASSUME Init PROVE CalmOK
    OBVIOUS
<1>1. /\ \A p \in Peers : late[p] = <<>>
      /\ \A r \in Pairs : wire[r] = <<>>
      /\ air = {} /\ accepting = {} /\ up \in {{}, Pairs}
      /\ conn = [p \in Peers |-> [k \in Keys |-> "none"]]
    BY DEF Init, LinkInit, LinkInitMet
<1>2. ASSUME NEW p \in Peers, NEW q \in Peers, p # q
      PROVE  Between(p, q)
    <2>1. <<p, q>> \in Pairs /\ <<q, p>> \in Pairs
        BY <1>2 DEF Pairs
    <2>2. Sent(p, q) = {}
        BY <1>1, <2>1 DEF Sent, Range
    <2>3. \A s \in Sockets : conn[p][<<q, s>>] = "none"
        BY <1>1 DEF Keys
    <2> QED
        BY <1>1, <2>1, <2>2, <2>3 DEF Between, Agreed
<1> QED
    BY <1>1, <1>2 DEF CalmOK

LEMMA StepCalm == IInv /\ (Calm => CalmOK) /\ [Next]_vars => (Calm => CalmOK)'
<1> SUFFICES ASSUME IInv, Calm => CalmOK, [Next]_vars, Calm'
             PROVE  CalmOK'
    OBVIOUS
<1>1. CASE UNCHANGED vars
    BY <1>1, CalmSame DEF vars, entries, Calm
<1>2. ASSUME NEW p \in Peers, Tick(p)
      PROVE  CalmOK'
    BY <1>2, CalmSame DEF Tick, StartFrame, FireEvent, EndFrame, entries, Calm
<1> QED
    BY <1>1, <1>2, CallsCalm, MeshCalm DEF Next

(* Until a game closes something or the mesh breaks, a connection that is open *)
(* at one end is open at the other once nothing is under way between the two  *)
(* (accept_connection, send_packet, on_network_message).                    *)
THEOREM OpenAtBothEnds == Spec => []MutualUndisturbed
<1>1. ASSUME Calm => CalmOK
      PROVE  MutualUndisturbed
    <2> SUFFICES ASSUME Calm, NEW pq \in Pairs, NEW s \in Sockets,
                        Linked(pq[1], pq[2]), conn[pq[1]][<<pq[2], s>>] = "open"
                 PROVE  conn[pq[2]][<<pq[1], s>>] = "open"
        BY DEF MutualUndisturbed, OpenIsMutual, Calm
    <2>1. pq[1] \in Peers /\ pq[2] \in Peers /\ pq[1] # pq[2]
        BY DEF Pairs
    <2>2. Agreed(pq[1], pq[2], s)
        BY <1>1, <2>1 DEF CalmOK, Between
    <2>3. Range(wire[<<pq[1], pq[2]>>]) = {}
        BY DEF Linked, Range
    <2> QED
        BY <2>2, <2>3 DEF Agreed
<1> QED
    BY <1>1, Invariance, InitCalm, StepCalm, PTL DEF Spec

-----------------------------------------------------------------------------
(* Reliable packets keep their order: from the game that has yet to send, over *)
(* what is held, the stream and the queue, to the game that reads, the numbers *)
(* of a connection only fall.  A line is the numbers at one of these places,  *)
(* Off where there is something else.                                       *)

Off == -1
Mark(packet) == IF packet.rel THEN packet.n ELSE Off
Carried(m, s) == IF m # Eof /\ m.type = "data" /\ m.socket = s THEN Mark(m.packet) ELSE Off

InQueue(r, k) == [i \in DOMAIN r |-> IF r[i].key = k THEN Mark(r[i].packet) ELSE Off]
InLate(l, q, s) == [i \in DOMAIN l |-> IF l[i].from = q THEN Carried(l[i].msg, s) ELSE Off]
InStream(u, s) == [i \in DOMAIN u |-> Carried(u[i], s)]
InHeld(d) == [i \in DOMAIN d |-> Mark(d[i])]

(* The numbers of a line grow, from above lo up to hi.                        *)
Within(f, lo, hi) ==
    \A i \in DOMAIN f : f[i] # Off =>
        /\ f[i] \in lo + 1 .. hi
        /\ \A j \in DOMAIN f : i < j /\ f[j] # Off => f[i] < f[j]

(* The numbers of f are some of those of g, in their order.                    *)
Drawn(f, g) ==
    \E e : \A j \in DOMAIN f : f[j] # Off =>
        /\ e[j] \in DOMAIN g /\ g[e[j]] = f[j]
        /\ \A i \in DOMAIN f : i < j /\ f[i] # Off => e[i] < e[j]

LEMMA DrawnSame ==
    ASSUME NEW f
    PROVE  Drawn(f, f)
<1> DEFINE e == [j \in DOMAIN f |-> j]
<1>1. \A j \in DOMAIN f : e[j] = j
    OBVIOUS
<1> HIDE DEF e
<1> QED
    BY <1>1 DEF Drawn

LEMMA DrawnBy ==
    ASSUME NEW f, NEW g, NEW e,
           \A j \in DOMAIN f : f[j] # Off => e[j] \in DOMAIN g /\ g[e[j]] = f[j],
           \A i, j \in DOMAIN f : i < j => e[i] < e[j]
    PROVE  Drawn(f, g)
    BY DEF Drawn

LEMMA DrawnWithin ==
    ASSUME NEW f, NEW g, NEW lo, NEW hi, Drawn(f, g), Within(g, lo, hi)
    PROVE  Within(f, lo, hi)
<1>1. PICK e : \A j \in DOMAIN f : f[j] # Off =>
                 /\ e[j] \in DOMAIN g /\ g[e[j]] = f[j]
                 /\ \A i \in DOMAIN f : i < j /\ f[i] # Off => e[i] < e[j]
    BY DEF Drawn
<1> QED
    BY <1>1 DEF Within

LEMMA WithinWider ==
    ASSUME NEW f, NEW lo \in Nat, NEW hi \in Nat, NEW lo2 \in Nat, NEW hi2 \in Nat,
           lo2 <= lo, hi <= hi2, Within(f, lo, hi)
    PROVE  Within(f, lo2, hi2)
<1>1. lo + 1 .. hi \subseteq lo2 + 1 .. hi2
    OBVIOUS
<1> QED
    BY <1>1 DEF Within

(* One number behind a line, and a line behind another.                       *)
LEMMA WithinAppend ==
    ASSUME NEW n \in Nat, NEW f, DOMAIN f = 1 .. n, NEW g, DOMAIN g = 1 .. n + 1,
           \A i \in 1 .. n : g[i] = f[i],
           NEW lo \in Nat, NEW mid \in Nat, NEW hi \in Nat, lo <= mid, mid <= hi,
           Within(f, lo, mid), g[n + 1] = Off \/ g[n + 1] \in mid + 1 .. hi
    PROVE  Within(g, lo, hi)
<1> SUFFICES ASSUME NEW i \in 1 .. n + 1, g[i] # Off
             PROVE  /\ g[i] \in lo + 1 .. hi
                    /\ \A j \in 1 .. n + 1 : i < j /\ g[j] # Off => g[i] < g[j]
    BY DEF Within
<1>1. \A j \in 1 .. n : f[j] # Off => f[j] \in lo + 1 .. mid
    BY DEF Within
<1>2. CASE i = n + 1
    BY <1>2
<1>3. CASE i \in 1 .. n
    <2>1. g[i] \in lo + 1 .. mid
        BY <1>1, <1>3
    <2>2. ASSUME NEW j \in 1 .. n + 1, i < j, g[j] # Off
          PROVE  g[i] < g[j]
        <3>1. CASE j = n + 1
            BY <2>1, <2>2, <3>1
        <3>2. CASE j \in 1 .. n
            BY <1>3, <2>2, <3>2 DEF Within
        <3> QED
            BY <3>1, <3>2
    <2> QED
        BY <2>1, <2>2
<1> QED
    BY <1>2, <1>3

Joined(f, g, h) ==
    \E n, m \in Nat :
        /\ DOMAIN f = 1 .. n /\ DOMAIN g = 1 .. m /\ DOMAIN h = 1 .. n + m
        /\ \A i \in 1 .. n : h[i] = f[i]
        /\ \A i \in 1 .. m : h[n + i] = g[i]

LEMMA WithinConcat ==
    ASSUME NEW f, NEW g, NEW h, Joined(f, g, h),
           NEW lo \in Nat, NEW mid \in Nat, NEW hi \in Nat, lo <= mid, mid <= hi,
           Within(f, lo, mid), Within(g, mid, hi)
    PROVE  Within(h, lo, hi)
<1>0. PICK n \in Nat, m \in Nat :
        /\ DOMAIN f = 1 .. n /\ DOMAIN g = 1 .. m /\ DOMAIN h = 1 .. n + m
        /\ \A i \in 1 .. n : h[i] = f[i]
        /\ \A i \in 1 .. m : h[n + i] = g[i]
    BY DEF Joined
<1>1. \A i \in 1 .. n + m : i \in 1 .. n \/ (i - n \in 1 .. m /\ n + (i - n) = i)
    OBVIOUS
<1>2. \A i \in 1 .. n + m : \/ i \in 1 .. n /\ h[i] = f[i]
                            \/ ~(i <= n) /\ i - n \in 1 .. m /\ h[i] = g[i - n]
    <2> SUFFICES ASSUME NEW i \in 1 .. n + m, i \notin 1 .. n
                 PROVE  ~(i <= n) /\ i - n \in 1 .. m /\ h[i] = g[i - n]
        BY <1>0
    <2>1. i - n \in 1 .. m /\ n + (i - n) = i
        BY <1>1
    <2>2. h[n + (i - n)] = g[i - n]
        BY <1>0, <2>1
    <2> QED
        BY <2>1, <2>2
<1>3. \A i \in 1 .. n : f[i] # Off => f[i] \in lo + 1 .. mid
    BY <1>0 DEF Within
<1>4. \A i \in 1 .. m : g[i] # Off => g[i] \in mid + 1 .. hi
    BY <1>0 DEF Within
<1> SUFFICES ASSUME NEW i \in 1 .. n + m, h[i] # Off
             PROVE  /\ h[i] \in lo + 1 .. hi
                    /\ \A j \in 1 .. n + m : i < j /\ h[j] # Off => h[i] < h[j]
    BY <1>0 DEF Within
<1>5. CASE i \in 1 .. n
    <2>1. h[i] = f[i] /\ h[i] \in lo + 1 .. mid
        BY <1>0, <1>3, <1>5
    <2>2. ASSUME NEW j \in 1 .. n + m, i < j, h[j] # Off
          PROVE  h[i] < h[j]
        <3>1. CASE j \in 1 .. n
            BY <1>0, <1>5, <2>2, <3>1 DEF Within
        <3>2. CASE j - n \in 1 .. m /\ h[j] = g[j - n]
            BY <1>4, <2>1, <2>2, <3>2
        <3> QED
            BY <1>2, <3>1, <3>2
    <2> QED
        BY <2>1, <2>2
<1>6. CASE ~(i <= n) /\ i - n \in 1 .. m /\ h[i] = g[i - n]
    <2>1. h[i] \in mid + 1 .. hi
        BY <1>4, <1>6
    <2>2. ASSUME NEW j \in 1 .. n + m, i < j, h[j] # Off
          PROVE  h[i] < h[j]
        <3>1. j - n \in 1 .. m /\ h[j] = g[j - n] /\ i - n < j - n
            BY <1>2, <1>6, <2>2
        <3> QED
            BY <1>0, <1>6, <2>2, <3>1 DEF Within
    <2> QED
        BY <2>1, <2>2
<1> QED
    BY <1>2, <1>5, <1>6

(* What follows the first of a line is above it.                              *)
Beheaded(f, g) ==
    \E n \in Nat \ {0} :
        /\ DOMAIN f = 1 .. n /\ DOMAIN g = 1 .. n - 1
        /\ \A i \in 1 .. n - 1 : g[i] = f[i + 1]

LEMMA WithinTail ==
    ASSUME NEW f, NEW g, Beheaded(f, g), NEW lo \in Nat, NEW hi \in Nat, Within(f, lo, hi)
    PROVE  /\ Within(g, lo, hi)
           /\ f[1] # Off => f[1] \in lo + 1 .. hi /\ Within(g, f[1], hi)
<1>0. PICK n \in Nat \ {0} :
        /\ DOMAIN f = 1 .. n /\ DOMAIN g = 1 .. n - 1
        /\ \A i \in 1 .. n - 1 : g[i] = f[i + 1]
    BY DEF Beheaded
<1>1. \A i \in 1 .. n - 1 : i + 1 \in 1 .. n /\ 1 < i + 1
    OBVIOUS
<1>2. \A i, j \in 1 .. n - 1 : i < j => i + 1 < j + 1
    OBVIOUS
<1>3. Within(g, lo, hi)
    BY <1>0, <1>1, <1>2 DEF Within
<1>4. ASSUME f[1] # Off
      PROVE  f[1] \in lo + 1 .. hi /\ Within(g, f[1], hi)
    <2>1. 1 \in 1 .. n
        OBVIOUS
    <2>2. f[1] \in lo + 1 .. hi
        BY <1>0, <1>4, <2>1 DEF Within
    <2>3. ASSUME NEW i \in 1 .. n - 1, g[i] # Off
          PROVE  f[1] < g[i] /\ g[i] \in lo + 1 .. hi
        <3>1. f[i + 1] # Off /\ i + 1 \in 1 .. n /\ 1 < i + 1 /\ g[i] = f[i + 1]
            BY <1>0, <1>1, <2>3
        <3> HIDE DEF Off
        <3> QED
            BY <1>0, <1>4, <2>1, <3>1 DEF Within
    <2>4. \A i \in 1 .. n - 1 : g[i] # Off => g[i] \in f[1] + 1 .. hi
        BY <1>0, <2>2, <2>3
    <2> QED
        BY <1>0, <1>3, <2>2, <2>4 DEF Within
<1> QED
    BY <1>3, <1>4

(* The line of the connection s from q: what q's peer has read up to g, has in *)
(* its queue r, has read too late in l and has yet to read in u, and what q    *)
(* holds in d, of n numbers given.                                          *)
Line(q, s, r, g, l, u, d, n) ==
    \E x, y, z \in Nat :
        /\ g <= x /\ x <= y /\ y <= z /\ z <= n
        /\ Within(InQueue(r, <<q, s>>), g, x)
        /\ Within(InLate(l, q, s), x, y)
        /\ Within(InStream(u, s), y, z)
        /\ Within(InHeld(d), z, n)

LineTo(p, q, s) ==
    Line(q, s, received[p], got[p][<<q, s>>], late[p], wire[<<q, p>>], delayed[q][<<p, s>>],
         spent.packets)

OrderOK ==
    /\ \A p, q \in Peers, s \in Sockets : p # q => LineTo(p, q, s)
    /\ \A p \in Peers : \A i \in DOMAIN received[p] : received[p][i].key[1] # p
    /\ \A d \in air : d.msg.type = "data" => ~d.msg.packet.rel

LEMMA LineThins ==
    ASSUME NEW q, NEW s, NEW r, NEW g \in Nat, NEW l, NEW u, NEW d, NEW n \in Nat,
           Line(q, s, r, g, l, u, d, n),
           NEW r2, Drawn(InQueue(r2, <<q, s>>), InQueue(r, <<q, s>>)),
           NEW l2, Drawn(InLate(l2, q, s), InLate(l, q, s)),
           NEW u2, Drawn(InStream(u2, s), InStream(u, s)),
           NEW d2, Drawn(InHeld(d2), InHeld(d)),
           NEW n2 \in Nat, n <= n2
    PROVE  Line(q, s, r2, g, l2, u2, d2, n2)
<1>1. PICK x \in Nat, y \in Nat, z \in Nat :
        /\ g <= x /\ x <= y /\ y <= z /\ z <= n
        /\ Within(InQueue(r, <<q, s>>), g, x)
        /\ Within(InLate(l, q, s), x, y)
        /\ Within(InStream(u, s), y, z)
        /\ Within(InHeld(d), z, n)
    BY DEF Line
<1>2. /\ Within(InQueue(r2, <<q, s>>), g, x)
      /\ Within(InLate(l2, q, s), x, y)
      /\ Within(InStream(u2, s), y, z)
      /\ Within(InHeld(d2), z, n)
    BY <1>1, DrawnWithin
<1>3. z <= z /\ Within(InHeld(d2), z, n2)
    BY <1>1, <1>2, WithinWider
<1>4. z <= n2
    BY <1>1
<1> QED
    BY <1>1, <1>2, <1>3, <1>4 DEF Line

(* More numbers given do no harm.                                           *)
LEMMA LineLater ==
    ASSUME NEW q, NEW s, NEW r, NEW g \in Nat, NEW l, NEW u, NEW d, NEW n \in Nat,
           Line(q, s, r, g, l, u, d, n), NEW n2 \in Nat, n <= n2
    PROVE  Line(q, s, r, g, l, u, d, n2)
    BY DrawnSame, LineThins

LEMMA EmptyLines ==
    /\ \A q, s, f : Drawn(InLate(<<>>, q, s), f)
    /\ \A s, f : Drawn(InStream(<<>>, s), f) /\ Drawn(InStream(<<Eof>>, s), f)
    /\ \A f : Drawn(InHeld(<<>>), f)
    /\ \A k, f : Drawn(InQueue(<<>>, k), f)
<1>1. \A f, g : DOMAIN f = {} => Drawn(f, g)
    BY DEF Drawn
<1>2. /\ \A q, s : DOMAIN InLate(<<>>, q, s) = {}
      /\ \A s : DOMAIN InStream(<<>>, s) = {}
      /\ DOMAIN InHeld(<<>>) = {}
      /\ \A k : DOMAIN InQueue(<<>>, k) = {}
    BY DEF InLate, InStream, InHeld, InQueue
<1>3. ASSUME NEW s, NEW f
      PROVE  Drawn(InStream(<<Eof>>, s), f)
    <2>1. \A j \in DOMAIN InStream(<<Eof>>, s) : InStream(<<Eof>>, s)[j] = Off
        BY DEF InStream, Carried
    <2> HIDE DEF Off
    <2> QED
        BY <2>1 DEF Drawn
<1> QED
    BY <1>1, <1>2, <1>3

LEMMA MarkOK ==
    ASSUME NEW packet \in Packets
    PROVE  Mark(packet) \in Nat \cup {Off} /\ (packet.rel = FALSE => Mark(packet) = Off)
    BY PeersAssumption DEF Packets, Mark

(* What is flushed from the queue leaves the rest in order.                   *)
LEMMA LeftDrawn ==
    ASSUME NEW r \in Seq(Arrivals), NEW keys, NEW k
    PROVE  Drawn(InQueue(Left(r, keys), k), InQueue(r, k))
<1> DEFINE S == {i \in DOMAIN r : r[i].key \notin keys}
           v == Keep(r, S)
           e == [j \in DOMAIN v |-> Nth(S, j)]
<1>1. S \in SUBSET (DOMAIN r)
    OBVIOUS
<1>2. Left(r, keys) = v
    BY DEF Left
<1> HIDE DEF S
<1>3. /\ \A j \in DOMAIN v : Nth(S, j) \in DOMAIN r /\ v[j] = r[Nth(S, j)]
      /\ \A i, j \in DOMAIN v : i < j => Nth(S, i) < Nth(S, j)
    BY <1>1, KeepOK
<1>4. \A j \in DOMAIN v : e[j] = Nth(S, j)
    OBVIOUS
<1> HIDE DEF v, e
<1>5. \A j \in DOMAIN v : e[j] \in DOMAIN r /\ InQueue(r, k)[e[j]] = InQueue(v, k)[j]
    BY <1>3, <1>4 DEF InQueue
<1>6. \A i, j \in DOMAIN v : i < j => e[i] < e[j]
    BY <1>3, <1>4
<1>7. DOMAIN InQueue(v, k) = DOMAIN v /\ DOMAIN InQueue(r, k) = DOMAIN r
    BY DEF InQueue
<1>8. Drawn(InQueue(v, k), InQueue(r, k))
    BY <1>5, <1>6, <1>7, DrawnBy
<1> QED
    BY <1>2, <1>8

(* The stream without its first message, and one with messages behind it that  *)
(* carry no number of the connection.                                       *)
LEMMA TailDrawn ==
    ASSUME NEW M, NEW u \in Seq(M), u # <<>>, NEW s
    PROVE  Drawn(InStream(Tail(u), s), InStream(u, s))
<1> DEFINE v == Tail(u)
           e == [j \in DOMAIN v |-> j + 1]
<1>1. /\ Len(u) \in Nat /\ DOMAIN u = 1 .. Len(u) /\ DOMAIN v = 1 .. Len(u) - 1
      /\ \A j \in DOMAIN v : v[j] = u[j + 1]
    BY HeadTailProperties, LenProperties, EmptySeq
<1>2. \A j \in DOMAIN v : e[j] = j + 1
    OBVIOUS
<1> HIDE DEF v, e
<1>3. \A j \in DOMAIN v : e[j] \in DOMAIN u /\ v[j] = u[e[j]]
    BY <1>1, <1>2
<1>4. \A i, j \in DOMAIN v : i < j => e[i] < e[j]
    BY <1>1, <1>2
<1>5. /\ DOMAIN InStream(v, s) = DOMAIN v /\ DOMAIN InStream(u, s) = DOMAIN u
      /\ \A j \in DOMAIN v : InStream(u, s)[e[j]] = InStream(v, s)[j]
    BY <1>3 DEF InStream
<1>6. Drawn(InStream(v, s), InStream(u, s))
    BY <1>3, <1>4, <1>5, DrawnBy
<1> QED
    BY <1>6 DEF v

LEMMA BehindDrawn ==
    ASSUME NEW M, NEW u \in Seq(M), NEW v \in Seq(M), NEW s,
           \A i \in DOMAIN v : Carried(v[i], s) = Off
    PROVE  Drawn(InStream(u \o v, s), InStream(u, s))
<1> DEFINE w == u \o v
           e == [j \in DOMAIN w |-> j]
<1>1. /\ Len(u) \in Nat /\ Len(v) \in Nat /\ DOMAIN u = 1 .. Len(u) /\ DOMAIN v = 1 .. Len(v)
      /\ DOMAIN w = 1 .. Len(u) + Len(v)
      /\ \A i \in DOMAIN w : w[i] = IF i <= Len(u) THEN u[i] ELSE v[i - Len(u)]
    BY ConcatProperties, LenProperties
<1>2. \A j \in DOMAIN w : e[j] = j
    OBVIOUS
<1> HIDE DEF w, e, Off
<1>3. \A j \in DOMAIN w : (j \in DOMAIN u /\ w[j] = u[j]) \/ Carried(w[j], s) = Off
    <2> SUFFICES ASSUME NEW j \in DOMAIN w, j \notin DOMAIN u
                 PROVE  Carried(w[j], s) = Off
        BY <1>1
    <2>1. j - Len(u) \in DOMAIN v /\ w[j] = v[j - Len(u)]
        BY <1>1
    <2> QED
        BY <2>1
<1>4. /\ DOMAIN InStream(w, s) = DOMAIN w /\ DOMAIN InStream(u, s) = DOMAIN u
      /\ \A j \in DOMAIN w : InStream(w, s)[j] # Off =>
           e[j] \in DOMAIN u /\ InStream(u, s)[e[j]] = InStream(w, s)[j]
    BY <1>2, <1>3 DEF InStream
<1>5. \A i, j \in DOMAIN w : i < j => e[i] < e[j]
    BY <1>2
<1>6. Drawn(InStream(w, s), InStream(u, s))
    BY <1>4, <1>5, DrawnBy
<1> QED
    BY <1>6 DEF w

LEMMA DrawnTwice ==
    ASSUME NEW f, NEW g, NEW h, Drawn(f, g), Drawn(g, h)
    PROVE  Drawn(f, h)
<1>1. PICK d : \A j \in DOMAIN f : f[j] # Off =>
                 /\ d[j] \in DOMAIN g /\ g[d[j]] = f[j]
                 /\ \A i \in DOMAIN f : i < j /\ f[i] # Off => d[i] < d[j]
    BY DEF Drawn
<1>2. PICK e : \A j \in DOMAIN g : g[j] # Off =>
                 /\ e[j] \in DOMAIN h /\ h[e[j]] = g[j]
                 /\ \A i \in DOMAIN g : i < j /\ g[i] # Off => e[i] < e[j]
    BY DEF Drawn
<1> DEFINE c == [j \in DOMAIN f |-> e[d[j]]]
<1>3. \A j \in DOMAIN f : c[j] = e[d[j]]
    OBVIOUS
<1> HIDE DEF c, Off
<1>4. ASSUME NEW j \in DOMAIN f, f[j] # Off
      PROVE  /\ c[j] \in DOMAIN h /\ h[c[j]] = f[j]
             /\ \A i \in DOMAIN f : i < j /\ f[i] # Off => c[i] < c[j]
    <2>1. d[j] \in DOMAIN g /\ g[d[j]] = f[j]
        BY <1>1, <1>4
    <2>2. c[j] \in DOMAIN h /\ h[c[j]] = f[j]
        BY <1>2, <1>3, <1>4, <2>1
    <2>3. ASSUME NEW i \in DOMAIN f, i < j, f[i] # Off
          PROVE  c[i] < c[j]
        <3>1. d[i] \in DOMAIN g /\ g[d[i]] = f[i] /\ d[i] < d[j]
            BY <1>1, <1>4, <2>3
        <3> QED
            BY <1>2, <1>3, <1>4, <2>1, <2>3, <3>1
    <2> QED
        BY <2>2, <2>3
<1> QED
    BY <1>4 DEF Drawn

(* A stream cut off: what is read of it, and then its end.                    *)
LEMMA PrefixDrawn ==
    ASSUME NEW u \in Seq(Messages \cup {Eof}), NEW n \in 0 .. Len(u), NEW s
    PROVE  /\ Drawn(InStream(SubSeq(u, 1, n), s), InStream(u, s))
           /\ Drawn(InStream(SubSeq(u, 1, n) \o <<Eof>>, s), InStream(u, s))
<1> DEFINE v == SubSeq(u, 1, n)
           e == [j \in DOMAIN v |-> j]
<1>1. /\ v \in Seq(Messages \cup {Eof})
      /\ DOMAIN v = 1 .. n /\ DOMAIN u = 1 .. Len(u) /\ Len(u) \in Nat
      /\ \A j \in 1 .. n : v[j] = u[j]
    BY SubSeqProperties, LenProperties
<1>2. \A j \in DOMAIN v : e[j] = j
    OBVIOUS
<1> HIDE DEF v, e
<1>3. /\ DOMAIN InStream(v, s) = DOMAIN v /\ DOMAIN InStream(u, s) = DOMAIN u
      /\ \A j \in DOMAIN v : e[j] \in DOMAIN u /\ InStream(u, s)[e[j]] = InStream(v, s)[j]
    BY <1>1, <1>2 DEF InStream
<1>4. \A i, j \in DOMAIN v : i < j => e[i] < e[j]
    BY <1>2
<1>5. Drawn(InStream(v, s), InStream(u, s))
    BY <1>3, <1>4, DrawnBy
<1>6. Drawn(InStream(v \o <<Eof>>, s), InStream(v, s))
    <2>1. <<Eof>> \in Seq(Messages \cup {Eof})
        OBVIOUS
    <2>2. \A i \in DOMAIN <<Eof>> : Carried(<<Eof>>[i], s) = Off
        BY DEF Carried
    <2> QED
        BY <1>1, <2>1, <2>2, BehindDrawn
<1> QED
    BY <1>5, <1>6, DrawnTwice DEF v

LEMMA StreamConcat ==
    ASSUME NEW M, NEW u \in Seq(M), NEW v \in Seq(M), NEW s,
           NEW lo \in Nat, NEW mid \in Nat, NEW hi \in Nat, lo <= mid, mid <= hi,
           Within(InStream(u, s), lo, mid), Within(InStream(v, s), mid, hi)
    PROVE  Within(InStream(u \o v, s), lo, hi)
<1> DEFINE w == u \o v
           f == InStream(u, s)
           g == InStream(v, s)
           h == InStream(w, s)
<1>1. /\ Len(u) \in Nat /\ Len(v) \in Nat /\ DOMAIN u = 1 .. Len(u) /\ DOMAIN v = 1 .. Len(v)
      /\ DOMAIN w = 1 .. Len(u) + Len(v)
      /\ \A i \in DOMAIN w : w[i] = IF i <= Len(u) THEN u[i] ELSE v[i - Len(u)]
    BY ConcatProperties, LenProperties
<1> HIDE DEF w
<1>2. /\ \A i \in 1 .. Len(u) : i \in DOMAIN w /\ w[i] = u[i]
      /\ \A i \in 1 .. Len(v) : Len(u) + i \in DOMAIN w /\ w[Len(u) + i] = v[i]
    <2>1. ASSUME NEW i \in 1 .. Len(v)
          PROVE  Len(u) + i \in DOMAIN w /\ w[Len(u) + i] = v[i]
        <3>1. ~(Len(u) + i <= Len(u)) /\ (Len(u) + i) - Len(u) = i /\ Len(u) + i \in DOMAIN w
            BY <1>1
        <3> QED
            BY <1>1, <3>1
    <2> QED
        BY <1>1, <2>1
<1>3. DOMAIN f = 1 .. Len(u) /\ DOMAIN g = 1 .. Len(v) /\ DOMAIN h = 1 .. Len(u) + Len(v)
    BY <1>1 DEF InStream
<1>4. /\ \A i \in 1 .. Len(u) : h[i] = f[i]
      /\ \A i \in 1 .. Len(v) : h[Len(u) + i] = g[i]
    BY <1>1, <1>2 DEF InStream
<1> HIDE DEF f, g, h
<1>5. Within(h, lo, hi)
    <2>1. Within(f, lo, mid) /\ Within(g, mid, hi)
        BY DEF f, g
    <2>2. Len(u) \in Nat /\ Len(v) \in Nat
        BY <1>1
    <2> DEFINE a == Len(u)
               b == Len(v)
    <2> HIDE DEF a, b
    <2>3. /\ a \in Nat /\ b \in Nat
          /\ DOMAIN f = 1 .. a /\ DOMAIN g = 1 .. b /\ DOMAIN h = 1 .. a + b
          /\ \A i \in 1 .. a : h[i] = f[i]
          /\ \A i \in 1 .. b : h[a + i] = g[i]
        BY <1>3, <1>4, <2>2 DEF a, b
    <2>4. Joined(f, g, h)
        BY <2>3, Zenon DEF Joined
    <2> QED
        BY <2>1, <2>4, WithinConcat
<1> QED
    BY <1>5 DEF h, w

(* What is put behind a stream of p in place of what it held: the packets come *)
(* in their order, and whatever flies is unreliable.                        *)
LEMMA TransmitKeepsOrder ==
    ASSUME NEW p \in Peers, NEW key \in Keys, p # key[1],
           NEW first \in Seq(Messages), \A i \in DOMAIN first : first[i].type # "data",
           NEW packets \in Seq(Packets), NEW w, Streams(w, Messages), NEW a,
           Transmit(p, key, first, packets, w, a)
    PROVE  /\ \A r \in Pairs : r # <<p, key[1]>> => wire'[r] = w[r]
           /\ \A s : s # key[2] =>
                Drawn(InStream(wire'[<<p, key[1]>>], s), InStream(w[<<p, key[1]>>], s))
           /\ \A lo, mid, hi \in Nat :
                /\ lo <= mid /\ mid <= hi
                /\ Within(InStream(w[<<p, key[1]>>], key[2]), lo, mid)
                /\ Within(InHeld(packets), mid, hi)
                => Within(InStream(wire'[<<p, key[1]>>], key[2]), lo, hi)
           /\ \A d \in air' : d \in a \/ ~d.msg.packet.rel
<1> DEFINE q == key[1]
           messages == [i \in DOMAIN packets |-> Message("data", key[2], packets[i])]
           flying == {i \in DOMAIN packets : ~packets[i].rel /\ {<<p, q>>, <<q, p>>} \subseteq up}
<1>1. PICK byAir \in SUBSET flying :
        /\ wire' = Posted(w, p, q, first \o Keep(messages, DOMAIN packets \ byAir))
        /\ air' = a \cup {[from |-> p, to |-> q, msg |-> messages[i]] : i \in byAir}
    BY DEF Transmit
<1>2. \A i \in DOMAIN packets : packets[i] \in Packets /\ messages[i] \in Messages
    <2> SUFFICES ASSUME NEW i \in DOMAIN packets
                 PROVE  packets[i] \in Packets /\ messages[i] \in Messages
        OBVIOUS
    <2>1. packets[i] \in Packets
        BY ElementOfSeq, LenProperties
    <2>2. Message("data", key[2], packets[i]) \in Messages
        BY <2>1, Kinded
    <2> QED
        BY <2>1, <2>2
<1>3. messages \in Seq(Messages) /\ DOMAIN messages = DOMAIN packets
    <2>1. DOMAIN packets = 1 .. Len(packets) /\ Len(packets) \in Nat
        BY LenProperties
    <2>2. messages = [i \in 1 .. Len(packets) |-> messages[i]]
        BY <2>1
    <2>3. DOMAIN messages = DOMAIN packets
        OBVIOUS
    <2> HIDE DEF messages
    <2>4. \A i \in 1 .. Len(packets) : messages[i] \in Messages
        BY <1>2, <2>1
    <2> QED
        BY <2>1, <2>2, <2>3, <2>4, IsASeq
<1>4. \A d \in air' : d \in a \/ ~d.msg.packet.rel
    BY <1>1 DEF Message
<1>5. \A s : \A i \in DOMAIN packets :
        Carried(messages[i], s) = IF s = key[2] THEN Mark(packets[i]) ELSE Off
    BY DEF Carried, Message, Eof
<1> DEFINE S == DOMAIN packets \ byAir
           kept == Keep(messages, S)
<1>6. S \subseteq DOMAIN packets
    OBVIOUS
<1> HIDE DEF messages, flying, S
<1>7. /\ kept \in Seq(Messages)
      /\ \A j \in DOMAIN kept : Nth(S, j) \in DOMAIN packets /\ kept[j] = messages[Nth(S, j)]
      /\ \A i, j \in DOMAIN kept : i < j => Nth(S, i) < Nth(S, j)
    <2>1. S \in SUBSET (DOMAIN messages)
        BY <1>3, <1>6
    <2> QED
        BY <1>3, <1>6, <2>1, KeepOK
<1> HIDE DEF kept
<1>8. Drawn(InStream(kept, key[2]), InHeld(packets))
    <2> DEFINE e == [j \in DOMAIN kept |-> Nth(S, j)]
    <2>1. \A j \in DOMAIN kept : e[j] = Nth(S, j)
        OBVIOUS
    <2> HIDE DEF e
    <2>2. /\ DOMAIN InStream(kept, key[2]) = DOMAIN kept
          /\ DOMAIN InHeld(packets) = DOMAIN packets
          /\ \A j \in DOMAIN kept : InStream(kept, key[2])[j] = Carried(kept[j], key[2])
          /\ \A i \in DOMAIN packets : InHeld(packets)[i] = Mark(packets[i])
        BY DEF InStream, InHeld
    <2>3. \A j \in DOMAIN kept :
            e[j] \in DOMAIN packets /\ InHeld(packets)[e[j]] = InStream(kept, key[2])[j]
        <3> SUFFICES ASSUME NEW j \in DOMAIN kept
                     PROVE  /\ Nth(S, j) \in DOMAIN packets
                            /\ InHeld(packets)[Nth(S, j)] = InStream(kept, key[2])[j]
            BY <2>1
        <3>1. Nth(S, j) \in DOMAIN packets /\ kept[j] = messages[Nth(S, j)]
            BY <1>7
        <3>2. Carried(messages[Nth(S, j)], key[2]) = Mark(packets[Nth(S, j)])
            BY <1>5, <3>1
        <3> QED
            BY <2>2, <3>1, <3>2
    <2>4. \A i, j \in DOMAIN kept : i < j => e[i] < e[j]
        BY <1>7, <2>1
    <2> QED
        BY <2>2, <2>3, <2>4, DrawnBy
<1>9. \A s : \A i \in DOMAIN first : Carried(first[i], s) = Off
    BY DEF Carried
<1> DEFINE ms == first \o kept
<1>10. ms \in Seq(Messages)
    BY <1>7, ConcatProperties
<1>11. \A s : s # key[2] => \A i \in DOMAIN ms : Carried(ms[i], s) = Off
    <2> SUFFICES ASSUME NEW s, s # key[2], NEW i \in DOMAIN ms PROVE Carried(ms[i], s) = Off
        OBVIOUS
    <2>1. \/ i \in DOMAIN first /\ ms[i] = first[i]
          \/ i - Len(first) \in DOMAIN kept /\ ms[i] = kept[i - Len(first)]
        <3>1. /\ DOMAIN first = 1 .. Len(first) /\ DOMAIN kept = 1 .. Len(kept)
              /\ Len(first) \in Nat /\ Len(kept) \in Nat
              /\ DOMAIN ms = 1 .. Len(first) + Len(kept)
              /\ ms[i] = IF i <= Len(first) THEN first[i] ELSE kept[i - Len(first)]
            BY <1>7, ConcatProperties, LenProperties
        <3> HIDE DEF ms
        <3> QED
            BY <3>1
    <2> HIDE DEF ms, Off
    <2>2. CASE i - Len(first) \in DOMAIN kept /\ ms[i] = kept[i - Len(first)]
        <3> DEFINE j == i - Len(first)
        <3>1. j \in DOMAIN kept /\ ms[i] = kept[j]
            BY <2>2
        <3> HIDE DEF j
        <3>2. Nth(S, j) \in DOMAIN packets /\ ms[i] = messages[Nth(S, j)]
            BY <1>7, <3>1
        <3> QED
            BY <1>5, <3>2
    <2>3. CASE i \in DOMAIN first /\ ms[i] = first[i]
        BY <1>9, <2>3
    <2> QED
        BY <2>1, <2>2, <2>3
<1>12. ASSUME NEW mid \in Nat, NEW hi \in Nat, mid <= hi, Within(InHeld(packets), mid, hi)
       PROVE  Within(InStream(ms, key[2]), mid, hi)
    <2>1. Within(InStream(kept, key[2]), mid, hi)
        BY <1>8, <1>12, DrawnWithin
    <2>2. Within(InStream(first, key[2]), mid, mid)
        BY <1>9 DEF Within, InStream
    <2>3. mid <= mid
        OBVIOUS
    <2> QED
        BY <1>7, <1>12, <2>1, <2>2, <2>3, StreamConcat
<1> HIDE DEF ms
<1> DEFINE pq == <<p, q>>
<1>13. /\ pq \in Pairs /\ w[pq] \in Seq(Messages \cup {Eof}) /\ ms \in Seq(Messages \cup {Eof})
       /\ \A r \in Pairs : r # pq => wire'[r] = w[r]
       /\ wire'[pq] = w[pq] \o ms \/ wire'[pq] = w[pq]
    <2>1. pq \in Pairs /\ w[pq] \in Seq(Messages \cup {Eof}) /\ ms \in Seq(Messages \cup {Eof})
        BY <1>10 DEF Pairs, Streams, Keys
    <2>2. wire' = Posted(w, p, q, ms)
        BY <1>1 DEF kept, ms, S
    <2>3. \A r \in Pairs :
            wire'[r] = IF r = pq /\ r \in up /\ Reads(q, p) THEN w[r] \o ms ELSE w[r]
        BY <1>10, <2>2, PostedSeq
    <2> QED
        BY <2>1, <2>3
<1> HIDE DEF pq, q
<1>14. ASSUME NEW s, s # key[2]
       PROVE  Drawn(InStream(wire'[pq], s), InStream(w[pq], s))
    <2>1. \A i \in DOMAIN ms : Carried(ms[i], s) = Off
        BY <1>11, <1>14
    <2> QED
        BY <1>13, <2>1, BehindDrawn, DrawnSame
<1>15. ASSUME NEW lo \in Nat, NEW mid \in Nat, NEW hi \in Nat, lo <= mid, mid <= hi,
              Within(InStream(w[pq], key[2]), lo, mid), Within(InHeld(packets), mid, hi)
       PROVE  Within(InStream(wire'[pq], key[2]), lo, hi)
    <2>1. CASE wire'[pq] = w[pq] \o ms
        BY <1>12, <1>13, <1>15, <2>1, StreamConcat
    <2>2. CASE wire'[pq] = w[pq]
        BY <1>15, <2>2, WithinWider
    <2> QED
        BY <1>13, <2>1, <2>2
<1> QED
    BY <1>4, <1>13, <1>14, <1>15 DEF pq, q

-----------------------------------------------------------------------------
(* A step of p keeps the lines it writes to and the lines it reads from.  w and *)
(* a are the wire and the air between the reading and the writing.           *)

SendsWell(p, w, a) ==
    /\ \A r \in Pairs : r[1] # p => wire'[r] = w[r]
    /\ \A x \in Peers : x # p => delayed'[x] = delayed[x]
    /\ spent.packets <= spent'.packets
    /\ \A d \in air' : d \in a \/ (d.msg.type = "data" => ~d.msg.packet.rel)
    /\ \A q \in Peers, s \in Sockets : p # q =>
         \A r, l : \A g \in Nat :
           Line(p, s, r, g, l, w[<<p, q>>], delayed[p][<<q, s>>], spent.packets)
             => Line(p, s, r, g, l, wire'[<<p, q>>], delayed'[p][<<q, s>>], spent'.packets)

ReceivesWell(p, w, a) ==
    /\ \A x \in Peers : x # p =>
         received'[x] = received[x] /\ got'[x] = got[x] /\ late'[x] = late[x]
    /\ \A r \in Pairs : r[2] # p => w[r] = wire[r]
    /\ a \subseteq air
    /\ \A i \in DOMAIN received'[p] : received'[p][i].key[1] # p
    /\ \A q \in Peers, s \in Sockets : p # q =>
         Line(q, s, received'[p], got'[p][<<q, s>>], late'[p], w[<<q, p>>],
              delayed[q][<<p, s>>], spent.packets)

LEMMA Counted ==
    /\ PeersOK => \A p, q \in Peers, s \in Sockets : got[p][<<q, s>>] \in Nat
    /\ SpentOK => spent.packets \in Nat
    BY PeersAssumption DEF PeersOK, SpentOK, Keys

LEMMA StepOrdered ==
    ASSUME OrderOK, PeersOK, PeersOK', SpentOK, SpentOK', NEW p \in Peers, NEW w, NEW a,
           SendsWell(p, w, a), ReceivesWell(p, w, a)
    PROVE  OrderOK'
<1>1. /\ \A x, q \in Peers, s \in Sockets : got[x][<<q, s>>] \in Nat /\ got'[x][<<q, s>>] \in Nat
      /\ spent.packets \in Nat /\ spent'.packets \in Nat /\ spent.packets <= spent'.packets
    <2>1. \A x, q \in Peers, s \in Sockets : got[x][<<q, s>>] \in Nat
        BY Counted
    <2>2. \A x, q \in Peers, s \in Sockets : got'[x][<<q, s>>] \in Nat
        BY PeersAssumption DEF PeersOK, Keys
    <2>3. spent.packets \in Nat /\ spent'.packets \in Nat
        BY PeersAssumption DEF SpentOK
    <2> QED
        BY <2>1, <2>2, <2>3 DEF SendsWell
<1>2. ASSUME NEW x \in Peers, NEW q \in Peers, NEW s \in Sockets, x # q
      PROVE  LineTo(x, q, s)'
    <2>1. /\ <<q, x>> \in Pairs /\ <<q, x>>[1] = q /\ <<q, x>>[2] = x
          /\ Line(q, s, received[x], got[x][<<q, s>>], late[x], wire[<<q, x>>],
                  delayed[q][<<x, s>>], spent.packets)
        BY <1>2 DEF OrderOK, LineTo, Pairs
    <2>2. CASE q = p
        <3>1. /\ received'[x] = received[x] /\ got'[x] = got[x] /\ late'[x] = late[x]
              /\ w[<<p, x>>] = wire[<<p, x>>]
            BY <1>2, <2>1, <2>2 DEF ReceivesWell
        <3>2. Line(p, s, received[x], got[x][<<p, s>>], late[x], wire'[<<p, x>>],
                   delayed'[p][<<x, s>>], spent'.packets)
            BY <1>1, <1>2, <2>1, <2>2, <3>1 DEF SendsWell
        <3> QED
            BY <2>2, <3>1, <3>2 DEF LineTo
    <2>3. CASE q # p
        <3>1. wire'[<<q, x>>] = w[<<q, x>>] /\ delayed'[q] = delayed[q]
            BY <2>1, <2>3 DEF SendsWell
        <3>2. CASE x = p
            <4>1. Line(q, s, received'[x], got'[x][<<q, s>>], late'[x], wire'[<<q, x>>],
                       delayed'[q][<<x, s>>], spent.packets)
                BY <2>3, <3>1, <3>2 DEF ReceivesWell
            <4> QED
                BY <1>1, <4>1, LineLater DEF LineTo
        <3>3. CASE x # p
            <4>1. /\ received'[x] = received[x] /\ got'[x] = got[x] /\ late'[x] = late[x]
                  /\ w[<<q, x>>] = wire[<<q, x>>]
                BY <2>1, <3>3 DEF ReceivesWell
            <4>2. Line(q, s, received'[x], got'[x][<<q, s>>], late'[x], wire'[<<q, x>>],
                       delayed'[q][<<x, s>>], spent.packets)
                BY <2>1, <3>1, <4>1
            <4> QED
                BY <1>1, <4>2, LineLater DEF LineTo
        <3> QED
            BY <3>2, <3>3
    <2> QED
        BY <2>2, <2>3
<1>3. ASSUME NEW x \in Peers, NEW i \in DOMAIN received'[x]
      PROVE  received'[x][i].key[1] # x
    BY <1>3 DEF OrderOK, ReceivesWell
<1>4. \A d \in air' : d.msg.type = "data" => ~d.msg.packet.rel
    BY DEF OrderOK, SendsWell, ReceivesWell
<1> QED
    BY <1>2, <1>3, <1>4 DEF OrderOK

(* A step that only takes away, on the side that sends and on the side that reads. *)
LEMMA ThinSends ==
    ASSUME SpentOK, SpentOK', NEW p \in Peers, NEW w, NEW a,
           \A r \in Pairs : r[1] # p => wire'[r] = w[r],
           \A x \in Peers : x # p => delayed'[x] = delayed[x],
           spent.packets <= spent'.packets, air' \subseteq a,
           \A q \in Peers, s \in Sockets : p # q =>
             /\ Drawn(InStream(wire'[<<p, q>>], s), InStream(w[<<p, q>>], s))
             /\ Drawn(InHeld(delayed'[p][<<q, s>>]), InHeld(delayed[p][<<q, s>>]))
    PROVE  SendsWell(p, w, a)
<1>1. spent.packets \in Nat /\ spent'.packets \in Nat
    BY PeersAssumption DEF SpentOK
<1>2. ASSUME NEW q \in Peers, NEW s \in Sockets, p # q, NEW r, NEW l, NEW g \in Nat,
             Line(p, s, r, g, l, w[<<p, q>>], delayed[p][<<q, s>>], spent.packets)
      PROVE  Line(p, s, r, g, l, wire'[<<p, q>>], delayed'[p][<<q, s>>], spent'.packets)
    <2>1. /\ Drawn(InQueue(r, <<p, s>>), InQueue(r, <<p, s>>))
          /\ Drawn(InLate(l, p, s), InLate(l, p, s))
        BY DrawnSame
    <2>2. /\ Drawn(InStream(wire'[<<p, q>>], s), InStream(w[<<p, q>>], s))
          /\ Drawn(InHeld(delayed'[p][<<q, s>>]), InHeld(delayed[p][<<q, s>>]))
        BY <1>2
    <2> QED
        BY <1>1, <1>2, <2>1, <2>2, LineThins
<1> QED
    BY <1>2 DEF SendsWell

LEMMA ThinReceives ==
    ASSUME OrderOK, PeersOK, SpentOK, NEW p \in Peers, NEW w, NEW a,
           \A x \in Peers : x # p => received'[x] = received[x] /\ late'[x] = late[x],
           UNCHANGED got,
           \A r \in Pairs : r[2] # p => w[r] = wire[r],
           a \subseteq air,
           \A i \in DOMAIN received'[p] : received'[p][i].key[1] # p,
           \A q \in Peers, s \in Sockets : p # q =>
             /\ Drawn(InQueue(received'[p], <<q, s>>), InQueue(received[p], <<q, s>>))
             /\ Drawn(InLate(late'[p], q, s), InLate(late[p], q, s))
             /\ Drawn(InStream(w[<<q, p>>], s), InStream(wire[<<q, p>>], s))
    PROVE  ReceivesWell(p, w, a)
<1>1. ASSUME NEW q \in Peers, NEW s \in Sockets, p # q
      PROVE  Line(q, s, received'[p], got'[p][<<q, s>>], late'[p], w[<<q, p>>],
                  delayed[q][<<p, s>>], spent.packets)
    <2>1. LineTo(p, q, s)
        BY <1>1 DEF OrderOK
    <2>2. got[p][<<q, s>>] \in Nat /\ spent.packets \in Nat /\ spent.packets <= spent.packets
        BY Counted
    <2>3. /\ Drawn(InQueue(received'[p], <<q, s>>), InQueue(received[p], <<q, s>>))
          /\ Drawn(InLate(late'[p], q, s), InLate(late[p], q, s))
          /\ Drawn(InStream(w[<<q, p>>], s), InStream(wire[<<q, p>>], s))
          /\ Drawn(InHeld(delayed[q][<<p, s>>]), InHeld(delayed[q][<<p, s>>]))
        BY <1>1, DrawnSame
    <2> QED
        BY <2>1, <2>2, <2>3, LineThins DEF LineTo
<1> QED
    BY <1>1 DEF ReceivesWell

LEMMA NothingRead ==
    ASSUME OrderOK, PeersOK, SpentOK, NEW p \in Peers, UNCHANGED <<received, got, late>>
    PROVE  ReceivesWell(p, wire, air)
<1>1. \A i \in DOMAIN received'[p] : received'[p][i].key[1] # p
    BY DEF OrderOK
<1>2. \A f : Drawn(f, f)
    BY DrawnSame
<1> QED
    BY <1>1, <1>2, ThinReceives

LEMMA PostsDrawn ==
    ASSUME NEW p \in Peers, NEW q \in Peers, p # q, NEW ms \in Seq(Messages),
           \A i \in DOMAIN ms : ms[i].type # "data",
           NEW w, Streams(w, Messages), wire' = Posted(w, p, q, ms)
    PROVE  /\ \A r \in Pairs : r # <<p, q>> => wire'[r] = w[r]
           /\ \A s : Drawn(InStream(wire'[<<p, q>>], s), InStream(w[<<p, q>>], s))
<1> DEFINE pq == <<p, q>>
<1>1. pq \in Pairs /\ w[pq] \in Seq(Messages \cup {Eof}) /\ ms \in Seq(Messages \cup {Eof})
    BY DEF Pairs, Streams
<1>2. \A r \in Pairs :
        wire'[r] = IF r = pq /\ r \in up /\ Reads(q, p) THEN w[r] \o ms ELSE w[r]
    BY PostedSeq
<1> HIDE DEF pq
<1>3. wire'[pq] = w[pq] \o ms \/ wire'[pq] = w[pq]
    BY <1>1, <1>2
<1>4. \A s : \A i \in DOMAIN ms : Carried(ms[i], s) = Off
    BY DEF Carried
<1>5. \A s : Drawn(InStream(wire'[pq], s), InStream(w[pq], s))
    BY <1>1, <1>3, <1>4, BehindDrawn, DrawnSame
<1> QED
    BY <1>2, <1>5 DEF pq

LEMMA ControlPlain ==
    ASSUME NEW key \in Keys, NEW type \in {"request", "response", "close"}
    PROVE  /\ Control(type, key) \in Seq(Messages)
           /\ \A i \in DOMAIN Control(type, key) : Control(type, key)[i].type # "data"
<1>1. type \in {"data", "request", "response", "close"}
    OBVIOUS
<1>2. Control(type, key) \in Seq(Messages)
    BY <1>1, ControlOK
<1>3. \A i \in DOMAIN Control(type, key) : Control(type, key)[i].type = type
    BY DEF Control, Message
<1> QED
    BY <1>2, <1>3

(* What p posts is no packet, and what it holds stays or goes.               *)
LEMMA PlainSends ==
    ASSUME SpentOK, SpentOK', NEW p \in Peers, NEW q \in Peers, p # q, NEW ms \in Seq(Messages),
           \A i \in DOMAIN ms : ms[i].type # "data",
           NEW w, Streams(w, Messages), NEW a, wire' = Posted(w, p, q, ms), air' \subseteq a,
           \A x \in Peers : x # p => delayed'[x] = delayed[x],
           \A k \in Keys : Drawn(InHeld(delayed'[p][k]), InHeld(delayed[p][k])),
           spent.packets <= spent'.packets
    PROVE  SendsWell(p, w, a)
<1>1. /\ \A r \in Pairs : r # <<p, q>> => wire'[r] = w[r]
      /\ \A s : Drawn(InStream(wire'[<<p, q>>], s), InStream(w[<<p, q>>], s))
    BY PostsDrawn
<1>2. \A r \in Pairs : r[1] # p => wire'[r] = w[r]
    BY <1>1
<1>3. ASSUME NEW x \in Peers, NEW s \in Sockets, p # x
      PROVE  /\ Drawn(InStream(wire'[<<p, x>>], s), InStream(w[<<p, x>>], s))
             /\ Drawn(InHeld(delayed'[p][<<x, s>>]), InHeld(delayed[p][<<x, s>>]))
    <2>1. <<x, s>> \in Keys /\ <<p, x>> \in Pairs
        BY <1>3 DEF Keys, Pairs
    <2>2. CASE x = q
        BY <1>1, <2>1, <2>2
    <2>3. CASE x # q
        <3>1. <<p, x>> # <<p, q>>
            BY <2>3
        <3>2. wire'[<<p, x>>] = w[<<p, x>>]
            BY <1>1, <2>1, <3>1
        <3> QED
            BY <2>1, <3>2, DrawnSame
    <2> QED
        BY <2>2, <2>3
<1> QED
    BY <1>2, <1>3, ThinSends

LEMMA UnmovedSends ==
    ASSUME SpentOK, SpentOK', NEW p \in Peers, NEW w, NEW a, Unmoved(w, a),
           \A x \in Peers : x # p => delayed'[x] = delayed[x],
           \A k \in Keys : Drawn(InHeld(delayed'[p][k]), InHeld(delayed[p][k])),
           spent.packets <= spent'.packets
    PROVE  SendsWell(p, w, a)
<1>1. \A f : Drawn(f, f)
    BY DrawnSame
<1>2. \A q \in Peers, s \in Sockets : <<q, s>> \in Keys
    BY DEF Keys
<1> QED
    BY <1>1, <1>2, ThinSends DEF Unmoved

(* A packet is held back: it has the newest of the numbers.                   *)
LEMMA HeldSends ==
    ASSUME SpentOK, SpentOK', PeersOK, NEW p \in Peers, NEW key \in Keys, NEW rel \in BOOLEAN,
           NEW hold, HoldBack(p, key, rel, hold), NEW w, NEW a, air' \subseteq a,
           \A r \in Pairs : r[1] # p => wire'[r] = w[r],
           \A q \in Peers, s \in Sockets : p # q =>
             Drawn(InStream(wire'[<<p, q>>], s), InStream(w[<<p, q>>], s))
    PROVE  SendsWell(p, w, a)
<1>1. delayed \in [Peers -> [Keys -> Seq(Packets)]]
    BY DEF PeersOK
<1>2. spent.packets \in Nat /\ spent'.packets \in Nat
    BY PeersAssumption DEF SpentOK
<1>3. \A f : Drawn(f, f)
    BY DrawnSame
<1>4. CASE UNCHANGED <<delayed, spent>>
    <2>1. spent.packets <= spent'.packets
        BY <1>2, <1>4
    <2> QED
        BY <1>3, <1>4, <2>1, ThinSends
<1>5. CASE /\ Spend("packets", MaxPackets)
           /\ delayed' = [delayed EXCEPT ![p][key] =
                            Append(@, [n |-> spent.packets + 1, rel |-> rel])]
    <2> DEFINE pk == [n |-> spent.packets + 1, rel |-> rel]
               d == delayed[p][key]
               e == Append(d, pk)
    <2>1. spent'.packets = spent.packets + 1
        BY <1>2, <1>5 DEF Spend, SpentOK
    <2>2. /\ Len(d) \in Nat /\ DOMAIN d = 1 .. Len(d) /\ DOMAIN e = 1 .. Len(d) + 1
          /\ \A i \in 1 .. Len(d) : e[i] = d[i]
          /\ e[Len(d) + 1] = pk
        BY <1>1, AppendProperties, LenProperties
    <2>3. delayed' = [delayed EXCEPT ![p][key] = e]
        BY <1>5
    <2>4. Mark(pk) \in {Off, spent.packets + 1}
        BY DEF Mark
    <2> HIDE DEF pk, e
    <2>5. /\ delayed'[p][key] = e
          /\ \A k \in Keys : k # key => delayed'[p][k] = delayed[p][k]
          /\ \A x \in Peers : x # p => delayed'[x] = delayed[x]
        BY <1>1, <2>3
    <2> HIDE DEF d
    <2>6. ASSUME NEW z \in Nat, z <= spent.packets, Within(InHeld(d), z, spent.packets)
          PROVE  Within(InHeld(e), z, spent'.packets)
        <3>1. /\ DOMAIN InHeld(d) = 1 .. Len(d) /\ DOMAIN InHeld(e) = 1 .. Len(d) + 1
              /\ \A i \in 1 .. Len(d) : InHeld(e)[i] = InHeld(d)[i]
              /\ InHeld(e)[Len(d) + 1] = Mark(pk)
            BY <2>2 DEF InHeld
        <3>2. Mark(pk) = Off \/ Mark(pk) \in spent.packets + 1 .. spent'.packets
            BY <1>2, <2>1, <2>4
        <3>3. spent.packets <= spent'.packets
            BY <1>2, <2>1
        <3> DEFINE f == InHeld(d)
                   g == InHeld(e)
                   n == Len(d)
        <3> HIDE DEF f, g, n, Off
        <3>4. /\ n \in Nat /\ DOMAIN f = 1 .. n /\ DOMAIN g = 1 .. n + 1
              /\ \A i \in 1 .. n : g[i] = f[i]
              /\ g[n + 1] = Off \/ g[n + 1] \in spent.packets + 1 .. spent'.packets
              /\ Within(f, z, spent.packets)
            BY <2>2, <2>6, <3>1, <3>2 DEF f, g, n
        <3>5. Within(g, z, spent'.packets)
            BY <1>2, <2>6, <3>3, <3>4, WithinAppend
        <3> QED
            BY <3>5 DEF g
    <2>7. ASSUME NEW q \in Peers, NEW s \in Sockets, p # q, NEW r, NEW l, NEW g \in Nat,
                 Line(p, s, r, g, l, w[<<p, q>>], delayed[p][<<q, s>>], spent.packets)
          PROVE  Line(p, s, r, g, l, wire'[<<p, q>>], delayed'[p][<<q, s>>], spent'.packets)
        <3>1. /\ Drawn(InStream(wire'[<<p, q>>], s), InStream(w[<<p, q>>], s))
              /\ <<q, s>> \in Keys /\ spent.packets <= spent'.packets
            BY <1>2, <2>1, <2>7 DEF Keys
        <3>2. CASE <<q, s>> = key
            <4>1. PICK x \in Nat, y \in Nat, z \in Nat :
                    /\ g <= x /\ x <= y /\ y <= z /\ z <= spent.packets
                    /\ Within(InQueue(r, <<p, s>>), g, x)
                    /\ Within(InLate(l, p, s), x, y)
                    /\ Within(InStream(w[<<p, q>>], s), y, z)
                    /\ Within(InHeld(delayed[p][<<q, s>>]), z, spent.packets)
                BY <2>7 DEF Line
            <4>2. Within(InHeld(delayed'[p][<<q, s>>]), z, spent'.packets)
                BY <2>5, <2>6, <3>2, <4>1 DEF d
            <4>3. Within(InStream(wire'[<<p, q>>], s), y, z)
                BY <3>1, <4>1, DrawnWithin
            <4>4. z <= spent'.packets
                BY <1>2, <3>1, <4>1
            <4> QED
                BY <4>1, <4>2, <4>3, <4>4 DEF Line
        <3>3. CASE <<q, s>> # key
            <4>1. delayed'[p][<<q, s>>] = delayed[p][<<q, s>>]
                BY <2>5, <3>1, <3>3
            <4> QED
                BY <1>2, <1>3, <2>7, <3>1, <4>1, LineThins
        <3> QED
            BY <3>2, <3>3
    <2>8. spent.packets <= spent'.packets
        BY <1>2, <2>1
    <2> QED
        BY <2>5, <2>7, <2>8 DEF SendsWell
<1> QED
    BY <1>4, <1>5 DEF HoldBack

(* A connection of p sends, all that it held or one packet more.             *)
LEMMA DataSends ==
    ASSUME SpentOK, SpentOK', NEW p \in Peers, NEW key \in Keys, p # key[1],
           NEW first \in Seq(Messages), \A i \in DOMAIN first : first[i].type # "data",
           NEW packets \in Seq(Packets), NEW w, Streams(w, Messages), NEW a,
           Transmit(p, key, first, packets, w, a), spent.packets <= spent'.packets,
           \A x \in Peers : x # p => delayed'[x] = delayed[x],
           \A k \in Keys : k # key => delayed'[p][k] = delayed[p][k],
           delayed'[p][key] = <<>>,
           \A z \in Nat : z <= spent.packets /\ Within(InHeld(delayed[p][key]), z, spent.packets)
                            => Within(InHeld(packets), z, spent'.packets)
    PROVE  SendsWell(p, w, a)
<1>1. /\ \A r \in Pairs : r # <<p, key[1]>> => wire'[r] = w[r]
      /\ \A s : s # key[2] =>
           Drawn(InStream(wire'[<<p, key[1]>>], s), InStream(w[<<p, key[1]>>], s))
      /\ \A lo, mid, hi \in Nat :
           /\ lo <= mid /\ mid <= hi
           /\ Within(InStream(w[<<p, key[1]>>], key[2]), lo, mid)
           /\ Within(InHeld(packets), mid, hi)
           => Within(InStream(wire'[<<p, key[1]>>], key[2]), lo, hi)
      /\ \A d \in air' : d \in a \/ ~d.msg.packet.rel
    BY TransmitKeepsOrder
<1>2. /\ spent.packets \in Nat /\ spent'.packets \in Nat
      /\ key = <<key[1], key[2]>>
    BY PeersAssumption DEF SpentOK, Keys
<1>3. \A f : Drawn(f, f)
    BY DrawnSame
<1>4. ASSUME NEW q \in Peers, NEW s \in Sockets, p # q, NEW r, NEW l, NEW g \in Nat,
             Line(p, s, r, g, l, w[<<p, q>>], delayed[p][<<q, s>>], spent.packets)
      PROVE  Line(p, s, r, g, l, wire'[<<p, q>>], delayed'[p][<<q, s>>], spent'.packets)
    <2>1. <<q, s>> \in Keys /\ <<p, q>> \in Pairs /\ <<q, s>>[1] = q /\ <<q, s>>[2] = s
        BY <1>4 DEF Keys, Pairs
    <2>2. CASE <<q, s>> = key
        <3>0. q = key[1] /\ s = key[2]
            BY <2>1, <2>2
        <3>1. PICK x \in Nat, y \in Nat, z \in Nat :
                /\ g <= x /\ x <= y /\ y <= z /\ z <= spent.packets
                /\ Within(InQueue(r, <<p, s>>), g, x)
                /\ Within(InLate(l, p, s), x, y)
                /\ Within(InStream(w[<<p, q>>], s), y, z)
                /\ Within(InHeld(delayed[p][<<q, s>>]), z, spent.packets)
            BY <1>4 DEF Line
        <3>2. Within(InHeld(packets), z, spent'.packets)
            BY <2>2, <3>1
        <3>3. z <= spent'.packets /\ y <= spent'.packets /\ spent'.packets <= spent'.packets
            BY <1>2, <3>1
        <3>4. Within(InStream(wire'[<<p, q>>], s), y, spent'.packets)
            BY <1>1, <1>2, <3>0, <3>1, <3>2, <3>3
        <3>5. Within(InHeld(delayed'[p][<<q, s>>]), spent'.packets, spent'.packets)
            BY <2>2 DEF Within, InHeld
        <3> QED
            BY <1>2, <3>1, <3>3, <3>4, <3>5 DEF Line
    <2>3. CASE <<q, s>> # key
        <3>1. delayed'[p][<<q, s>>] = delayed[p][<<q, s>>]
            BY <2>1, <2>3
        <3>2. Drawn(InStream(wire'[<<p, q>>], s), InStream(w[<<p, q>>], s))
            <4>1. CASE q = key[1]
                <5>1. s # key[2]
                    BY <1>2, <2>3, <4>1
                <5> QED
                    BY <1>1, <4>1, <5>1
            <4>2. CASE q # key[1]
                <5>1. <<p, q>> # <<p, key[1]>>
                    BY <4>2
                <5> QED
                    BY <1>1, <1>3, <2>1, <5>1
            <4> QED
                BY <4>1, <4>2
        <3> QED
            BY <1>2, <1>3, <1>4, <3>1, <3>2, LineThins
    <2> QED
        BY <2>2, <2>3
<1>5. \A r \in Pairs : r[1] # p => wire'[r] = w[r]
    BY <1>1
<1> QED
    BY <1>1, <1>4, <1>5 DEF SendsWell

LEMMA EstablishSends ==
    ASSUME PeersOK, SpentOK, NEW p \in Peers, NEW key \in Keys, p # key[1],
           NEW first \in {<<>>, Control("response", key)}, NEW w, Streams(w, Messages), NEW a,
           Establish(p, key, first, w, a), UNCHANGED spent
    PROVE  SendsWell(p, w, a)
<1>1. Transmit(p, key, first, delayed[p][key], w, a) /\ delayed[p][key] \in Seq(Packets)
    BY DEF Establish, PeersOK
<1>2. /\ \A x \in Peers : x # p => delayed'[x] = delayed[x]
      /\ \A k \in Keys : k # key => delayed'[p][k] = delayed[p][k]
      /\ delayed'[p][key] = <<>>
    BY DEF Establish, PeersOK
<1>3. SpentOK' /\ spent.packets <= spent'.packets /\ spent'.packets = spent.packets
    BY PeersAssumption DEF SpentOK
<1>4. first \in Seq(Messages) /\ \A i \in DOMAIN first : first[i].type # "data"
    <2>1. CASE first = <<>>
        BY <2>1
    <2>2. CASE first = Control("response", key)
        <3>1. "response" \in {"request", "response", "close"}
            OBVIOUS
        <3> QED
            BY <2>2, <3>1, ControlPlain
    <2> QED
        BY <2>1, <2>2
<1> QED
    BY <1>1, <1>2, <1>3, <1>4, DataSends

(* The calls that ask, send and accept.                                      *)
LEMMA AskSends ==
    ASSUME PeersOK, SpentOK, SpentOK', LinkOK, NEW p \in Peers, NEW key \in Keys, p # key[1],
           Ask(p, key)
    PROVE  /\ \A r \in Pairs : r[1] # p => wire'[r] = wire[r]
           /\ \A q \in Peers, s \in Sockets : p # q =>
                Drawn(InStream(wire'[<<p, q>>], s), InStream(wire[<<p, q>>], s))
           /\ air' = air
<1>1. /\ wire' = Posted(wire, p, key[1], Control("request", key)) /\ air' = air
      /\ key[1] \in Peers /\ Streams(wire, Messages)
    BY DEF Ask, Keys, LinkOK, LinkTyped
<1>2. /\ Control("request", key) \in Seq(Messages)
      /\ \A i \in DOMAIN Control("request", key) : Control("request", key)[i].type # "data"
    <2>1. "request" \in {"request", "response", "close"}
        OBVIOUS
    <2> QED
        BY <2>1, ControlPlain
<1>3. /\ \A r \in Pairs : r # <<p, key[1]>> => wire'[r] = wire[r]
      /\ \A s : Drawn(InStream(wire'[<<p, key[1]>>], s), InStream(wire[<<p, key[1]>>], s))
    BY <1>1, <1>2, PostsDrawn
<1>4. ASSUME NEW q \in Peers, NEW s \in Sockets, p # q
      PROVE  Drawn(InStream(wire'[<<p, q>>], s), InStream(wire[<<p, q>>], s))
    <2>1. CASE q = key[1]
        BY <1>3, <2>1
    <2>2. CASE q # key[1]
        <3>1. <<p, q>> \in Pairs /\ <<p, q>> # <<p, key[1]>>
            BY <1>4, <2>2 DEF Pairs
        <3> QED
            BY <1>3, <3>1, DrawnSame
    <2> QED
        BY <2>1, <2>2
<1> QED
    BY <1>1, <1>3, <1>4

LEMMA SendPacketOrdered ==
    ASSUME OrderOK, IInv, IInv', NEW p \in Peers, NEW key \in Keys, NEW rel \in BOOLEAN, NEW hold,
           SendPacket(p, key, rel, hold)
    PROVE  OrderOK'
<1> USE DEF IInv
<1>1. CASE SendPacketNew(p, key, rel, hold)
    <2>1. p # key[1] /\ Ask(p, key) /\ HoldBack(p, key, rel, hold)
        BY <1>1 DEF SendPacketNew, CanCall
    <2>2. SendsWell(p, wire, air)
        BY <2>1, AskSends, HeldSends
    <2>3. ReceivesWell(p, wire, air)
        BY <1>1, NothingRead DEF SendPacketNew, queues
    <2> QED
        BY <2>2, <2>3, StepOrdered
<1>2. CASE SendPacketEarly(p, key, rel, hold)
    <2>1. HoldBack(p, key, rel, hold) /\ UNCHANGED <<wire, air, received, got, late>>
        BY <1>2 DEF SendPacketEarly, queues, linkVars
    <2>2. SendsWell(p, wire, air)
        BY <2>1, DrawnSame, HeldSends
    <2>3. ReceivesWell(p, wire, air)
        BY <2>1, NothingRead
    <2> QED
        BY <2>2, <2>3, StepOrdered
<1>3. CASE SendPacketOpen(p, key, rel)
    <2> DEFINE pk == [n |-> spent.packets + 1, rel |-> rel]
    <2>1. /\ p # key[1] /\ conn[p][key] = "open" /\ Spend("packets", MaxPackets)
          /\ Transmit(p, key, <<>>, <<pk>>, wire, air)
          /\ UNCHANGED <<delayed, received, got, late>>
        BY <1>3 DEF SendPacketOpen, CanCall, entries, queues
    <2>2. delayed[p][key] = <<>>
        BY <2>1 DEF PeersOK, At, PeerOK, EntryOK
    <2>3. /\ spent.packets \in Nat /\ spent'.packets = spent.packets + 1
          /\ spent.packets <= spent'.packets
        BY <2>1, PeersAssumption DEF Spend, SpentOK
    <2>4. pk \in Packets /\ <<pk>> \in Seq(Packets)
        BY <2>1, Numbered
    <2>5. Mark(pk) = Off \/ Mark(pk) = spent.packets + 1
        BY DEF Mark
    <2> HIDE DEF pk
    <2>6. ASSUME NEW z \in Nat, z <= spent.packets
          PROVE  Within(InHeld(<<pk>>), z, spent'.packets)
        <3>1. DOMAIN InHeld(<<pk>>) = {1} /\ InHeld(<<pk>>)[1] = Mark(pk)
            BY DEF InHeld
        <3>2. spent.packets + 1 \in z + 1 .. spent'.packets
            BY <2>3, <2>6
        <3> QED
            BY <2>5, <3>1, <3>2 DEF Within
    <2>7. SendsWell(p, wire, air)
        <3>1. <<>> \in Seq(Messages) /\ \A i \in DOMAIN <<>> : <<>>[i].type # "data"
            OBVIOUS
        <3>2. Streams(wire, Messages)
            BY DEF LinkOK, LinkTyped
        <3> QED
            BY <2>1, <2>2, <2>3, <2>4, <2>6, <3>1, <3>2, DataSends
    <2>8. ReceivesWell(p, wire, air)
        BY <2>1, NothingRead
    <2> QED
        BY <2>7, <2>8, StepOrdered
<1> QED
    BY <1>1, <1>2, <1>3 DEF SendPacket

LEMMA AcceptOrdered ==
    ASSUME OrderOK, IInv, IInv', NEW p \in Peers, NEW key \in Keys,
           AcceptRequested(p, key) \/ AcceptOffer(p, key)
    PROVE  OrderOK'
<1> USE DEF IInv
<1>1. Streams(wire, Messages) /\ spent.packets \in Nat
    BY PeersAssumption DEF LinkOK, LinkTyped, SpentOK
<1>2. CASE AcceptRequested(p, key)
    <2>1. /\ p # key[1] /\ Establish(p, key, Control("response", key), wire, air)
          /\ UNCHANGED <<spent, received, got, late>>
        BY <1>2 DEF AcceptRequested, CanCall, queues
    <2>2. SendsWell(p, wire, air)
        BY <1>1, <2>1, EstablishSends
    <2>3. ReceivesWell(p, wire, air)
        BY <2>1, NothingRead
    <2> QED
        BY <2>2, <2>3, StepOrdered
<1>3. CASE AcceptOffer(p, key)
    <2>1. /\ p # key[1] /\ Ask(p, key) /\ Spend("offers", MaxOffers)
          /\ UNCHANGED <<delayed, received, got, late>>
        BY <1>3 DEF AcceptOffer, CanCall, queues
    <2>2. spent.packets <= spent'.packets
        BY <1>1, <2>1 DEF Spend, SpentOK
    <2>3. SendsWell(p, wire, air)
        BY <2>1, <2>2, DrawnSame, AskSends, ThinSends
    <2>4. ReceivesWell(p, wire, air)
        BY <2>1, NothingRead
    <2> QED
        BY <2>3, <2>4, StepOrdered
<1> QED
    BY <1>2, <1>3

(* The calls that close and clear, and the game's reading.                    *)
LEMMA FlushReads ==
    ASSUME OrderOK, PeersOK, SpentOK, NEW p \in Peers, NEW keys, NEW w, NEW a,
           FlushPackets(p, keys) \/ UNCHANGED received, UNCHANGED got,
           \A x \in Peers : x # p => late'[x] = late[x],
           \A r \in Pairs : r[2] # p => w[r] = wire[r], a \subseteq air,
           \A q \in Peers, s \in Sockets : p # q =>
             /\ Drawn(InLate(late'[p], q, s), InLate(late[p], q, s))
             /\ Drawn(InStream(w[<<q, p>>], s), InStream(wire[<<q, p>>], s))
    PROVE  ReceivesWell(p, w, a)
<1>1. received[p] \in Seq(Arrivals)
    BY DEF PeersOK
<1>2. /\ received'[p] = Left(received[p], keys) \/ received'[p] = received[p]
      /\ \A x \in Peers : x # p => received'[x] = received[x]
    BY DEF FlushPackets, Left, PeersOK
<1>3. \A i \in DOMAIN received'[p] : received'[p][i].key[1] # p
    <2>1. \A j \in DOMAIN Left(received[p], keys) :
            \E i \in DOMAIN received[p] : Left(received[p], keys)[j] = received[p][i]
        BY <1>1, LeftOK
    <2> QED
        BY <1>2, <2>1 DEF OrderOK
<1>4. \A k : Drawn(InQueue(received'[p], k), InQueue(received[p], k))
    BY <1>1, <1>2, LeftDrawn, DrawnSame
<1> QED
    BY <1>2, <1>3, <1>4, ThinReceives

LEMMA ErasedHeld ==
    ASSUME PeersOK, NEW p \in Peers, NEW keys, Erase(p, keys)
    PROVE  /\ \A x \in Peers : x # p => delayed'[x] = delayed[x]
           /\ \A k \in Keys : Drawn(InHeld(delayed'[p][k]), InHeld(delayed[p][k]))
<1>1. /\ \A x \in Peers : x # p => delayed'[x] = delayed[x]
      /\ \A k \in Keys : delayed'[p][k] = <<>> \/ delayed'[p][k] = delayed[p][k]
    BY DEF Erase, PeersOK
<1> QED
    BY <1>1, EmptyLines, DrawnSame

LEMMA NumbersKept ==
    ASSUME SpentOK,
           UNCHANGED spent \/ \E what \in {"closes", "offers", "drops", "limits"} : \E max : Spend(what, max)
    PROVE  spent'.packets = spent.packets /\ spent.packets <= spent'.packets
<1>1. spent.packets \in Nat
    BY PeersAssumption DEF SpentOK
<1>2. spent'.packets = spent.packets
    BY DEF SpentOK, Spend
<1> QED
    BY <1>1, <1>2

LEMMA CloseConnectionOrdered ==
    ASSUME OrderOK, IInv, IInv', NEW p \in Peers, NEW q \in Peers, NEW sockets \in SUBSET Sockets,
           CloseConnection(p, q, sockets)
    PROVE  OrderOK'
<1> USE DEF IInv
<1> DEFINE named == {q} \X sockets
           closed == Entries(p, named)
           closes == [i \in 1 .. Cardinality(closed) |->
                        Message("close", SetToSeq(closed)[i][2], Nothing)]
<1>1. /\ p # q /\ Spend("closes", MaxCloses)
      /\ wire' = Posted(wire, p, q, closes)
      /\ Erase(p, closed) /\ FlushPackets(p, named)
      /\ UNCHANGED <<got, air, late>>
    BY DEF CloseConnection, CanCall
<1>2. closed \in SUBSET Keys
    BY DEF Entries, Keys
<1>3. closes \in Seq(Messages)
    BY <1>2, ClosesOK
<1>4. \A i \in DOMAIN closes : closes[i].type # "data"
    BY DEF Message
<1> HIDE DEF named, closed, closes
<1>5. spent.packets <= spent'.packets
    BY <1>1, NumbersKept
<1>6. Streams(wire, Messages)
    BY DEF LinkOK, LinkTyped
<1>7. /\ \A x \in Peers : x # p => delayed'[x] = delayed[x]
      /\ \A k \in Keys : Drawn(InHeld(delayed'[p][k]), InHeld(delayed[p][k]))
    BY <1>1, ErasedHeld
<1>8. air' \subseteq air
    BY <1>1
<1>9. SendsWell(p, wire, air)
    BY <1>1, <1>3, <1>4, <1>5, <1>6, <1>7, <1>8, PlainSends
<1>10. ReceivesWell(p, wire, air)
    <2>1. \A f : Drawn(f, f)
        BY DrawnSame
    <2> QED
        BY <1>1, <2>1, FlushReads
<1> QED
    BY <1>9, <1>10, StepOrdered

LEMMA CloseConnectionsOrdered ==
    ASSUME OrderOK, IInv, IInv', NEW p \in Peers, NEW socket \in Sockets, CloseConnections(p, socket)
    PROVE  OrderOK'
<1> USE DEF IInv
<1> DEFINE closed == Entries(p, Peers \X {socket})
<1>1. /\ Spend("closes", MaxCloses)
      /\ wire' = [pq \in Pairs |->
                    IF pq[1] = p /\ <<pq[2], socket>> \in closed
                    THEN Posted(wire, p, pq[2], Control("close", <<pq[2], socket>>))[pq]
                    ELSE wire[pq]]
      /\ Erase(p, closed) /\ FlushPackets(p, closed)
      /\ UNCHANGED <<got, air, late>>
    BY DEF CloseConnections
<1> HIDE DEF closed
<1>2. Streams(wire, Messages) /\ spent.packets <= spent'.packets
    BY <1>1, NumbersKept DEF LinkOK, LinkTyped
<1>3. /\ \A x \in Peers : x # p => delayed'[x] = delayed[x]
      /\ \A k \in Keys : Drawn(InHeld(delayed'[p][k]), InHeld(delayed[p][k]))
    BY <1>1, ErasedHeld
<1>4. ASSUME NEW q \in Peers, NEW s \in Sockets, p # q
      PROVE  Drawn(InStream(wire'[<<p, q>>], s), InStream(wire[<<p, q>>], s))
    <2> DEFINE pq == <<p, q>>
               key == <<q, socket>>
               u == Posted(wire, p, q, Control("close", key))[pq]
    <2>1. pq \in Pairs /\ pq[1] = p /\ pq[2] = q /\ key \in Keys
        BY <1>4 DEF Pairs, Keys
    <2>2. wire'[pq] = u \/ wire'[pq] = wire[pq]
        BY <1>1, <2>1
    <2>3. "close" \in {"request", "response", "close"}
        OBVIOUS
    <2>4. /\ Control("close", key) \in Seq(Messages)
          /\ \A i \in DOMAIN Control("close", key) : Control("close", key)[i].type # "data"
        BY <2>1, <2>3, ControlPlain
    <2> DEFINE ms == Control("close", key)
    <2>5. ms \in Seq(Messages) /\ \A i \in DOMAIN ms : ms[i].type # "data"
        BY <2>4
    <2> HIDE DEF ms, key, pq
    <2>6. /\ wire[pq] \in Seq(Messages \cup {Eof}) /\ ms \in Seq(Messages \cup {Eof})
          /\ \A i \in DOMAIN ms : Carried(ms[i], s) = Off
        BY <1>2, <2>1, <2>5 DEF Streams, Carried
    <2>7. u = wire[pq] \o ms \/ u = wire[pq]
        <3>1. ms \in Seq(Messages) /\ pq = <<p, q>>
            BY <2>5 DEF pq
        <3>2. Posted(wire, p, q, ms)[pq] = IF pq = <<p, q>> /\ pq \in up /\ Reads(q, p)
                                           THEN wire[pq] \o ms ELSE wire[pq]
            BY <1>2, <2>1, <3>1, PostedSeq
        <3> QED
            BY <3>2 DEF ms
    <2> HIDE DEF u
    <2>8. wire'[pq] = wire[pq] \o ms \/ wire'[pq] = wire[pq]
        BY <2>2, <2>7
    <2> QED
        BY <2>6, <2>8, BehindDrawn, DrawnSame DEF pq
<1>5. SendsWell(p, wire, air)
    <2>1. \A r \in Pairs : r[1] # p => wire'[r] = wire[r]
        BY <1>1
    <2>2. \A q \in Peers, s \in Sockets : <<q, s>> \in Keys
        BY DEF Keys
    <2> QED
        BY <1>1, <1>2, <1>3, <1>4, <2>1, <2>2, ThinSends
<1>6. ReceivesWell(p, wire, air)
    <2>1. \A f : Drawn(f, f)
        BY DrawnSame
    <2> QED
        BY <1>1, <2>1, FlushReads
<1> QED
    BY <1>5, <1>6, StepOrdered

LEMMA ClearPacketQueueOrdered ==
    ASSUME OrderOK, IInv, IInv', NEW p \in Peers, NEW keys, ClearPacketQueue(p, keys)
    PROVE  OrderOK'
<1> USE DEF IInv
<1>1. /\ Spend("closes", MaxCloses) /\ FlushPackets(p, keys)
      /\ UNCHANGED <<got, wire, air, late>>
    BY DEF ClearPacketQueue, linkVars
<1>2. /\ \A x \in Peers : x # p => delayed'[x] = delayed[x]
      /\ \A k \in Keys : delayed'[p][k] = <<>> \/ delayed'[p][k] = delayed[p][k]
    BY DEF ClearPacketQueue, PeersOK
<1>3. \A k \in Keys : Drawn(InHeld(delayed'[p][k]), InHeld(delayed[p][k]))
    BY <1>2, EmptyLines, DrawnSame
<1>4. Unmoved(wire, air) /\ spent.packets <= spent'.packets
    BY <1>1, NumbersKept DEF Unmoved
<1>5. SendsWell(p, wire, air)
    BY <1>2, <1>3, <1>4, UnmovedSends
<1>6. ReceivesWell(p, wire, air)
    <2>1. \A f : Drawn(f, f)
        BY DrawnSame
    <2> QED
        BY <1>1, <2>1, FlushReads
<1> QED
    BY <1>5, <1>6, StepOrdered

LEMMA OrderSame ==
    ASSUME OrderOK, SpentOK,
           UNCHANGED <<delayed, received, got, wire, air, late>>,
           spent'.packets = spent.packets
    PROVE  OrderOK'
<1>1. \A p, q \in Peers, s \in Sockets : LineTo(p, q, s)' <=> LineTo(p, q, s)
    BY DEF LineTo
<1> QED
    BY <1>1 DEF OrderOK

LEMMA ReceivePacketOrdered ==
    ASSUME OrderOK, IInv, IInv', NEW p \in Peers, ReceivePacket(p)
    PROVE  OrderOK'
<1> USE DEF IInv
<1> DEFINE r == received[p]
           t == Tail(r)
           k1 == r[1].key
           g == [got[p] EXCEPT ![k1] = IF r[1].packet.rel THEN r[1].packet.n ELSE @]
<1>1. /\ r # <<>> /\ received' = [received EXCEPT ![p] = t]
      /\ got' = [got EXCEPT ![p][Head(r).key] = IF Head(r).packet.rel THEN Head(r).packet.n ELSE @]
      /\ UNCHANGED <<delayed, spent, wire, air, late>>
    BY DEF ReceivePacket, entries, linkVars
<1>2. /\ r \in Seq(Arrivals) /\ Len(r) \in Nat /\ Len(r) # 0
      /\ DOMAIN r = 1 .. Len(r) /\ DOMAIN t = 1 .. Len(r) - 1
      /\ \A i \in 1 .. Len(r) - 1 : t[i] = r[i + 1]
      /\ Head(r) = r[1] /\ r[1] \in Arrivals
    <2>1. r \in Seq(Arrivals)
        BY DEF PeersOK
    <2> HIDE DEF r
    <2> QED
        BY <1>1, <2>1, HeadTailProperties, LenProperties, EmptySeq
<1>3. got' = [got EXCEPT ![p] = g] /\ got \in [Peers -> [Keys -> 0 .. MaxPackets]]
    BY <1>1, <1>2 DEF PeersOK
<1>4. k1 \in Keys /\ r[1].packet.n \in 0 .. MaxPackets /\ r[1].packet.n \in Nat
    BY <1>2, PeersAssumption DEF Arrivals, Packets
<1>5. /\ g[k1] = IF r[1].packet.rel THEN r[1].packet.n ELSE got[p][k1]
      /\ \A k \in Keys : k # k1 => g[k] = got[p][k]
    BY <1>3, <1>4
<1> HIDE DEF g
<1>6. /\ got'[p] = g /\ received'[p] = t
      /\ \A x \in Peers : x # p => received'[x] = received[x] /\ got'[x] = got[x]
    BY <1>1, <1>3 DEF PeersOK
<1> HIDE DEF t, k1, r
<1>7. ASSUME NEW q \in Peers, NEW s \in Sockets, p # q
      PROVE  Line(q, s, received'[p], got'[p][<<q, s>>], late'[p], wire[<<q, p>>],
                  delayed[q][<<p, s>>], spent.packets)
    <2> DEFINE k == <<q, s>>
               f == InQueue(r, k)
               h == InQueue(t, k)
               n == Len(r)
    <2>1. k \in Keys /\ got[p][k] \in Nat
        BY <1>3, PeersAssumption DEF Keys
    <2>2. /\ DOMAIN f = 1 .. n /\ DOMAIN h = 1 .. n - 1
          /\ f[1] = IF k1 = k THEN Mark(r[1].packet) ELSE Off
        BY <1>2 DEF InQueue, k1
    <2>3. \A i \in 1 .. n - 1 : h[i] = f[i + 1]
        <3>1. \A i \in 1 .. n - 1 : i + 1 \in 1 .. n
            BY <1>2
        <3> QED
            BY <1>2, <3>1 DEF InQueue
    <2>4. PICK x \in Nat, y \in Nat, z \in Nat :
            /\ got[p][k] <= x /\ x <= y /\ y <= z /\ z <= spent.packets
            /\ Within(f, got[p][k], x)
            /\ Within(InLate(late[p], q, s), x, y)
            /\ Within(InStream(wire[<<q, p>>], s), y, z)
            /\ Within(InHeld(delayed[q][<<p, s>>]), z, spent.packets)
        BY <1>7 DEF OrderOK, LineTo, Line, r
    <2> HIDE DEF f, h, n, k
    <2>5. n \in Nat /\ n # 0
        BY <1>2 DEF n
    <2>6. /\ Within(h, got[p][k], x)
          /\ f[1] # Off => f[1] \in got[p][k] + 1 .. x /\ Within(h, f[1], x)
        <3>1. Beheaded(f, h)
            BY <2>2, <2>3, <2>5 DEF Beheaded
        <3> QED
            BY <2>1, <2>4, <3>1, WithinTail
    <2>7. Within(h, g[k], x) /\ g[k] <= x
        <3>1. CASE k1 = k /\ r[1].packet.rel
            <4>1. Mark(r[1].packet) = g[k]
                BY <1>4, <1>5, <3>1 DEF Mark
            <4>2. g[k] # Off
                BY <1>4, <1>5, <3>1 DEF Off
            <4>3. f[1] = g[k] /\ f[1] # Off
                BY <2>2, <3>1, <4>1, <4>2
            <4> QED
                BY <2>1, <2>4, <2>6, <4>3
        <3>2. CASE ~(k1 = k /\ r[1].packet.rel)
            <4>1. g[k] = got[p][k]
                BY <1>5, <2>1, <3>2
            <4> QED
                BY <2>4, <2>6, <4>1
        <3> QED
            BY <3>1, <3>2
    <2> QED
        BY <1>1, <1>6, <2>4, <2>7 DEF Line, h, k
<1>8. ReceivesWell(p, wire, air)
    <2>1. ASSUME NEW i \in DOMAIN received'[p]
          PROVE  received'[p][i].key[1] # p
        <3>1. i \in 1 .. Len(r) - 1 /\ i + 1 \in DOMAIN r /\ t[i] = r[i + 1]
            BY <1>2, <1>6, <2>1
        <3> QED
            BY <1>6, <3>1 DEF OrderOK, r
    <2> QED
        BY <1>1, <1>6, <1>7, <2>1 DEF ReceivesWell
<1>9. SendsWell(p, wire, air)
    <2>1. Unmoved(wire, air) /\ spent.packets <= spent'.packets
        BY <1>1, NumbersKept DEF Unmoved
    <2> QED
        BY <1>1, <2>1, DrawnSame, UnmovedSends
<1> QED
    BY <1>8, <1>9, StepOrdered

(* A packet arrives in the queue: from the stream, from what was read too late, *)
(* or from the air, which carries no numbers.                               *)
LEMMA QueueGrows ==
    ASSUME NEW r \in Seq(Arrivals), NEW e, NEW k, NEW g \in Nat, NEW x \in Nat, NEW hi \in Nat,
           g <= x, x <= hi, Within(InQueue(r, k), g, x), NEW c,
           c = IF e.key = k THEN Mark(e.packet) ELSE Off,
           c = Off \/ c \in x + 1 .. hi
    PROVE  Within(InQueue(Append(r, e), k), g, hi)
<1> DEFINE n == Len(r)
           f == InQueue(r, k)
           h == InQueue(Append(r, e), k)
<1>1. /\ n \in Nat /\ DOMAIN r = 1 .. n /\ DOMAIN Append(r, e) = 1 .. n + 1
      /\ \A i \in 1 .. n : Append(r, e)[i] = r[i]
      /\ Append(r, e)[n + 1] = e
    BY AppendProperties, LenProperties
<1>2. /\ DOMAIN f = 1 .. n /\ DOMAIN h = 1 .. n + 1
      /\ \A i \in 1 .. n : h[i] = f[i]
      /\ h[n + 1] = c
    BY <1>1 DEF InQueue
<1> HIDE DEF n, f, h
<1>3. Within(f, g, x)
    BY DEF f
<1>4. h[n + 1] = Off \/ h[n + 1] \in x + 1 .. hi
    BY <1>2
<1>5. Within(h, g, hi)
    BY <1>1, <1>2, <1>3, <1>4, WithinAppend
<1> QED
    BY <1>5 DEF h

LEMMA NumberlessArrives ==
    ASSUME NEW q, NEW s, NEW r \in Seq(Arrivals), NEW e, NEW g \in Nat, NEW l, NEW u, NEW d,
           NEW n \in Nat, Line(q, s, r, g, l, u, d, n),
           (IF e.key = <<q, s>> THEN Mark(e.packet) ELSE Off) = Off,
           NEW l2, Drawn(InLate(l2, q, s), InLate(l, q, s)),
           NEW u2, Drawn(InStream(u2, s), InStream(u, s))
    PROVE  Line(q, s, Append(r, e), g, l2, u2, d, n)
<1>1. PICK x \in Nat, y \in Nat, z \in Nat :
        /\ g <= x /\ x <= y /\ y <= z /\ z <= n
        /\ Within(InQueue(r, <<q, s>>), g, x)
        /\ Within(InLate(l, q, s), x, y)
        /\ Within(InStream(u, s), y, z)
        /\ Within(InHeld(d), z, n)
    BY DEF Line
<1>2. x <= x
    BY <1>1
<1>3. Within(InQueue(Append(r, e), <<q, s>>), g, x)
    BY <1>1, <1>2, QueueGrows
<1>4. Within(InLate(l2, q, s), x, y) /\ Within(InStream(u2, s), y, z)
    BY <1>1, DrawnWithin
<1> QED
    BY <1>1, <1>3, <1>4 DEF Line

LEMMA ArrivesFromStream ==
    ASSUME NEW q, NEW s, NEW r \in Seq(Arrivals), NEW e, NEW g \in Nat, NEW d, NEW n \in Nat,
           NEW u \in Seq(Messages \cup {Eof}), u # <<>>, Line(q, s, r, g, <<>>, u, d, n),
           (IF e.key = <<q, s>> THEN Mark(e.packet) ELSE Off) = Carried(Head(u), s)
    PROVE  Line(q, s, Append(r, e), g, <<>>, Tail(u), d, n)
<1>1. PICK x \in Nat, y \in Nat, z \in Nat :
        /\ g <= x /\ x <= y /\ y <= z /\ z <= n
        /\ Within(InQueue(r, <<q, s>>), g, x)
        /\ Within(InLate(<<>>, q, s), x, y)
        /\ Within(InStream(u, s), y, z)
        /\ Within(InHeld(d), z, n)
    BY DEF Line
<1> DEFINE c == Carried(Head(u), s)
           f == InStream(u, s)
           h == InStream(Tail(u), s)
           m == Len(u)
<1>2. /\ m \in Nat /\ m # 0 /\ DOMAIN u = 1 .. m /\ DOMAIN Tail(u) = 1 .. m - 1
      /\ \A i \in 1 .. m - 1 : Tail(u)[i] = u[i + 1]
      /\ Head(u) = u[1]
    BY HeadTailProperties, LenProperties, EmptySeq
<1>3. /\ DOMAIN f = 1 .. m /\ DOMAIN h = 1 .. m - 1 /\ f[1] = c
    BY <1>2 DEF InStream
<1>4. \A i \in 1 .. m - 1 : h[i] = f[i + 1]
    <2>1. \A i \in 1 .. m - 1 : i + 1 \in 1 .. m
        BY <1>2
    <2> QED
        BY <1>2, <2>1 DEF InStream
<1>5. CASE c = Off
    <2>1. /\ Drawn(InStream(Tail(u), s), InStream(u, s))
          /\ Drawn(InLate(<<>>, q, s), InLate(<<>>, q, s))
        BY TailDrawn, DrawnSame
    <2> QED
        BY <1>5, <2>1, NumberlessArrives
<1>6. CASE c # Off
    <2> HIDE DEF f, h, m
    <2>1. Within(f, y, z)
        BY <1>1 DEF f
    <2>2. c \in y + 1 .. z /\ Within(h, c, z)
        <3>1. Beheaded(f, h)
            BY <1>2, <1>3, <1>4 DEF Beheaded, m
        <3> HIDE DEF c
        <3> QED
            BY <1>1, <1>3, <1>6, <2>1, <3>1, WithinTail
    <2> HIDE DEF c
    <2>3. /\ c \in Nat /\ c \in x + 1 .. c /\ x <= c /\ g <= c /\ c <= c /\ c <= z
        BY <1>1, <2>2
    <2>4. Within(InQueue(Append(r, e), <<q, s>>), g, c)
        BY <1>1, <2>3, QueueGrows DEF c
    <2>5. Within(InLate(<<>>, q, s), c, c)
        BY DEF Within, InLate
    <2> QED
        BY <1>1, <2>2, <2>3, <2>4, <2>5 DEF Line, h
<1> QED
    BY <1>5, <1>6

LEMMA ArrivesLate ==
    ASSUME NEW q, NEW s, NEW r \in Seq(Arrivals), NEW e, NEW g \in Nat, NEW u, NEW d, NEW n \in Nat,
           NEW L, NEW l \in Seq(L), l # <<>>, Line(q, s, r, g, l, u, d, n),
           (IF e.key = <<q, s>> THEN Mark(e.packet) ELSE Off)
             = (IF Head(l).from = q THEN Carried(Head(l).msg, s) ELSE Off)
    PROVE  Line(q, s, Append(r, e), g, Tail(l), u, d, n)
<1>1. PICK x \in Nat, y \in Nat, z \in Nat :
        /\ g <= x /\ x <= y /\ y <= z /\ z <= n
        /\ Within(InQueue(r, <<q, s>>), g, x)
        /\ Within(InLate(l, q, s), x, y)
        /\ Within(InStream(u, s), y, z)
        /\ Within(InHeld(d), z, n)
    BY DEF Line
<1> DEFINE c == IF Head(l).from = q THEN Carried(Head(l).msg, s) ELSE Off
           f == InLate(l, q, s)
           h == InLate(Tail(l), q, s)
           m == Len(l)
<1>2. /\ m \in Nat /\ m # 0 /\ DOMAIN l = 1 .. m /\ DOMAIN Tail(l) = 1 .. m - 1
      /\ \A i \in 1 .. m - 1 : Tail(l)[i] = l[i + 1]
      /\ Head(l) = l[1]
    BY HeadTailProperties, LenProperties, EmptySeq
<1>3. /\ DOMAIN f = 1 .. m /\ DOMAIN h = 1 .. m - 1 /\ f[1] = c
    BY <1>2 DEF InLate
<1>4. \A i \in 1 .. m - 1 : h[i] = f[i + 1]
    <2>1. \A i \in 1 .. m - 1 : i + 1 \in 1 .. m
        BY <1>2
    <2> QED
        BY <1>2, <2>1 DEF InLate
<1>5. c = IF e.key = <<q, s>> THEN Mark(e.packet) ELSE Off
    OBVIOUS
<1> HIDE DEF f, h, m, c
<1>6. Within(f, x, y)
    BY <1>1 DEF f
<1>7. Within(h, x, y) /\ (c # Off => c \in x + 1 .. y /\ Within(h, c, y))
    <2>1. Beheaded(f, h)
        BY <1>2, <1>3, <1>4 DEF Beheaded
    <2> QED
        BY <1>1, <1>3, <1>6, <2>1, WithinTail
<1>8. CASE c = Off
    <2>1. x <= x
        BY <1>1
    <2>2. Within(InQueue(Append(r, e), <<q, s>>), g, x)
        BY <1>1, <1>5, <1>8, <2>1, QueueGrows
    <2> QED
        BY <1>1, <1>7, <2>2 DEF Line, h
<1>9. CASE c # Off
    <2>1. /\ c \in Nat /\ c \in x + 1 .. c /\ x <= c /\ g <= c /\ c <= y
        BY <1>1, <1>7, <1>9
    <2>2. Within(InQueue(Append(r, e), <<q, s>>), g, c)
        BY <1>1, <1>5, <2>1, QueueGrows
    <2> QED
        BY <1>1, <1>7, <1>9, <2>1, <2>2 DEF Line, h
<1> QED
    BY <1>8, <1>9

LEMMA LateTailDrawn ==
    ASSUME NEW L, NEW l \in Seq(L), l # <<>>, NEW q, NEW s
    PROVE  Drawn(InLate(Tail(l), q, s), InLate(l, q, s))
<1> DEFINE v == Tail(l)
           e == [j \in DOMAIN v |-> j + 1]
<1>1. /\ Len(l) \in Nat /\ DOMAIN l = 1 .. Len(l) /\ DOMAIN v = 1 .. Len(l) - 1
      /\ \A j \in DOMAIN v : v[j] = l[j + 1]
    BY HeadTailProperties, LenProperties, EmptySeq
<1>2. \A j \in DOMAIN v : e[j] = j + 1
    OBVIOUS
<1> HIDE DEF v, e
<1>3. \A j \in DOMAIN v : e[j] \in DOMAIN l /\ v[j] = l[e[j]]
    BY <1>1, <1>2
<1>4. \A i, j \in DOMAIN v : i < j => e[i] < e[j]
    BY <1>1, <1>2
<1>5. /\ DOMAIN InLate(v, q, s) = DOMAIN v /\ DOMAIN InLate(l, q, s) = DOMAIN l
      /\ \A j \in DOMAIN v : InLate(l, q, s)[e[j]] = InLate(v, q, s)[j]
    BY <1>3 DEF InLate
<1>6. Drawn(InLate(v, q, s), InLate(l, q, s))
    BY <1>3, <1>4, <1>5, DrawnBy
<1> QED
    BY <1>6 DEF v

(* What a message makes p send, and what it gives p to read.                   *)
LEMMA MessageSends ==
    ASSUME PeersOK, SpentOK, NEW p \in Peers, NEW q \in Peers, p # q, NEW m \in Messages,
           NEW w, Streams(w, Messages), NEW a, OnNetworkMessage(p, q, m, w, a)
    PROVE  SendsWell(p, w, a)
<1> DEFINE key == <<q, m.socket>>
<1>1. key \in Keys /\ key[1] = q /\ key[1] \in Peers
    BY DEF Messages, Keys
<1>2. /\ \/ OnData(p, key, m.packet, w, a) \/ OnRequest(p, key, w, a)
         \/ OnResponse(p, key, w, a) \/ OnClose(p, key, w, a)
      /\ UNCHANGED spent
    BY DEF OnNetworkMessage
<1> HIDE DEF key
<1>3. SpentOK' /\ spent.packets <= spent'.packets
    BY <1>2, NumbersKept DEF SpentOK
<1>4. \A f : Drawn(f, f)
    BY DrawnSame
<1>5. CASE Unmoved(w, a) /\ UNCHANGED delayed
    BY <1>3, <1>4, <1>5, UnmovedSends
<1>6. CASE Unmoved(w, a) /\ Erase(p, {key})
    BY <1>3, <1>6, ErasedHeld, UnmovedSends
<1>7. CASE Establish(p, key, <<>>, w, a) \/ Establish(p, key, Control("response", key), w, a)
    BY <1>1, <1>2, <1>7, EstablishSends
<1>8. CASE /\ wire' = Posted(w, p, key[1], Control("response", key)) /\ air' = a
           /\ UNCHANGED delayed
    <2>1. "response" \in {"request", "response", "close"}
        OBVIOUS
    <2>2. /\ Control("response", key) \in Seq(Messages)
          /\ \A i \in DOMAIN Control("response", key) : Control("response", key)[i].type # "data"
        BY <1>1, <2>1, ControlPlain
    <2>3. air' \subseteq a
        BY <1>8
    <2> QED
        BY <1>1, <1>3, <1>4, <1>8, <2>2, <2>3, PlainSends
<1> QED
    BY <1>2, <1>5, <1>6, <1>7, <1>8 DEF OnData, OnUnknown, OnRequest, OnResponse, OnClose, entries

Arrival(q, m) == [key |-> <<q, m.socket>>, packet |-> m.packet]

LEMMA MessageReads ==
    ASSUME OrderOK, PeersOK, SpentOK, NEW p \in Peers, NEW q \in Peers, p # q, NEW m \in Messages,
           NEW w, NEW a, OnNetworkMessage(p, q, m, w, a), a \subseteq air,
           \A x \in Peers : x # p => late'[x] = late[x],
           \A r \in Pairs : r[2] # p => w[r] = wire[r],
           \A x \in Peers, s \in Sockets : p # x =>
             /\ Drawn(InLate(late'[p], x, s), InLate(late[p], x, s))
             /\ Drawn(InStream(w[<<x, p>>], s), InStream(wire[<<x, p>>], s)),
           \A x \in Peers, s \in Sockets : p # x /\ m.type = "data" =>
             Line(x, s, Append(received[p], Arrival(q, m)), got[p][<<x, s>>], late'[p],
                  w[<<x, p>>], delayed[x][<<p, s>>], spent.packets)
    PROVE  ReceivesWell(p, w, a)
<1>0. /\ UNCHANGED <<got, spent>>
      /\ \/ FlushPackets(p, {<<q, m.socket>>}) \/ UNCHANGED received
         \/ /\ m.type = "data"
            /\ received' = [received EXCEPT ![p] = Append(@, Arrival(q, m))]
    BY DEF OnNetworkMessage, OnData, OnUnknown, OnRequest, OnResponse, OnClose, Arrival
<1>1. CASE FlushPackets(p, {<<q, m.socket>>}) \/ UNCHANGED received
    <2> DEFINE keys == {<<q, m.socket>>}
    <2>1. FlushPackets(p, keys) \/ UNCHANGED received
        BY <1>1
    <2> HIDE DEF keys
    <2> QED
        BY <1>0, <2>1, FlushReads
<1>2. CASE /\ m.type = "data"
           /\ received' = [received EXCEPT ![p] = Append(@, Arrival(q, m))]
    <2> DEFINE r == Append(received[p], Arrival(q, m))
    <2>1. received \in [Peers -> Seq(Arrivals)] /\ received[p] \in Seq(Arrivals)
        BY DEF PeersOK
    <2>2. /\ DOMAIN received[p] = 1 .. Len(received[p]) /\ Len(received[p]) \in Nat
          /\ DOMAIN r = 1 .. Len(received[p]) + 1
          /\ \A i \in 1 .. Len(received[p]) : r[i] = received[p][i]
          /\ r[Len(received[p]) + 1] = Arrival(q, m)
        BY <2>1, AppendProperties, LenProperties
    <2>3. received' = [received EXCEPT ![p] = r]
        BY <1>2
    <2>4. Arrival(q, m).key[1] # p
        BY DEF Arrival
    <2> HIDE DEF r
    <2>5. received'[p] = r /\ \A x \in Peers : x # p => received'[x] = received[x]
        BY <2>1, <2>3
    <2>6. \A i \in DOMAIN received'[p] : received'[p][i].key[1] # p
        <3> SUFFICES ASSUME NEW i \in DOMAIN r PROVE r[i].key[1] # p
            BY <2>5
        <3>1. (i \in DOMAIN received[p] /\ r[i] = received[p][i]) \/ r[i] = Arrival(q, m)
            BY <2>2
        <3> QED
            BY <2>4, <3>1 DEF OrderOK
    <2>7. UNCHANGED got
        BY <1>0
    <2> QED
        BY <1>2, <2>5, <2>6, <2>7 DEF ReceivesWell, r
<1> QED
    BY <1>0, <1>1, <1>2

(* What a message carries is what arrives of it.                              *)
LEMMA ArrivesAsCarried ==
    ASSUME NEW q, NEW m \in Messages, m.type = "data", NEW x, NEW s
    PROVE  (IF Arrival(q, m).key = <<x, s>> THEN Mark(Arrival(q, m).packet) ELSE Off)
             = (IF q = x THEN Carried(m, s) ELSE Off)
<1>1. m # Eof
    BY DEF Eof
<1>2. <<q, m.socket>> = <<x, s>> <=> q = x /\ m.socket = s
    OBVIOUS
<1>3. Arrival(q, m).key = <<q, m.socket>> /\ Arrival(q, m).packet = m.packet
    BY DEF Arrival
<1> QED
    BY <1>1, <1>2, <1>3 DEF Carried

LEMMA DeliverOrdered ==
    ASSUME OrderOK, IInv, IInv', NEW p \in Peers, NEW q \in Peers \ {p}, Deliver(p, q)
    PROVE  OrderOK'
<1> USE DEF IInv
<1> DEFINE u == wire[<<q, p>>]
           m == Head(u)
           w == [wire EXCEPT ![<<q, p>>] = Tail(@)]
<1>1. /\ u # <<>> /\ m # Eof /\ late[p] = <<>>
      /\ OnNetworkMessage(p, q, m, w, air)
      /\ UNCHANGED late
    BY DEF Deliver
<1>2. m \in Messages /\ Streams(w, Messages)
    BY <1>1, ReadOK DEF LinkOK
<1>3. <<q, p>> \in Pairs /\ u \in Seq(Messages \cup {Eof}) /\ Streams(wire, Messages)
    BY DEF LinkOK, LinkTyped, Streams, Pairs
<1>4. w[<<q, p>>] = Tail(u) /\ \A r \in Pairs : r # <<q, p>> => w[r] = wire[r]
    BY <1>3 DEF Streams
<1> HIDE DEF m, w, u
<1>5. SendsWell(p, w, air)
    BY <1>1, <1>2, MessageSends
<1>6. ASSUME NEW x \in Peers, NEW s \in Sockets, p # x
      PROVE  /\ Drawn(InLate(late'[p], x, s), InLate(late[p], x, s))
             /\ Drawn(InStream(w[<<x, p>>], s), InStream(wire[<<x, p>>], s))
    <2>1. Drawn(InLate(late'[p], x, s), InLate(late[p], x, s))
        BY <1>1, DrawnSame
    <2>2. CASE x = q
        BY <1>1, <1>3, <1>4, <2>1, <2>2, TailDrawn DEF u
    <2>3. CASE x # q
        <3>1. <<x, p>> \in Pairs /\ <<x, p>> # <<q, p>>
            BY <1>6, <2>3 DEF Pairs
        <3> QED
            BY <1>4, <2>1, <3>1, DrawnSame
    <2> QED
        BY <2>2, <2>3
<1>7. ASSUME NEW x \in Peers, NEW s \in Sockets, p # x, m.type = "data"
      PROVE  Line(x, s, Append(received[p], Arrival(q, m)), got[p][<<x, s>>], late'[p],
                  w[<<x, p>>], delayed[x][<<p, s>>], spent.packets)
    <2>1. /\ Line(x, s, received[p], got[p][<<x, s>>], late[p], wire[<<x, p>>],
                  delayed[x][<<p, s>>], spent.packets)
          /\ received[p] \in Seq(Arrivals) /\ got[p][<<x, s>>] \in Nat /\ spent.packets \in Nat
        BY <1>7, Counted DEF OrderOK, LineTo, PeersOK
    <2>2. (IF Arrival(q, m).key = <<x, s>> THEN Mark(Arrival(q, m).packet) ELSE Off)
            = (IF q = x THEN Carried(m, s) ELSE Off)
        BY <1>2, <1>7, ArrivesAsCarried
    <2>3. CASE x = q
        <3>1. /\ Line(x, s, received[p], got[p][<<x, s>>], <<>>, u, delayed[x][<<p, s>>],
                      spent.packets)
              /\ (IF Arrival(q, m).key = <<x, s>> THEN Mark(Arrival(q, m).packet) ELSE Off)
                   = Carried(Head(u), s)
            BY <1>1, <2>1, <2>2, <2>3 DEF u, m
        <3>2. Line(x, s, Append(received[p], Arrival(q, m)), got[p][<<x, s>>], <<>>,
                   Tail(u), delayed[x][<<p, s>>], spent.packets)
            BY <1>1, <1>3, <2>1, <3>1, ArrivesFromStream
        <3> QED
            BY <1>1, <1>4, <2>3, <3>2
    <2>4. CASE x # q
        <3>1. (IF Arrival(q, m).key = <<x, s>> THEN Mark(Arrival(q, m).packet) ELSE Off) = Off
            BY <2>2, <2>4
        <3>2. /\ Drawn(InLate(late'[p], x, s), InLate(late[p], x, s))
              /\ Drawn(InStream(w[<<x, p>>], s), InStream(wire[<<x, p>>], s))
            BY <1>6, <1>7
        <3> QED
            BY <2>1, <3>1, <3>2, NumberlessArrives
    <2> QED
        BY <2>3, <2>4
<1>8. ReceivesWell(p, w, air)
    <2>1. \A r \in Pairs : r[2] # p => w[r] = wire[r]
        BY <1>4
    <2> QED
        BY <1>1, <1>2, <1>6, <1>7, <2>1, MessageReads
<1> QED
    BY <1>5, <1>8, StepOrdered

LEMMA DeliverLateOrdered ==
    ASSUME OrderOK, IInv, IInv', NEW p \in Peers, DeliverLate(p)
    PROVE  OrderOK'
<1> USE DEF IInv
<1> DEFINE q == Head(late[p]).from
           m == Head(late[p]).msg
<1>1. /\ late[p] # <<>> /\ OnNetworkMessage(p, q, m, wire, air)
      /\ late' = [late EXCEPT ![p] = Tail(@)]
    BY DEF DeliverLate
<1>2. q \in Peers /\ p # q /\ m \in Messages
    BY <1>1, ReadLateOK DEF LinkOK
<1>3. Streams(wire, Messages) /\ late[p] \in Seq(Envelopes(p, Messages))
    BY DEF LinkOK, LinkTyped
<1>4. late'[p] = Tail(late[p]) /\ \A x \in Peers : x # p => late'[x] = late[x]
    BY <1>1 DEF LinkOK, LinkTyped
<1>5. SendsWell(p, wire, air)
    BY <1>1, <1>2, <1>3, MessageSends
<1>6. ASSUME NEW x \in Peers, NEW s \in Sockets, p # x
      PROVE  /\ Drawn(InLate(late'[p], x, s), InLate(late[p], x, s))
             /\ Drawn(InStream(wire[<<x, p>>], s), InStream(wire[<<x, p>>], s))
    BY <1>1, <1>3, <1>4, LateTailDrawn, DrawnSame
<1>7. ASSUME NEW x \in Peers, NEW s \in Sockets, p # x, m.type = "data"
      PROVE  Line(x, s, Append(received[p], Arrival(q, m)), got[p][<<x, s>>], late'[p],
                  wire[<<x, p>>], delayed[x][<<p, s>>], spent.packets)
    <2>1. /\ Line(x, s, received[p], got[p][<<x, s>>], late[p], wire[<<x, p>>],
                  delayed[x][<<p, s>>], spent.packets)
          /\ received[p] \in Seq(Arrivals) /\ got[p][<<x, s>>] \in Nat /\ spent.packets \in Nat
        BY <1>7, Counted DEF OrderOK, LineTo, PeersOK
    <2>2. (IF Arrival(q, m).key = <<x, s>> THEN Mark(Arrival(q, m).packet) ELSE Off)
            = (IF q = x THEN Carried(m, s) ELSE Off)
        BY <1>2, <1>7, ArrivesAsCarried
    <2> QED
        BY <1>1, <1>3, <1>4, <2>1, <2>2, ArrivesLate
<1> HIDE DEF q, m
<1>8. ReceivesWell(p, wire, air)
    BY <1>1, <1>2, <1>4, <1>6, <1>7, MessageReads
<1> QED
    BY <1>5, <1>8, StepOrdered

LEMMA DeliverDatagramOrdered ==
    ASSUME OrderOK, IInv, IInv', NEW p \in Peers, DeliverDatagram(p)
    PROVE  OrderOK'
<1> USE DEF IInv
<1>1. PICK d \in air : d.to = p /\ OnNetworkMessage(p, d.from, d.msg, wire, air \ {d})
    BY DEF DeliverDatagram
<1> DEFINE q == d.from
           m == d.msg
           a == air \ {d}
<1>2. q \in Peers /\ p # q /\ m \in Messages
    BY <1>1 DEF LinkOK, Datagrams
<1>3. UNCHANGED late /\ Streams(wire, Messages) /\ a \subseteq air
    BY DEF DeliverDatagram, LinkOK, LinkTyped
<1>4. m.type = "data" => ~m.packet.rel
    BY <1>1 DEF OrderOK
<1>5. OnNetworkMessage(p, q, m, wire, a)
    BY <1>1
<1> HIDE DEF q, m, a
<1>6. SendsWell(p, wire, a)
    BY <1>2, <1>3, <1>5, MessageSends
<1>7. \A f : Drawn(f, f)
    BY DrawnSame
<1>8. ASSUME NEW x \in Peers, NEW s \in Sockets, p # x, m.type = "data"
      PROVE  Line(x, s, Append(received[p], Arrival(q, m)), got[p][<<x, s>>], late'[p],
                  wire[<<x, p>>], delayed[x][<<p, s>>], spent.packets)
    <2>1. /\ Line(x, s, received[p], got[p][<<x, s>>], late[p], wire[<<x, p>>],
                  delayed[x][<<p, s>>], spent.packets)
          /\ received[p] \in Seq(Arrivals) /\ got[p][<<x, s>>] \in Nat /\ spent.packets \in Nat
        BY <1>8, Counted DEF OrderOK, LineTo, PeersOK
    <2>2. (IF Arrival(q, m).key = <<x, s>> THEN Mark(Arrival(q, m).packet) ELSE Off) = Off
        BY <1>4, <1>8 DEF Arrival, Mark
    <2> QED
        BY <1>3, <1>7, <2>1, <2>2, NumberlessArrives
<1>9. ReceivesWell(p, wire, a)
    BY <1>2, <1>3, <1>5, <1>7, <1>8, MessageReads
<1> QED
    BY <1>6, <1>9, StepOrdered

(* A connection of the mesh that breaks or begins: what p was to read of it is  *)
(* gone, but for what it has read already.                                  *)
Emptied(q, p) == [wire EXCEPT ![<<q, p>>] = <<>>]

LEMMA SeversSends ==
    ASSUME LinkOK, SpentOK, SpentOK', NEW p \in Peers, NEW q \in Peers \ {p},
           \A r \in Pairs : r \notin {<<p, q>>, <<q, p>>} => wire'[r] = wire[r],
           wire'[<<q, p>>] = <<>>,
           \A s : Drawn(InStream(wire'[<<p, q>>], s), InStream(wire[<<p, q>>], s)),
           air' \subseteq air,
           \A x \in Peers : x # p => delayed'[x] = delayed[x],
           \A k \in Keys : Drawn(InHeld(delayed'[p][k]), InHeld(delayed[p][k])),
           spent.packets <= spent'.packets
    PROVE  /\ SendsWell(p, Emptied(q, p), air)
           /\ \A r \in Pairs : r # <<q, p>> => Emptied(q, p)[r] = wire[r]
           /\ Emptied(q, p)[<<q, p>>] = <<>>
<1> DEFINE w == Emptied(q, p)
<1>1. /\ <<p, q>> \in Pairs /\ <<q, p>> \in Pairs /\ <<p, q>> # <<q, p>>
      /\ Streams(wire, Messages)
    BY DEF Pairs, LinkOK, LinkTyped
<1>2. w[<<q, p>>] = <<>> /\ \A r \in Pairs : r # <<q, p>> => w[r] = wire[r]
    BY <1>1 DEF Emptied, Streams
<1> HIDE DEF w
<1>3. ASSUME NEW r \in Pairs, r[1] # p
      PROVE  wire'[r] = w[r]
    <2>1. CASE r = <<q, p>>
        BY <1>2, <2>1
    <2>2. CASE r # <<q, p>>
        <3>1. r # <<p, q>>
            BY <1>3
        <3> QED
            BY <1>2, <2>2, <3>1
    <2> QED
        BY <2>1, <2>2
<1>4. ASSUME NEW x \in Peers, NEW s \in Sockets, p # x
      PROVE  /\ Drawn(InStream(wire'[<<p, x>>], s), InStream(w[<<p, x>>], s))
             /\ Drawn(InHeld(delayed'[p][<<x, s>>]), InHeld(delayed[p][<<x, s>>]))
    <2>1. <<p, x>> \in Pairs /\ <<p, x>> # <<q, p>> /\ <<x, s>> \in Keys
        BY <1>4 DEF Pairs, Keys
    <2>2. CASE x = q
        BY <1>1, <1>2, <2>1, <2>2
    <2>3. CASE x # q
        <3>1. <<p, x>> # <<p, q>>
            BY <2>3
        <3>2. wire'[<<p, x>>] = w[<<p, x>>]
            BY <1>2, <2>1, <3>1
        <3> QED
            BY <2>1, <3>2, DrawnSame
    <2> QED
        BY <2>2, <2>3
<1>5. SendsWell(p, w, air)
    BY <1>3, <1>4, ThinSends
<1> QED
    BY <1>2, <1>5 DEF w

LEMMA LineCut ==
    ASSUME NEW q, NEW s, NEW r, NEW g \in Nat, NEW u, NEW d, NEW n \in Nat,
           Line(q, s, r, g, <<>>, u, d, n),
           NEW r2, Drawn(InQueue(r2, <<q, s>>), InQueue(r, <<q, s>>)),
           NEW l2, Drawn(InLate(l2, q, s), InStream(u, s))
    PROVE  Line(q, s, r2, g, l2, <<>>, d, n)
<1>1. PICK x \in Nat, y \in Nat, z \in Nat :
        /\ g <= x /\ x <= y /\ y <= z /\ z <= n
        /\ Within(InQueue(r, <<q, s>>), g, x)
        /\ Within(InLate(<<>>, q, s), x, y)
        /\ Within(InStream(u, s), y, z)
        /\ Within(InHeld(d), z, n)
    BY DEF Line
<1>2. Within(InQueue(r2, <<q, s>>), g, x) /\ Within(InLate(l2, q, s), y, z)
    BY <1>1, DrawnWithin
<1>3. Within(InLate(l2, q, s), x, z)
    <2>1. z <= z
        BY <1>1
    <2> QED
        BY <1>1, <1>2, <2>1, WithinWider
<1>4. Within(InStream(<<>>, s), z, z) /\ x <= z /\ z <= z
    BY <1>1 DEF Within, InStream
<1> QED
    BY <1>1, <1>2, <1>3, <1>4 DEF Line

LEMMA LoseOrdered ==
    ASSUME OrderOK, IInv, IInv', NEW p \in Peers, NEW q \in Peers \ {p}, NEW n \in Nat, Lose(p, q, n)
    PROVE  OrderOK'
<1> USE DEF IInv
<1> DEFINE gone == Entries(p, KeysOf(q))
           u == wire[<<q, p>>]
           v == wire[<<p, q>>]
           l == [i \in 1 .. n |-> [from |-> q, msg |-> u[i]]]
<1>1. /\ late[p] = <<>> /\ n <= Len(u)
      /\ air' \subseteq air
      /\ late' = [late EXCEPT ![p] = l]
      /\ Erase(p, gone) /\ FlushPackets(p, KeysOf(q)) /\ UNCHANGED got
      /\ UNCHANGED spent \/ Spend("drops", MaxDrops)
    BY DEF Lose, DropPeer, OnPeerDisconnected
<1>2. PICK kept \in 0 .. Len(v) :
        wire' = [wire EXCEPT ![<<q, p>>] = <<>>,
                             ![<<p, q>>] = IF Reads(q, p)
                                           THEN SubSeq(v, 1, kept) \o <<Eof>> ELSE <<>>]
    BY DEF Lose, DropPeer
<1>3. /\ <<p, q>> \in Pairs /\ <<q, p>> \in Pairs /\ <<p, q>> # <<q, p>>
      /\ u \in Seq(Messages \cup {Eof}) /\ v \in Seq(Messages \cup {Eof})
      /\ Len(u) \in Nat /\ DOMAIN u = 1 .. Len(u)
      /\ wire = [r \in Pairs |-> wire[r]]
      /\ DOMAIN late = Peers
    BY LenProperties DEF Pairs, LinkOK, LinkTyped, Streams
<1> DEFINE t == IF Reads(q, p) THEN SubSeq(v, 1, kept) \o <<Eof>> ELSE <<>>
<1>4. wire' = [wire EXCEPT ![<<q, p>>] = <<>>, ![<<p, q>>] = t]
    BY <1>2
<1>5. \A s : Drawn(InStream(t, s), InStream(v, s))
    <2>1. \A s : Drawn(InStream(SubSeq(v, 1, kept) \o <<Eof>>, s), InStream(v, s))
        BY <1>3, PrefixDrawn
    <2> QED
        BY <2>1, EmptyLines
<1>6. late'[p] = l /\ \A x \in Peers : x # p => late'[x] = late[x]
    BY <1>1, <1>3
<1>7. /\ DOMAIN l = 1 .. n
      /\ \A i \in 1 .. n : l[i].from = q /\ l[i].msg = u[i] /\ i \in DOMAIN u
    BY <1>1, <1>3
<1> HIDE DEF gone, u, v, l, t
<1>8. /\ wire'[<<q, p>>] = <<>> /\ wire'[<<p, q>>] = t
      /\ \A r \in Pairs : r \notin {<<p, q>>, <<q, p>>} => wire'[r] = wire[r]
    BY <1>3, <1>4
<1>9. /\ \A x \in Peers : x # p => delayed'[x] = delayed[x]
      /\ \A k \in Keys : Drawn(InHeld(delayed'[p][k]), InHeld(delayed[p][k]))
    BY <1>1, ErasedHeld
<1>10. spent.packets <= spent'.packets
    BY <1>1, NumbersKept
<1> DEFINE w == Emptied(q, p)
<1>11. /\ SendsWell(p, w, air)
       /\ \A r \in Pairs : r # <<q, p>> => w[r] = wire[r]
       /\ w[<<q, p>>] = <<>>
    BY <1>1, <1>5, <1>8, <1>9, <1>10, SeversSends DEF v
<1> HIDE DEF w
<1>12. received[p] \in Seq(Arrivals) /\ received'[p] = Left(received[p], KeysOf(q))
       /\ \A x \in Peers : x # p => received'[x] = received[x]
    BY <1>1 DEF PeersOK, FlushPackets, Left
<1>13. ASSUME NEW x \in Peers, NEW s \in Sockets, p # x
       PROVE  Line(x, s, received'[p], got'[p][<<x, s>>], late'[p], w[<<x, p>>],
                   delayed[x][<<p, s>>], spent.packets)
    <2>1. /\ Line(x, s, received[p], got[p][<<x, s>>], <<>>, wire[<<x, p>>],
                  delayed[x][<<p, s>>], spent.packets)
          /\ got[p][<<x, s>>] \in Nat /\ spent.packets \in Nat /\ spent.packets <= spent.packets
        BY <1>1, <1>13, Counted DEF OrderOK, LineTo
    <2>2. Drawn(InQueue(received'[p], <<x, s>>), InQueue(received[p], <<x, s>>))
        BY <1>12, LeftDrawn
    <2>3. CASE x = q
        <3>1. Drawn(InLate(l, q, s), InStream(u, s))
            <4> DEFINE e == [j \in 1 .. n |-> j]
            <4>1. \A j \in 1 .. n : e[j] = j
                OBVIOUS
            <4> HIDE DEF e
            <4>2. /\ DOMAIN InLate(l, q, s) = 1 .. n /\ DOMAIN InStream(u, s) = DOMAIN u
                  /\ \A j \in 1 .. n : InStream(u, s)[j] = InLate(l, q, s)[j]
                BY <1>7 DEF InLate, InStream
            <4>3. \A j \in DOMAIN InLate(l, q, s) :
                    e[j] \in DOMAIN InStream(u, s) /\ InStream(u, s)[e[j]] = InLate(l, q, s)[j]
                BY <1>7, <4>1, <4>2
            <4>4. \A i, j \in DOMAIN InLate(l, q, s) : i < j => e[i] < e[j]
                BY <4>1, <4>2
            <4> QED
                BY <4>3, <4>4, DrawnBy
        <3>2. Line(x, s, received'[p], got[p][<<x, s>>], l, <<>>, delayed[x][<<p, s>>],
                   spent.packets)
            BY <2>1, <2>2, <2>3, <3>1, LineCut DEF u
        <3> QED
            BY <1>1, <1>6, <1>11, <2>3, <3>2
    <2>4. CASE x # q
        <3>1. <<x, p>> \in Pairs /\ <<x, p>> # <<q, p>>
            BY <1>13, <2>4 DEF Pairs
        <3>2. \A j \in DOMAIN InLate(l, x, s) : InLate(l, x, s)[j] = Off
            BY <1>7, <2>4 DEF InLate
        <3>3. Drawn(InLate(l, x, s), InLate(<<>>, x, s))
            BY <3>2 DEF Drawn
        <3>4. /\ Drawn(InStream(wire[<<x, p>>], s), InStream(wire[<<x, p>>], s))
              /\ Drawn(InHeld(delayed[x][<<p, s>>]), InHeld(delayed[x][<<p, s>>]))
            BY DrawnSame
        <3>5. Line(x, s, received'[p], got[p][<<x, s>>], l, wire[<<x, p>>],
                   delayed[x][<<p, s>>], spent.packets)
            BY <2>1, <2>2, <3>3, <3>4, LineThins
        <3> QED
            BY <1>1, <1>6, <1>11, <3>1, <3>5
    <2> QED
        BY <2>3, <2>4
<1>14. ReceivesWell(p, w, air)
    <2>1. \A i \in DOMAIN received'[p] : received'[p][i].key[1] # p
        <3>1. \A j \in DOMAIN Left(received[p], KeysOf(q)) :
                \E i \in DOMAIN received[p] : Left(received[p], KeysOf(q))[j] = received[p][i]
            BY <1>12, LeftOK
        <3> QED
            BY <1>12, <3>1 DEF OrderOK
    <2>2. \A r \in Pairs : r[2] # p => w[r] = wire[r]
        BY <1>11
    <2> QED
        BY <1>1, <1>6, <1>12, <1>13, <2>1, <2>2 DEF ReceivesWell
<1> QED
    BY <1>11, <1>14, StepOrdered

(* Nothing read, and what was to be read of q gone.                          *)
LEMMA SeversReads ==
    ASSUME OrderOK, PeersOK, SpentOK, NEW p \in Peers, NEW q \in Peers \ {p},
           UNCHANGED <<received, got, late>>, NEW w,
           \A r \in Pairs : r # <<q, p>> => w[r] = wire[r],
           w[<<q, p>>] = <<>>
    PROVE  ReceivesWell(p, w, air)
<1>1. ASSUME NEW x \in Peers, NEW s \in Sockets, p # x
      PROVE  Drawn(InStream(w[<<x, p>>], s), InStream(wire[<<x, p>>], s))
    <2>1. CASE x = q
        BY <2>1, EmptyLines
    <2>2. CASE x # q
        <3>1. <<x, p>> \in Pairs /\ <<x, p>> # <<q, p>>
            BY <1>1, <2>2 DEF Pairs
        <3> QED
            BY <3>1, DrawnSame
    <2> QED
        BY <2>1, <2>2
<1>2. /\ \A i \in DOMAIN received'[p] : received'[p][i].key[1] # p
      /\ \A r \in Pairs : r[2] # p => w[r] = wire[r]
    BY DEF OrderOK
<1>3. \A f : Drawn(f, f)
    BY DrawnSame
<1> QED
    BY <1>1, <1>2, <1>3, ThinReceives

LEMMA MeetOrdered ==
    ASSUME OrderOK, IInv, IInv', NEW p \in Peers, NEW q \in Peers \ {p},
           Meet(p, q) \/ GiveUp(p, q)
    PROVE  OrderOK'
<1> USE DEF IInv
<1>1. /\ <<p, q>> \in Pairs /\ <<q, p>> \in Pairs /\ <<p, q>> # <<q, p>>
      /\ Streams(wire, Messages) /\ wire = [r \in Pairs |-> wire[r]]
    BY DEF Pairs, LinkOK, LinkTyped, Streams
<1>2. /\ UNCHANGED <<delayed, received, got, late>> /\ air' \subseteq air
      /\ UNCHANGED spent \/ Spend("drops", MaxDrops)
    BY DEF Meet, GiveUp, MeetAsDialler, MeetAsAcceptor, TurnAway, entries, queues
<1>3. spent.packets <= spent'.packets
    BY <1>2, NumbersKept
<1>4. \A f : Drawn(f, f)
    BY DrawnSame
<1>5. CASE \E t \in {<<>>, <<Eof>>} :
             wire' = [wire EXCEPT ![<<p, q>>] = t, ![<<q, p>>] = <<>>]
    <2>1. PICK t \in {<<>>, <<Eof>>} :
            wire' = [wire EXCEPT ![<<p, q>>] = t, ![<<q, p>>] = <<>>]
        BY <1>5
    <2>2. /\ wire'[<<q, p>>] = <<>> /\ wire'[<<p, q>>] = t
          /\ \A r \in Pairs : r \notin {<<p, q>>, <<q, p>>} => wire'[r] = wire[r]
        BY <1>1, <2>1
    <2>3. \A s : Drawn(InStream(wire'[<<p, q>>], s), InStream(wire[<<p, q>>], s))
        BY <2>2, EmptyLines
    <2> DEFINE w == Emptied(q, p)
    <2>4. /\ SendsWell(p, w, air)
          /\ \A r \in Pairs : r # <<q, p>> => w[r] = wire[r]
          /\ w[<<q, p>>] = <<>>
        BY <1>2, <1>3, <1>4, <2>2, <2>3, SeversSends
    <2> HIDE DEF w
    <2>5. ReceivesWell(p, w, air)
        BY <1>2, <2>4, SeversReads
    <2> QED
        BY <2>4, <2>5, StepOrdered
<1>6. CASE wire' = IF Reads(q, p) THEN [wire EXCEPT ![<<p, q>>] = @ \o <<>>] ELSE wire
    <2>1. \A r \in Pairs : r[1] # p => wire'[r] = wire[r]
        BY <1>1, <1>6
    <2>2. ASSUME NEW x \in Peers, NEW s \in Sockets, p # x
          PROVE  Drawn(InStream(wire'[<<p, x>>], s), InStream(wire[<<p, x>>], s))
        <3>1. <<p, x>> \in Pairs /\ wire[<<p, x>>] \in Seq(Messages \cup {Eof})
            BY <1>1, <2>2 DEF Pairs, Streams
        <3>2. wire'[<<p, x>>] = wire[<<p, x>>] \o <<>> \/ wire'[<<p, x>>] = wire[<<p, x>>]
            BY <1>1, <1>6, <3>1
        <3>3. wire[<<p, x>>] \o <<>> = wire[<<p, x>>]
            BY <3>1, ConcatEmptySeq
        <3> QED
            BY <1>4, <3>2, <3>3
    <2>3. SendsWell(p, wire, air)
        BY <1>2, <1>3, <1>4, <2>1, <2>2, ThinSends
    <2>4. ReceivesWell(p, wire, air)
        BY <1>2, NothingRead
    <2> QED
        BY <2>3, <2>4, StepOrdered
<1>7. CASE MeetAsDialler(p, q, <<>>)
    BY <1>5, <1>7 DEF MeetAsDialler
<1>8. CASE MeetAsAcceptor(p, q, <<>>)
    BY <1>6, <1>8 DEF MeetAsAcceptor
<1>9. CASE TurnAway(p, q)
    <2> DEFINE t == IF <<q, p>> \in up THEN <<Eof>> ELSE <<>>
    <2>1. wire' = [wire EXCEPT ![<<q, p>>] = <<>>, ![<<p, q>>] = t]
        BY <1>9 DEF TurnAway
    <2>2. t \in {<<>>, <<Eof>>}
        OBVIOUS
    <2> HIDE DEF t
    <2>3. [wire EXCEPT ![<<q, p>>] = <<>>, ![<<p, q>>] = t]
            = [wire EXCEPT ![<<p, q>>] = t, ![<<q, p>>] = <<>>]
        BY <1>1
    <2> QED
        BY <1>5, <2>1, <2>2, <2>3
<1> QED
    BY <1>7, <1>8, <1>9 DEF Meet, GiveUp

LEMMA InitOrdered == Init => OrderOK
<1> SUFFICES ASSUME Init PROVE OrderOK
    OBVIOUS
<1>1. ASSUME NEW p \in Peers, NEW q \in Peers, NEW s \in Sockets, p # q
      PROVE  LineTo(p, q, s)
    <2>1. /\ received[p] = <<>> /\ got[p][<<q, s>>] = 0 /\ late[p] = <<>>
          /\ wire[<<q, p>>] = <<>> /\ delayed[q][<<p, s>>] = <<>> /\ spent.packets = 0
        BY <1>1 DEF Init, LinkInit, LinkInitMet, Keys, Pairs
    <2>2. /\ Within(InQueue(<<>>, <<q, s>>), 0, 0) /\ Within(InLate(<<>>, q, s), 0, 0)
          /\ Within(InStream(<<>>, s), 0, 0) /\ Within(InHeld(<<>>), 0, 0)
        BY DEF Within, InQueue, InLate, InStream, InHeld
    <2>3. 0 \in Nat /\ 0 <= 0
        OBVIOUS
    <2> QED
        BY <2>1, <2>2, <2>3 DEF LineTo, Line
<1>2. /\ \A p \in Peers : received[p] = <<>>
      /\ air = {}
    BY DEF Init, LinkInit, LinkInitMet
<1> QED
    BY <1>1, <1>2 DEF OrderOK

LEMMA StepOrder == IInv /\ OrderOK /\ [Next]_vars => OrderOK'
<1> SUFFICES ASSUME IInv, OrderOK, [Next]_vars PROVE OrderOK'
    OBVIOUS
<1>1. IInv'
    BY StepIInv
<1>2. SpentOK
    BY DEF IInv
<1>3. CASE UNCHANGED vars
    BY <1>2, <1>3, OrderSame DEF vars, entries, queues, linkVars
<1>4. ASSUME NEW p \in Peers, Calls(p)
      PROVE  OrderOK'
    <2>1. {{s} : s \in Sockets} \cup {Sockets} \subseteq SUBSET Sockets
        OBVIOUS
    <2>2. ASSUME NEW key \in Keys, NEW rel \in BOOLEAN, NEW hold \in BOOLEAN,
                 SendPacket(p, key, rel, hold)
          PROVE  OrderOK'
        BY <1>1, <2>2, SendPacketOrdered
    <2>3. ASSUME NEW key \in Keys, AcceptRequested(p, key) \/ AcceptOffer(p, key)
          PROVE  OrderOK'
        BY <1>1, <2>3, AcceptOrdered
    <2>4. ASSUME NEW q \in Others(p), NEW sockets \in {{s} : s \in Sockets} \cup {Sockets},
                 CloseConnection(p, q, sockets)
          PROVE  OrderOK'
        BY <1>1, <2>1, <2>4, CloseConnectionOrdered DEF Others
    <2>5. ASSUME NEW socket \in Sockets, CloseConnections(p, socket)
          PROVE  OrderOK'
        BY <1>1, <2>5, CloseConnectionsOrdered
    <2>6. ASSUME NEW keys, ClearPacketQueue(p, keys)
          PROVE  OrderOK'
        BY <1>1, <2>6, ClearPacketQueueOrdered
    <2>7. ASSUME NEW limit, SetPacketQueueSize(p, limit)
          PROVE  OrderOK'
        <3>1. /\ UNCHANGED <<delayed, received, got, wire, air, late>>
              /\ Spend("limits", MaxLimits)
            BY <2>7 DEF SetPacketQueueSize, entries, linkVars
        <3> QED
            BY <1>2, <3>1, NumbersKept, OrderSame
    <2>8. CASE ReceivePacket(p)
        BY <1>1, <2>8, ReceivePacketOrdered
    <2> QED
        BY <1>4, <2>2, <2>3, <2>4, <2>5, <2>6, <2>7, <2>8 DEF Calls
<1>5. ASSUME NEW p \in Peers, Tick(p)
      PROVE  OrderOK'
    <2>1. UNCHANGED <<delayed, received, got, spent, wire, air, late>>
        BY <1>5 DEF Tick, StartFrame, FireEvent, EndFrame, entries, queues, linkVars
    <2> QED
        BY <1>2, <2>1, OrderSame
<1>6. ASSUME NEW p \in Peers, Mesh(p)
      PROVE  OrderOK'
    <2>1. ASSUME NEW q \in Others(p), NEW n \in 0 .. Len(wire[<<q, p>>]), Lose(p, q, n)
          PROVE  OrderOK'
        BY <1>1, <2>1, LoseOrdered DEF Others
    <2>2. ASSUME NEW q \in Others(p), Deliver(p, q) \/ Meet(p, q) \/ GiveUp(p, q)
          PROVE  OrderOK'
        BY <1>1, <2>2, DeliverOrdered, MeetOrdered DEF Others
    <2>3. CASE DeliverLate(p) \/ DeliverDatagram(p)
        BY <1>1, <2>3, DeliverLateOrdered, DeliverDatagramOrdered
    <2> QED
        BY <1>6, <2>1, <2>2, <2>3 DEF Mesh
<1> QED
    BY <1>3, <1>4, <1>5, <1>6 DEF Next

(* The game reads the reliable packets of a connection in the order they were   *)
(* sent and none twice, whatever it does with its connections and whatever the *)
(* mesh does to them (send_packet, flush_delayed, receive_packet).           *)
THEOREM ReadInTheirOrder == Spec => []InOrder
<1>1. IInv /\ OrderOK => InOrder
    <2> SUFFICES ASSUME IInv, OrderOK, NEW p \in Peers, NEW key \in Keys,
                        NEW i \in DOMAIN received[p],
                        received[p][i].key = key, received[p][i].packet.rel
                 PROVE  /\ received[p][i].packet.n > got[p][key]
                        /\ \A j \in DOMAIN received[p] :
                             /\ received[p][j].key = key /\ received[p][j].packet.rel
                             /\ j > i
                             => received[p][j].packet.n > received[p][i].packet.n
        BY DEF InOrder
    <2> DEFINE r == received[p]
               f == InQueue(r, key)
               q == key[1]
               s == key[2]
    <2>1. /\ q \in Peers /\ s \in Sockets /\ key = <<q, s>> /\ p # q
        BY DEF OrderOK, Keys
    <2>2. r \in Seq(Arrivals) /\ got[p][key] \in Nat
        BY <2>1, Counted DEF IInv, PeersOK
    <2>3. PICK x \in Nat : Within(f, got[p][key], x)
        <3>1. LineTo(p, q, s)
            BY <2>1 DEF OrderOK
        <3> QED
            BY <2>1, <3>1 DEF LineTo, Line
    <2>4. ASSUME NEW j \in DOMAIN r, r[j].key = key, r[j].packet.rel
          PROVE  j \in DOMAIN f /\ f[j] = r[j].packet.n /\ f[j] \in Nat /\ f[j] # Off
        <3>1. DOMAIN r = 1 .. Len(r) /\ r[j] \in Arrivals
            BY <2>2, ElementOfSeq, LenProperties
        <3>2. r[j].packet.n \in Nat
            BY <3>1, PeersAssumption DEF Arrivals, Packets
        <3>3. f[j] = r[j].packet.n /\ DOMAIN f = DOMAIN r
            BY <2>4 DEF InQueue, Mark
        <3> QED
            BY <3>2, <3>3 DEF Off
    <2>5. DOMAIN r \subseteq Nat
        BY <2>2, LenProperties
    <2> HIDE DEF r, f, q, s
    <2>6. i \in DOMAIN f /\ f[i] = r[i].packet.n /\ f[i] \in Nat /\ f[i] # Off
        BY <2>4 DEF r
    <2>7. f[i] \in got[p][key] + 1 .. x
        BY <2>3, <2>6 DEF Within
    <2>8. ASSUME NEW j \in DOMAIN r, r[j].key = key, r[j].packet.rel, j > i
          PROVE  r[j].packet.n > r[i].packet.n
        <3>1. j \in DOMAIN f /\ f[j] = r[j].packet.n /\ f[j] \in Nat /\ f[j] # Off
            BY <2>4, <2>8
        <3>2. i < j
            BY <2>5, <2>8 DEF r
        <3>3. f[i] < f[j]
            BY <2>3, <2>6, <3>1, <3>2 DEF Within
        <3> QED
            BY <2>6, <3>1, <3>3
    <2> QED
        BY <2>2, <2>6, <2>7, <2>8 DEF r
<1> QED
    BY <1>1, Invariance, InitOrdered, StepOrder, PTL DEF Spec
=============================================================================
