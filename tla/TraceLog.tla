------------------------------ MODULE TraceLog ------------------------------
(***************************************************************************)
(* What a trace promises: a log of records that grows at its end, loses    *)
(* whole records at its start to stay within bounds, and says how many     *)
(* bytes it lost.  When the disk fails, a part of it without holes is      *)
(* left, and that is final.  TraceSink implements this.                    *)
(***************************************************************************)
EXTENDS Naturals, Sequences

VARIABLES
    log,            \* the records, oldest first: each its size, and what it says was lost
    final           \* whether the log is over

vars == <<log, final>>

Bytes(records) ==
    LET sum[n \in 0 .. Len(records)] == IF n = 0 THEN 0 ELSE sum[n - 1] + records[n].size
    IN  sum[Len(records)]

Init == log = <<>> /\ final = FALSE

(* The last n records of the log that is left.                               *)
New(n) == SubSeq(log', Len(log') - n + 1, Len(log'))
Old(n) == SubSeq(log', 1, Len(log') - n)

(* A record, or two, are added and nothing is lost.                          *)
Extend(n) ==
    /\ Old(n) = log
    /\ \A i \in 1 .. n : New(n)[i].lost = 0

(* The oldest are lost, and the first that is added tells of them.            *)
Discard(n) ==
    \E k \in 1 .. Len(log) :
        /\ Old(n) = SubSeq(log, k + 1, Len(log))
        /\ New(n)[1].lost = Bytes(SubSeq(log, 1, k))
        /\ \A i \in 2 .. n : New(n)[i].lost = 0

(* The disk failed.                                                         *)
Fail ==
    /\ final'
    /\ \/ \E m \in 0 .. Len(log) : \E n \in m .. Len(log) : log' = SubSeq(log, m + 1, n)
       \/ \E n \in 1 .. 2 : n <= Len(log')
                           /\ \E k \in 0 .. Len(log) : Old(n) = SubSeq(log, k + 1, Len(log))

Next ==
    /\ ~final
    /\ \/ Fail
       \/ \E n \in 1 .. 2 : n <= Len(log') /\ (Extend(n) \/ Discard(n))

Spec == Init /\ [][Next]_vars
=============================================================================
