----------------------------- MODULE TraceSink -----------------------------
(***************************************************************************)
(* A trace of a run (src/core/trace_sink.cpp, tracer.cpp): threads of the  *)
(* game make records, and a sink they share buffers them, writes them to   *)
(* trace.jsonl and rotates that file before it grows past the cap.  A      *)
(* record passes the gate, takes its number, and is written under the lock *)
(* of the sink, as steps of its own; whatever the sink does under its lock *)
(* is one.                                                                 *)
(***************************************************************************)
EXTENDS Naturals, SequencesExt

CONSTANTS
    Threads,
    MaxBytes,       \* trace_max_bytes
    Rotated,        \* trace_max_rotated_files
    Level,          \* trace_level, of 1 (errors) to 3 (full)
    Sizes,          \* of the lines a record makes, newline included
    MetaSize,       \* of the sink's own lines
    MaxSeq          \* bound on the numbers taken

(* resolve_config clamps the cap to what holds a rotate record.              *)
ASSUME TraceAssumption ==
    /\ {MaxBytes, Rotated, MetaSize, MaxSeq} \cup Sizes \subseteq Nat
    /\ 0 < MetaSize /\ MetaSize <= MaxBytes
    /\ Level \in 1 .. 3

VARIABLES
    sink,           \* what the sink's lock protects, and the files
    opened,         \* active_
    closed,         \* closed_
    enabled,        \* the gate of the tracer
    doing,          \* how far each thread is with its record
    told            \* history: how many diagnostics of the sink were logged

traceVars == <<sink, opened, closed, enabled, doing, told>>

Errors == 1
Nothing == [step |-> "none"]

Bytes(lines) ==
    LET sum[n \in 0 .. Len(lines)] == IF n = 0 THEN 0 ELSE sum[n - 1] + lines[n].size
    IN  sum[Len(lines)]

(* files[0] is trace.jsonl and files[k] is trace.k.jsonl; none may be beyond   *)
(* files[Rotated].  One that is missing is as one that is empty.            *)
NewSink == [files |-> [k \in 0 .. Rotated + 1 |-> <<>>], sizes |-> <<>>, buffer |-> <<>>,
            current |-> 0, seq |-> 0, disabled |-> FALSE, pending |-> FALSE]

TraceInit ==
    /\ sink = NewSink
    /\ opened = FALSE
    /\ closed = FALSE
    /\ enabled = FALSE
    /\ doing = [t \in Threads |-> Nothing]
    /\ told = 0

-----------------------------------------------------------------------------
(* The sink under its lock: what may come of it, the disk failing or not.     *)

(* disable_locked                                                          *)
Disabled(s) == [s EXCEPT !.disabled = TRUE, !.buffer = <<>>, !.pending = TRUE]

(* flush_locked: a write that fails may have written a part.                  *)
Flushed(s) ==
    LET wrote(n) == [s EXCEPT !.files[0] = @ \o SubSeq(s.buffer, 1, n)]
        all == Len(s.buffer)
    IN  {[wrote(all) EXCEPT !.buffer = <<>>]}
        \cup (IF all = 0 THEN {} ELSE {Disabled(wrote(n)) : n \in 0 .. all})

Appended(s, line) ==
    [s EXCEPT !.buffer = Append(@, line), !.current = @ + line.size]

(* The numbered files from n down to k, k = 0 the live one, each renamed to    *)
(* the next number.                                                        *)
Renamed(files, k, n) ==
    [i \in DOMAIN files |-> IF i = k THEN <<>> ELSE IF i \in k + 1 .. n + 1 THEN files[i - 1]
                            ELSE files[i]]

(* Broken: what is dropped is measured by the file that makes room.           *)
DroppingCurrent(s) ==
    LET n == Len(s.sizes)
    IN  IF Rotated = 0
        THEN [s |-> [s EXCEPT !.files[0] = <<>>], lost |-> s.current]
        ELSE IF n >= Rotated
        THEN [s |-> [s EXCEPT !.files[n] = <<>>, !.sizes = Front(@)], lost |-> s.current]
        ELSE [s |-> s, lost |-> 0]

(* rotate_locked once the current file is flushed.  The files that are left   *)
(* with how much is dropped; a failure is wherever a remove or rename fails. *)
Dropping(s) ==
    LET n == Len(s.sizes)
    IN  IF Rotated = 0
        THEN [s |-> [s EXCEPT !.files[0] = <<>>], lost |-> s.current]
        ELSE IF n >= Rotated
        THEN [s |-> [s EXCEPT !.files[n] = <<>>, !.sizes = Front(@)], lost |-> Last(s.sizes)]
        ELSE [s |-> s, lost |-> 0]

RotateFails(s) ==
    LET after == Dropping(s).s
        n == Len(after.sizes)
    IN  (IF after = s THEN {} ELSE {Disabled(s)})
        \cup (IF Rotated = 0 THEN {}
              ELSE {Disabled([after EXCEPT !.files = Renamed(@, k, n)]) : k \in 1 .. n + 1})

RotateSucceeds(s) ==
    LET dropping == Dropping(s)
        after == dropping.s
        fresh == IF Rotated = 0 THEN after
                 ELSE [after EXCEPT !.files = Renamed(@, 0, Len(after.sizes)),
                                    !.sizes = <<s.current>> \o @]
    IN  Appended([fresh EXCEPT !.current = 0, !.seq = @ + 1],
                 [seq |-> s.seq, size |-> MetaSize, lost |-> dropping.lost])

Rotations(s) ==
    UNION {IF f.disabled THEN {f} ELSE RotateFails(f) \cup {RotateSucceeds(f)} : f \in Flushed(s)}

(* Broken: a line is not measured again beside the rotate record.              *)
WriteLineBeside(s, line) ==
    IF line.size > MaxBytes THEN {s}
    ELSE IF s.current + line.size <= MaxBytes THEN {Appended(s, line)}
    ELSE {IF r.disabled THEN r ELSE Appended(r, line) : r \in Rotations(s)}

(* write_line_locked: a line that would not fit even in a fresh file is        *)
(* skipped.                                                                *)
WriteLine(s, line) ==
    IF line.size > MaxBytes THEN {s}
    ELSE IF s.current + line.size <= MaxBytes THEN {Appended(s, line)}
    ELSE {IF r.disabled \/ r.current + line.size > MaxBytes THEN r ELSE Appended(r, line) :
              r \in Rotations(s)}

(* emit_meta_locked                                                        *)
Emitted(s) ==
    WriteLine([s EXCEPT !.seq = @ + 1], [seq |-> s.seq, size |-> MetaSize, lost |-> 0])

FlushedUnless(s) == IF s.disabled THEN {s} ELSE Flushed(s)

(* close, of a sink that is open.                                             *)
Closings(s) ==
    IF s.disabled THEN {s} ELSE UNION {FlushedUnless(e) : e \in Emitted(s)}

-----------------------------------------------------------------------------
(* The tracer.                                                              *)

(* start, before any thread can pass the gate: the sink opens or not, and a   *)
(* runtime.json that is there already has the run rejected.                 *)
Start ==
    /\ ~opened /\ ~closed
    /\ \/ \E s \in Emitted(NewSink) :
            sink' = s /\ opened' = TRUE /\ enabled' = TRUE /\ UNCHANGED <<closed, told>>
       \/ /\ closed' = TRUE /\ told' = 1
          /\ UNCHANGED <<sink, opened, enabled>>
       \/ \E s \in UNION {Closings(e) : e \in Emitted(NewSink)} :
            /\ sink' = [s EXCEPT !.files[0] = <<>>, !.pending = FALSE]
            /\ told' = IF s.pending THEN 1 ELSE 0
            /\ closed' = TRUE
            /\ UNCHANGED <<opened, enabled>>
    /\ UNCHANGED doing

(* record_call and the others: past the gate.                                *)
Begin(t) ==
    /\ doing[t] = Nothing
    /\ enabled
    /\ \E level \in 1 .. 3, size \in Sizes :
         doing' = [doing EXCEPT ![t] = [step |-> "begun", level |-> level, size |-> size]]
    /\ UNCHANGED <<sink, opened, closed, enabled, told>>

(* next_envelope                                                           *)
NextEnvelope(t) ==
    /\ doing[t].step = "begun"
    /\ sink.seq < MaxSeq
    /\ sink' = [sink EXCEPT !.seq = @ + 1]
    /\ doing' = [doing EXCEPT ![t] = [step |-> "numbered", level |-> @.level,
                                      line |-> [seq |-> sink.seq, size |-> @.size, lost |-> 0]]]
    /\ UNCHANGED <<opened, closed, enabled, told>>

Open == opened /\ ~closed /\ ~sink.disabled

(* write: above the level, or without an open sink, the record is dropped.     *)
Write(t) ==
    /\ doing[t].step = "numbered"
    /\ LET level == doing[t].level
       IN  IF Open /\ level <= Level
           THEN /\ \E s \in WriteLine(sink, doing[t].line) :
                     sink' \in IF level = Errors THEN FlushedUnless(s) ELSE {s}
                /\ doing' = [doing EXCEPT ![t] = [step |-> "written"]]
           ELSE doing' = [doing EXCEPT ![t] = Nothing] /\ UNCHANGED sink
    /\ UNCHANGED <<opened, closed, enabled, told>>

(* flush, at the end of a tick.                                               *)
Flush(t) ==
    /\ doing[t] = Nothing
    /\ Open /\ sink.buffer # <<>>
    /\ sink' \in Flushed(sink)
    /\ doing' = [doing EXCEPT ![t] = [step |-> "written"]]
    /\ UNCHANGED <<opened, closed, enabled, told>>

(* Broken: the diagnostic is copied and stays.                               *)
DeliverPendingCopy(t) ==
    /\ doing[t].step = "written"
    /\ told' = IF sink.pending THEN told + 1 ELSE told
    /\ doing' = [doing EXCEPT ![t] = Nothing]
    /\ UNCHANGED <<sink, opened, closed, enabled>>

(* deliver_pending, with the lock released.                                   *)
DeliverPending(t) ==
    /\ doing[t].step = "written"
    /\ told' = IF sink.pending THEN told + 1 ELSE told
    /\ sink' = [sink EXCEPT !.pending = FALSE]
    /\ doing' = [doing EXCEPT ![t] = Nothing]
    /\ UNCHANGED <<opened, closed, enabled>>

(* stop: the gate, then close.                                                *)
Stop(t) ==
    /\ doing[t] = Nothing
    /\ enabled
    /\ enabled' = FALSE
    /\ doing' = [doing EXCEPT ![t] = [step |-> "stopping"]]
    /\ UNCHANGED <<sink, opened, closed, told>>

Close(t) ==
    /\ doing[t].step = "stopping"
    /\ sink' \in Closings(sink)
    /\ closed' = TRUE
    /\ opened' = FALSE
    /\ doing' = [doing EXCEPT ![t] = [step |-> "written"]]
    /\ UNCHANGED <<enabled, told>>

-----------------------------------------------------------------------------
Step(t) == NextEnvelope(t) \/ Write(t) \/ DeliverPending(t) \/ Close(t)

TraceNext ==
    \/ Start
    \/ \E t \in Threads : Step(t) \/ Begin(t) \/ Flush(t) \/ Stop(t)

(* A thread that has begun a record or a stop goes on with it.                *)
TraceSpec == TraceInit /\ [][TraceNext]_traceVars /\ \A t \in Threads : WF_traceVars(Step(t))

-----------------------------------------------------------------------------
(* Properties.                                                             *)

(* No file ever grows past the cap, none is kept beyond the number allowed,    *)
(* and while it writes the sink knows the size of each: what it drops is     *)
(* what it says (write_line_locked, rotate_locked).                         *)
DiskBounded ==
    /\ \A k \in DOMAIN sink.files : Bytes(sink.files[k]) <= MaxBytes
    /\ sink.files[Rotated + 1] = <<>>
    /\ Open =>
         /\ sink.current = Bytes(sink.files[0] \o sink.buffer)
         /\ sink.sizes = [k \in 1 .. Len(sink.sizes) |-> Bytes(sink.files[k])]

(* A failure is told of once, however many threads meet in the sink when it    *)
(* happens (disable_locked, deliver_pending).                               *)
FailureToldOnce == sink.disabled ~> [](told = 1)

(* The files, oldest first, and what is not yet written.                      *)
Kept ==
    LET lines[k \in 0 .. Rotated + 1] ==
          IF k = 0 THEN sink.files[0] \o sink.buffer ELSE sink.files[k] \o lines[k - 1]
    IN  lines[Rotated + 1]

Log == INSTANCE TraceLog WITH log <- Kept, final <- closed \/ sink.disabled

(* The trace is a log without holes that tells what it lost: no rotation       *)
(* overtakes, repeats or misses a record, nothing follows the shutdown, and  *)
(* a failure ends it (write, rotate_locked, close).                          *)
ImplementsLog == Log!Spec
=============================================================================
