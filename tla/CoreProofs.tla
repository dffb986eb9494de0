------------------------------ MODULE CoreProofs ------------------------------
(***************************************************************************)
(* What the parts of src/core promise: CallbackManager for any number of   *)
(* owners, completions, notifications and events, and TraceSink for any    *)
(* threads, sizes of lines, caps and numbers of rotated files.             *)
(***************************************************************************)
EXTENDS CallbackManager, TraceSink, SequenceTheorems, WellFoundedInduction, TLAPS

-----------------------------------------------------------------------------
(* CallbackManager: the inductive invariant.                               *)

(* Numbers are given in the order of queueing, none ahead of time.            *)
Numbered ==
    /\ \A o \in Owners : \A r \in queue[o] \cup ready[o] : r <= queued
    /\ \A r \in later : r <= queued
    /\ \A r \in Results : r > queued => fired[r] = 0 /\ freed[r] = 0

(* A completion is in one place at a time.                                   *)
OneHolder ==
    /\ \A o, p \in Owners :
         /\ o # p => queue[o] \cap queue[p] = {} /\ ready[o] \cap ready[p] = {}
         /\ queue[o] \cap ready[p] = {}
    /\ calling.what = "result" =>
         /\ calling.n \in Results /\ calling.n <= queued
         /\ \A o \in Owners : calling.n \notin queue[o] \cup ready[o]

(* What waits has not been fired.                                           *)
Unfired == \A o \in Owners : \A r \in queue[o] \cup ready[o] : fired[r] = 0

(* Only the delivery has completions in hand.                               *)
Phased ==
    /\ phase # "deliver" => \A o \in Owners : ready[o] = {}
    /\ calling.what = "result" => phase = "deliver"
    /\ calling.what = "nobody" => calling = Nobody

(* What became due after the collection is younger than what was collected.  *)
DueAhead ==
    \A o \in Owners : \A m \in queue[o] \ later : \A r \in ready[o] : r < m

(* An event still has to tell whom it has not told; ids registered since are  *)
(* newer than any it started with.                                         *)
Telling ==
    /\ event.on =>
         /\ event.owner \in Owners
         /\ event.start \cap notes[event.owner] \subseteq event.told \cup event.left
    /\ created =>
         /\ \A i \in event.start : i < next_id
         /\ \A o \in Owners : \A i \in notes[o] : i < next_id

IInv ==
    /\ TypeOK /\ Numbered /\ OneHolder /\ Unfired /\ Accounted
    /\ Phased /\ DueAhead /\ Telling

-----------------------------------------------------------------------------
(* A manager that was just created satisfies the invariant.                  *)
LEMMA InitInv == Init => IInv
<1> SUFFICES ASSUME Init PROVE IInv
    OBVIOUS
<1> USE CallbackAssumption DEF Init
<1>1. TypeOK
    BY DEF TypeOK, Results, Ids, Nobody, NoEvent
<1>2. Numbered /\ OneHolder /\ Unfired /\ Accounted
    BY DEF Numbered, OneHolder, Unfired, Accounted, Results, Nobody
<1>3. Phased /\ DueAhead /\ Telling
    BY DEF Phased, DueAhead, Telling, Nobody, NoEvent
<1> QED
    BY <1>1, <1>2, <1>3 DEF IInv

(* The calls.  Queueing a completion (add_callback) preserves the invariant. *)
LEMMA AddCallbackInv ==
    ASSUME IInv, NEW o \in Owners, NEW done \in BOOLEAN, AddCallback(o, done)
    PROVE  IInv'
<1> DEFINE r == queued + 1
<1> USE CallbackAssumption
<1>1. /\ r \in Results /\ queued \in Nat /\ queued' = r
      /\ queue' = [queue EXCEPT ![o] = @ \cup {r}]
      /\ later' \in {later, later \cup {r}}
      /\ UNCHANGED <<created, frames, notes, next_id, phase, todo, event, ready, calling>>
      /\ UNCHANGED <<fired, freed, events>>
    BY DEF IInv, TypeOK, AddCallback, Results, ticking
<1>2. TypeOK'
    BY <1>1 DEF IInv, TypeOK, Results
<1>3. \A p \in Owners : queue'[p] = IF p = o THEN queue[p] \cup {r} ELSE queue[p]
    BY <1>1 DEF IInv, TypeOK
<1>4. \A p \in Owners : r \notin queue[p] \cup ready[p]
    BY <1>1 DEF IInv, Numbered
<1>5. \A p \in Owners : queue[p] \subseteq Results /\ ready[p] \subseteq Results
    BY DEF IInv, TypeOK
<1>6. Numbered'
    BY <1>1, <1>3, <1>5 DEF IInv, Numbered, TypeOK, Results
<1>7. OneHolder'
    BY <1>1, <1>3, <1>4 DEF IInv, OneHolder, Results
<1>8. Unfired'
    BY <1>1, <1>3 DEF IInv, Unfired, Numbered
<1>9. Accounted'
  <2> SUFFICES ASSUME NEW x \in 1 .. r
               PROVE  freed[x] = IF InHand(x)' THEN 0 ELSE 1
      BY <1>1 DEF Accounted
  <2>1. CASE x = r
      BY <2>1, <1>1, <1>3 DEF IInv, Numbered, InHand
  <2>2. CASE x # r
    <3>1. InHand(x)' <=> InHand(x)
        BY <2>2, <1>1, <1>3 DEF InHand
    <3> QED
        BY <2>2, <3>1, <1>1 DEF IInv, Accounted
  <2> QED
      BY <2>1, <2>2
<1>10. Phased'
    BY <1>1 DEF IInv, Phased
<1>11. DueAhead'
    BY <1>1, <1>3, <1>5 DEF IInv, DueAhead, Numbered, Results
<1>12. Telling'
    BY <1>1 DEF IInv, Telling
<1> QED
    BY <1>2, <1>6, <1>7, <1>8, <1>9, <1>10, <1>11, <1>12 DEF IInv

(* Whatever leaves the completions and who is called alone.                  *)
Completions == <<queue, later, ready, calling, fired, freed, queued>>

(* A step that leaves the completions alone keeps what is said of them.      *)
LEMMA CompletionsKept ==
    ASSUME IInv, UNCHANGED Completions, TypeOK'
    PROVE  Numbered' /\ OneHolder' /\ Unfired' /\ Accounted' /\ DueAhead'
BY DEF IInv, Completions, Numbered, OneHolder, Unfired, Accounted, InHand, DueAhead

(* Registering a notification (add_notification) preserves it.               *)
LEMMA AddNotificationInv ==
    ASSUME IInv, NEW o \in Owners, AddNotification(o)
    PROVE  IInv'
<1> USE CallbackAssumption
<1>1. TypeOK'
    BY DEF IInv, TypeOK, AddNotification, Ids, ticking, counts
<1>2. UNCHANGED <<Completions, phase>>
    BY DEF AddNotification, ticking, counts, Completions
<1>3. Telling'
    BY DEF IInv, TypeOK, Telling, AddNotification, CanCall, Ids, ticking
<1> QED
    BY <1>1, <1>2, <1>3, CompletionsKept DEF IInv, Phased, Completions

(* Removing a notification, from its own delegate too, preserves it.         *)
LEMMA RemoveNotificationInv ==
    ASSUME IInv, NEW o \in Owners, NEW id \in Ids, RemoveNotification(o, id)
    PROVE  IInv'
<1>1. TypeOK'
    BY DEF IInv, TypeOK, RemoveNotification, ticking, counts
<1>2. UNCHANGED <<Completions, phase>>
    BY DEF RemoveNotification, ticking, counts, Completions
<1>3. Telling'
    BY DEF IInv, TypeOK, Telling, RemoveNotification, ticking
<1> QED
    BY <1>1, <1>2, <1>3, CompletionsKept DEF IInv, Phased, Completions

(* Releasing the platform (unregister_callbacks, clear) preserves it.        *)
LEMMA ReleaseInv ==
    ASSUME IInv, Release
    PROVE  IInv'
<1> USE CallbackAssumption
<1>1. /\ queue' = [o \in Owners |-> {}] /\ created' = FALSE
      /\ notes' = [o \in Owners |-> {}] /\ next_id' = 1 /\ frames' = {}
      /\ freed' = [r \in Results |->
                     IF \E o \in Owners : r \in queue[o] THEN freed[r] + 1 ELSE freed[r]]
      /\ UNCHANGED <<later, phase, todo, event, ready, calling, fired, queued, events>>
    BY DEF Release, FreeQueued, ticking
<1>2. \A r \in Results : r <= queued => freed[r] = IF InHand(r) THEN 0 ELSE 1
    BY DEF IInv, Accounted, TypeOK, Results
<1>3. \A o \in Owners : \A r \in queue[o] : r \in Results /\ freed[r] = 0
    BY <1>2 DEF IInv, TypeOK, Numbered, InHand
<1>4. TypeOK'
  <2>1. freed \in [Results -> 0 .. 1]
      BY DEF IInv, TypeOK
  <2>2. \A r \in Results : freed'[r] \in 0 .. 1
      BY <2>1, <1>1, <1>3
  <2>3. freed' \in [Results -> 0 .. 1]
      BY <2>2, <1>1
  <2>4. queue' \in [Owners -> SUBSET Results] /\ notes' \in [Owners -> SUBSET Ids]
      BY <1>1
  <2>5. next_id' \in 1 .. MaxNotes + 1
      BY <1>1
  <2>7. created' \in BOOLEAN /\ frames' \subseteq Owners
      BY <1>1
  <2>6. /\ later' = later /\ phase' = phase /\ todo' = todo /\ event' = event
        /\ ready' = ready /\ calling' = calling /\ fired' = fired
        /\ queued' = queued /\ events' = events
      BY <1>1
  <2> QED
      BY <2>3, <2>4, <2>5, <2>6, <2>7 DEF IInv, TypeOK
<1>5. Numbered'
  <2>1. ASSUME NEW r \in Results, r > queued PROVE freed'[r] = 0
    <3>1. r \in Nat /\ queued \in Nat
        BY DEF IInv, TypeOK, Results
    <3>2. \A o \in Owners : r \notin queue[o]
        BY <3>1, <2>1 DEF IInv, Numbered
    <3>3. freed'[r] = freed[r]
        BY <3>2, <1>1
    <3> QED
        BY <3>3, <2>1 DEF IInv, Numbered
  <2> QED
      BY <2>1, <1>1 DEF IInv, Numbered
<1>6. OneHolder' /\ Unfired' /\ Phased' /\ DueAhead'
    BY <1>1 DEF IInv, OneHolder, Unfired, Phased, DueAhead
<1>7. Accounted'
  <2> SUFFICES ASSUME NEW r \in 1 .. queued
               PROVE  freed'[r] = IF InHand(r)' THEN 0 ELSE 1
      BY <1>1 DEF Accounted
  <2>1. r \in Results
      BY DEF IInv, TypeOK, Results
  <2>2. CASE \E o \in Owners : r \in queue[o]
      BY <2>1, <2>2, <1>1, <1>3 DEF IInv, OneHolder, InHand
  <2>3. CASE ~ \E o \in Owners : r \in queue[o]
    <3>1. InHand(r)' <=> InHand(r)
        BY <2>3, <1>1 DEF InHand
    <3> QED
        BY <2>1, <2>3, <3>1, <1>1, <1>2
  <2> QED
      BY <2>2, <2>3
<1>8. Telling'
    BY <1>1 DEF IInv, Telling
<1> QED
    BY <1>4, <1>5, <1>6, <1>7, <1>8 DEF IInv

(* The tick.  The tick that starts (tick, run_frames) preserves it.          *)
LEMMA StartTickInv ==
    ASSUME IInv, StartTick
    PROVE  IInv'
<1>1. TypeOK'
    BY DEF IInv, TypeOK, StartTick, engine, counts
<1>2. UNCHANGED Completions
    BY DEF StartTick, engine, counts, Completions
<1>3. Phased' /\ Telling'
    BY DEF IInv, TypeOK, Phased, Telling, StartTick, engine, counts
<1> QED
    BY <1>1, <1>2, <1>3, CompletionsKept DEF IInv

(* Running the frame of one owner (run_frames) preserves it.                 *)
LEMMA RunFrameInv ==
    ASSUME IInv, RunFrame
    PROVE  IInv'
<1>1. PICK o \in todo :
        /\ todo' = todo \ {o}
        /\ \/ UNCHANGED <<event, events>>
           \/ /\ o \in frames
              /\ events < MaxEvents
              /\ events' = events + 1
              /\ event' = [owner |-> o, start |-> notes[o], left |-> notes[o],
                           told |-> {}, on |-> TRUE]
    BY DEF RunFrame
<1>2. UNCHANGED <<engine, phase, ready, calling, fired, freed, queued>>
    BY DEF RunFrame
<1>3. o \in Owners /\ notes[o] \subseteq Ids
    BY <1>1 DEF IInv, TypeOK
<1>4. event' \in [owner : Owners \cup {0}, start : SUBSET Ids, left : SUBSET Ids,
                  told : SUBSET Ids, on : BOOLEAN]
  <2>1. CASE UNCHANGED event
      BY <2>1 DEF IInv, TypeOK
  <2>2. CASE event' = [owner |-> o, start |-> notes[o], left |-> notes[o],
                       told |-> {}, on |-> TRUE]
      BY <2>2, <1>3
  <2> QED
      BY <1>1, <2>1, <2>2
<1>5. events' \in 0 .. MaxEvents
    BY <1>1, CallbackAssumption DEF IInv, TypeOK
<1>6. TypeOK'
    BY <1>1, <1>2, <1>4, <1>5 DEF IInv, TypeOK, engine
<1>7. UNCHANGED Completions
    BY <1>2 DEF engine, Completions
<1>8. Phased'
    BY <1>2 DEF IInv, Phased
<1>9. Telling'
  <2>1. CASE UNCHANGED event
      BY <2>1, <1>2 DEF IInv, Telling, engine
  <2>2. CASE event' = [owner |-> o, start |-> notes[o], left |-> notes[o],
                       told |-> {}, on |-> TRUE]
      BY <2>2, <1>2, <1>3 DEF IInv, Telling, engine
  <2> QED
      BY <1>1, <2>1, <2>2
<1> QED
    BY <1>6, <1>7, <1>8, <1>9, CompletionsKept DEF IInv

(* Firing a notification found again (find_notification) preserves it.       *)
LEMMA FireNotificationInv ==
    ASSUME IInv, FireNotification
    PROVE  IInv'
<1>1. PICK id \in event.left :
        /\ calling' = [what |-> "note", owner |-> event.owner, n |-> id]
        /\ event' = [event EXCEPT !.left = @ \ {id}, !.told = @ \cup {id}]
    BY DEF FireNotification
<1>2. /\ UNCHANGED <<engine, phase, todo, ready, counts>>
      /\ calling.what = "nobody"
    BY DEF FireNotification, Nobody
<1>3. id \in Ids /\ id \in Nat
    BY <1>1 DEF IInv, TypeOK, Ids
<1>4. TypeOK'
    BY <1>1, <1>2, <1>3 DEF IInv, TypeOK, engine, counts
<1>5. calling'.what = "note"
    BY <1>1
<1>6. Numbered' /\ OneHolder' /\ Unfired' /\ Phased' /\ DueAhead'
    BY <1>2, <1>5 DEF IInv, Numbered, OneHolder, Unfired, Phased, DueAhead, engine, counts
<1>7. Accounted'
    BY <1>2, <1>5 DEF IInv, Accounted, InHand, engine, counts
<1>8. Telling'
    BY <1>1, <1>2 DEF IInv, TypeOK, Telling, engine
<1> QED
    BY <1>4, <1>6, <1>7, <1>8 DEF IInv

(* Passing over a notification that was removed preserves it.                *)
LEMMA SkipNotificationInv ==
    ASSUME IInv, SkipNotification
    PROVE  IInv'
<1>1. PICK id \in event.left :
        /\ id \notin notes[event.owner]
        /\ event' = [event EXCEPT !.left = @ \ {id}]
    BY DEF SkipNotification, Find
<1>2. UNCHANGED <<engine, phase, todo, ready, calling, counts>>
    BY DEF SkipNotification
<1>3. TypeOK'
    BY <1>1, <1>2 DEF IInv, TypeOK, engine, counts
<1>4. UNCHANGED Completions
    BY <1>2 DEF engine, counts, Completions
<1>5. Phased' /\ Telling'
    BY <1>1, <1>2 DEF IInv, TypeOK, Phased, Telling, engine
<1> QED
    BY <1>3, <1>4, <1>5, CompletionsKept DEF IInv

(* The end of the walk over the notifications preserves it.                  *)
LEMMA EndEventInv ==
    ASSUME IInv, EndEvent
    PROVE  IInv'
<1>1. event' = NoEvent /\ UNCHANGED <<engine, phase, todo, ready, calling, counts>>
    BY DEF EndEvent
<1>2. TypeOK'
    BY <1>1 DEF IInv, TypeOK, NoEvent, engine, counts
<1>3. UNCHANGED Completions
    BY <1>1 DEF engine, counts, Completions
<1>4. Phased' /\ Telling'
    BY <1>1 DEF IInv, Phased, Telling, NoEvent, engine
<1> QED
    BY <1>2, <1>3, <1>4, CompletionsKept DEF IInv

(* Moving what is due out of the queue (collect_ready_callbacks) preserves it.*)
LEMMA CollectInv ==
    ASSUME IInv, Collect
    PROVE  IInv'
<1>1. PICK matured \in SUBSET later :
        /\ ready' = [o \in Owners |-> Due(o) \cup (queue[o] \cap matured)]
        /\ queue' = [o \in Owners |-> queue[o] \ ready'[o]]
    BY DEF Collect, Keep
<1>2. /\ phase = "frames" /\ phase' = "deliver"
      /\ UNCHANGED <<created, frames, later, notes, next_id, todo, event, calling>>
      /\ UNCHANGED <<fired, freed, queued, events>>
    BY DEF Collect, counts
<1>3. \A o \in Owners : /\ ready'[o] \subseteq queue[o]
                        /\ queue'[o] = queue[o] \ ready'[o]
                        /\ queue'[o] \subseteq later
                        /\ ready[o] = {}
    BY <1>1, <1>2 DEF Due, IInv, Phased
<1>4. calling.what # "result"
    BY <1>2 DEF IInv, Phased
<1>5. TypeOK'
  <2>1. \A o \in Owners : queue[o] \subseteq Results
      BY DEF IInv, TypeOK
  <2>2. queue' \in [Owners -> SUBSET Results] /\ ready' \in [Owners -> SUBSET Results]
      BY <2>1, <1>1, <1>3
  <2> QED
      BY <2>2, <1>2 DEF IInv, TypeOK
<1>6. Numbered' /\ Unfired' /\ OneHolder' /\ Phased'
    BY <1>2, <1>3, <1>4 DEF IInv, Numbered, Unfired, OneHolder, Phased
<1>7. Accounted'
  <2>1. \A r \in 1 .. queued : InHand(r)' <=> InHand(r)
      BY <1>2, <1>3 DEF InHand
  <2> QED
      BY <2>1, <1>2 DEF IInv, Accounted
<1>8. DueAhead' /\ Telling'
    BY <1>2, <1>3 DEF IInv, DueAhead, Telling
<1> QED
    BY <1>5, <1>6, <1>7, <1>8 DEF IInv

(* Firing a completion outside the lock (tick) preserves it.                 *)
LEMMA FireResultInv ==
    ASSUME IInv, FireResult
    PROVE  IInv'
<1>1. PICK o \in Owners, r \in Results :
        /\ r \in ready[o]
        /\ calling' = [what |-> "result", owner |-> o, n |-> r]
        /\ ready' = [ready EXCEPT ![o] = @ \ {r}]
        /\ fired' = [fired EXCEPT ![r] = @ + 1]
    BY DEF FireResult, NextReady, IsFirst
<1>2. /\ phase = "deliver" /\ calling.what = "nobody"
      /\ UNCHANGED <<engine, phase, todo, event, freed, queued, events>>
    BY DEF FireResult, Nobody
<1>3. /\ calling'.what = "result" /\ calling'.n = r
      /\ \A p \in Owners : ready'[p] = IF p = o THEN ready[p] \ {r} ELSE ready[p]
      /\ fired[r] = 0 /\ r <= queued
      /\ \A p \in Owners : r \notin queue[p] \cup ready'[p]
    BY <1>1 DEF IInv, TypeOK, Unfired, Numbered, OneHolder
<1>4. TypeOK'
  <2>1. r \in Nat
      BY DEF Results
  <2>2. calling' \in [what : {"nobody", "note", "result"}, owner : Owners \cup {0}, n : Nat]
      BY <2>1, <1>1
  <2>3. ready' \in [Owners -> SUBSET Results] /\ fired' \in [Results -> 0 .. 1]
      BY <1>1, <1>3 DEF IInv, TypeOK
  <2> QED
      BY <2>2, <2>3, <1>2 DEF IInv, TypeOK, engine
<1>5. Numbered'
  <2>1. \A x \in Results : x > queued => fired'[x] = fired[x]
      BY <1>1, <1>3 DEF IInv, TypeOK, Results
  <2> QED
      BY <2>1, <1>2, <1>3 DEF IInv, Numbered, engine
<1>6. OneHolder'
    BY <1>1, <1>2, <1>3 DEF IInv, OneHolder, engine
<1>7. Unfired'
    BY <1>1, <1>2, <1>3 DEF IInv, TypeOK, Unfired, engine
<1>8. Accounted'
  <2>1. \A x \in 1 .. queued : InHand(x)' <=> InHand(x)
      BY <1>1, <1>2, <1>3 DEF InHand, engine
  <2> QED
      BY <2>1, <1>2 DEF IInv, Accounted
<1>9. Phased' /\ DueAhead' /\ Telling'
    BY <1>2, <1>3 DEF IInv, Phased, DueAhead, Telling, engine
<1> QED
    BY <1>4, <1>5, <1>6, <1>7, <1>8, <1>9 DEF IInv

(* Freeing a completion when its delegate returns preserves it.              *)
LEMMA ReturnInv ==
    ASSUME IInv, Return
    PROVE  IInv'
<1>1. /\ calling' = Nobody /\ calling'.what = "nobody"
      /\ UNCHANGED <<engine, phase, todo, event, ready, fired, queued, events>>
    BY DEF Return, Nobody
<1>2. CASE calling.what = "result"
  <2> DEFINE r == calling.n
  <2>1. /\ r \in Results /\ r <= queued
        /\ \A o \in Owners : r \notin queue[o] \cup ready[o]
        /\ freed' = [freed EXCEPT ![r] = @ + 1]
      BY <1>2 DEF IInv, OneHolder, Return
  <2>2. r \in 1 .. queued
      BY <2>1 DEF IInv, TypeOK, Results
  <2>3. freed[r] = 0
      BY <2>2, <1>2 DEF IInv, Accounted, InHand
  <2>4. TypeOK'
    <3>1. freed' \in [Results -> 0 .. 1]
        BY <2>1, <2>3 DEF IInv, TypeOK
    <3> QED
        BY <3>1, <1>1 DEF IInv, TypeOK, Nobody, engine
  <2>5. Numbered'
      BY <1>1, <2>1 DEF IInv, TypeOK, Numbered, Results, engine
  <2>6. OneHolder' /\ Unfired' /\ Phased' /\ DueAhead' /\ Telling'
      BY <1>1 DEF IInv, OneHolder, Unfired, Phased, DueAhead, Telling, engine
  <2>7. Accounted'
    <3> SUFFICES ASSUME NEW x \in 1 .. queued
                 PROVE  freed'[x] = IF InHand(x)' THEN 0 ELSE 1
        BY <1>1 DEF Accounted
    <3>1. x \in Results
        BY CallbackAssumption DEF IInv, TypeOK, Results
    <3>2. CASE x = r
      <4>1. ~ InHand(x)'
          BY <3>2, <1>1, <2>1 DEF InHand, engine
      <4>2. freed'[x] = 1
          BY <3>1, <3>2, <2>1, <2>3 DEF IInv, TypeOK
      <4> QED
          BY <4>1, <4>2
    <3>3. CASE x # r
      <4>1. InHand(x)' <=> InHand(x)
          BY <3>3, <1>1 DEF InHand, engine
      <4> QED
          BY <3>1, <3>3, <4>1, <2>1 DEF IInv, TypeOK, Accounted
    <3> QED
        BY <3>2, <3>3
  <2> QED
      BY <2>4, <2>5, <2>6, <2>7 DEF IInv
<1>3. CASE calling.what # "result"
  <2>1. UNCHANGED freed
      BY <1>3 DEF Return
  <2>2. TypeOK'
      BY <2>1, <1>1 DEF IInv, TypeOK, Nobody, engine
  <2>3. Numbered' /\ OneHolder' /\ Unfired' /\ Phased' /\ DueAhead' /\ Telling'
      BY <2>1, <1>1
      DEF IInv, Numbered, OneHolder, Unfired, Phased, DueAhead, Telling, engine
  <2>4. Accounted'
      BY <2>1, <1>1, <1>3 DEF IInv, Accounted, InHand, engine
  <2> QED
      BY <2>2, <2>3, <2>4 DEF IInv
<1> QED
    BY <1>2, <1>3

(* The end of the tick preserves it.                                         *)
LEMMA EndTickInv ==
    ASSUME IInv, EndTick
    PROVE  IInv'
<1>1. /\ phase' = "idle" /\ calling = Nobody
      /\ \A o \in Owners : ready[o] = {}
      /\ UNCHANGED <<engine, todo, event, ready, calling, counts>>
    BY DEF EndTick
<1>2. TypeOK'
    BY <1>1 DEF IInv, TypeOK, engine, counts
<1>3. UNCHANGED Completions
    BY <1>1 DEF engine, counts, Completions
<1>4. Phased' /\ Telling'
    BY <1>1 DEF IInv, Phased, Telling, Nobody, engine
<1> QED
    BY <1>2, <1>3, <1>4, CompletionsKept DEF IInv

(* So does a step that changes nothing.                                      *)
LEMMA StutterInv ==
    ASSUME IInv, UNCHANGED vars
    PROVE  IInv'
<1>1. TypeOK'
    BY DEF IInv, TypeOK, vars, engine, ticking, counts
<1>2. UNCHANGED Completions /\ UNCHANGED <<created, notes, next_id, event, phase>>
    BY DEF vars, engine, ticking, counts, Completions
<1>3. Phased' /\ Telling'
    BY <1>2 DEF IInv, Phased, Telling, Completions
<1> QED
    BY <1>1, <1>2, <1>3, CompletionsKept DEF IInv

(* The invariant is inductive: every step of callback_manager preserves it.  *)
LEMMA NextInv == IInv /\ [Next]_vars => IInv'
<1> SUFFICES ASSUME IInv, [Next]_vars PROVE IInv'
    OBVIOUS
<1>1. CASE Call
    BY <1>1, AddCallbackInv, AddNotificationInv, RemoveNotificationInv, ReleaseInv DEF Call
<1>2. CASE Tick
    BY <1>2, StartTickInv, RunFrameInv, FireNotificationInv, SkipNotificationInv, EndEventInv,
       CollectInv, FireResultInv, ReturnInv, EndTickInv DEF Tick
<1>3. CASE UNCHANGED vars
    BY <1>3, StutterInv
<1> QED
    BY <1>1, <1>2, <1>3 DEF Next

(* The inductive invariant holds in every reachable state of the manager.    *)
THEOREM Invariance == Spec => []IInv
BY InitInv, NextInv, PTL DEF Spec

-----------------------------------------------------------------------------
(* The types hold, and with them: no completion is fired twice or freed       *)
(* twice.                                                                  *)
THEOREM TypeCorrect == Spec => []TypeOK
<1>1. IInv => TypeOK
    BY DEF IInv
<1> QED
    BY <1>1, Invariance, PTL

(* Every completion is freed once nothing holds it, and not before, however   *)
(* calls, ticks and a release in the middle of one follow each other.       *)
THEOREM EveryResultAccounted == Spec => []Accounted
<1>1. IInv => Accounted
    BY DEF IInv
<1> QED
    BY <1>1, Invariance, PTL

(* An event reaches every notification that was there and still is.          *)
THEOREM EventReachesEveryone == Spec => []EveryoneTold
<1>1. IInv => EveryoneTold
    BY DEF IInv, Telling, EveryoneTold
<1> QED
    BY <1>1, Invariance, PTL

(* Whoever removes a notification does not hear from it again.               *)
THEOREM RemovalIsFinal == Spec => RemovedStaySilent
<1> DEFINE A == \A o \in Owners, id \in Ids :
                   calling' = [what |-> "note", owner |-> o, n |-> id] /\ calling = Nobody
                       => id \in notes[o]
<1>1. Next => A
  <2> SUFFICES ASSUME Next, NEW o \in Owners, NEW id \in Ids,
                      calling' = [what |-> "note", owner |-> o, n |-> id], calling = Nobody
               PROVE  id \in notes[o]
      OBVIOUS
  <2>1. calling'.what = "note" /\ calling'.owner = o /\ calling'.n = id
      OBVIOUS
  <2>2. calling' # calling /\ calling'.what \notin {"result", "nobody"}
      BY <2>1 DEF Nobody
  <2>3. FireNotification
      BY <2>2 DEF Next, Call, Tick, AddCallback, AddNotification, RemoveNotification, Release,
         StartTick, RunFrame, SkipNotification, EndEvent, Collect, FireResult, Return, EndTick,
         ticking, Nobody
  <2> QED
      BY <2>3, <2>1 DEF FireNotification, Find
<1>2. [Next]_vars => [A]_vars
    BY <1>1
<1> QED
    BY <1>2, PTL DEF Spec, RemovedStaySilent

(* Completions that are done are delivered in the order of their queueing.    *)
THEOREM DeliveredInOrder == Spec => InOrder
<1> DEFINE A == \A o \in Owners, r \in Results :
                   calling' = [what |-> "result", owner |-> o, n |-> r] /\ calling = Nobody
                       => \A m \in (queue[o] \cup ready[o]) \ later : r \notin later => r <= m
<1>1. IInv /\ Next => A
  <2> SUFFICES ASSUME IInv, Next, NEW o \in Owners, NEW r \in Results,
                      calling' = [what |-> "result", owner |-> o, n |-> r], calling = Nobody,
                      NEW m \in (queue[o] \cup ready[o]) \ later
               PROVE  r <= m
      OBVIOUS
  <2>1. calling'.what = "result" /\ calling'.owner = o /\ calling'.n = r
      OBVIOUS
  <2>2. calling' # calling /\ calling'.what \notin {"note", "nobody"}
      BY <2>1 DEF Nobody
  <2>3. FireResult
      BY <2>2 DEF Next, Call, Tick, AddCallback, AddNotification, RemoveNotification, Release,
         StartTick, RunFrame, FireNotification, SkipNotification, EndEvent, Collect, Return,
         EndTick, ticking, Nobody
  <2>4. r \in ready[o] /\ \A x \in ready[o] : r <= x
      BY <2>3, <2>1 DEF FireResult, NextReady, IsFirst
  <2>5. r \in Nat /\ m \in Nat
      BY DEF IInv, TypeOK, Results
  <2> QED
      BY <2>4, <2>5 DEF IInv, DueAhead
<1>2. IInv /\ [Next]_vars => [A]_vars
    BY <1>1
<1> QED
    BY <1>2, Invariance, PTL DEF Spec, InOrder
-----------------------------------------------------------------------------
(* TraceSink: numbers, and functions over them.                               *)

(* What holds first and is passed on holds up to the end.                      *)
LEMMA Upwards ==
    ASSUME NEW m \in Nat, NEW G \in SUBSET Nat, 0 \in G,
           \A n \in 0 .. m - 1 : n \in G => n + 1 \in G
    PROVE  \A n \in 0 .. m : n \in G
<1> DEFINE Bad == {n \in 0 .. m : n \notin G}
           R == {ss \in Nat \X Nat : ss[1] < ss[2]}
<1> SUFFICES ASSUME Bad # {} PROVE FALSE
    OBVIOUS
<1>1. PICK x \in Bad : \A y \in Bad : x =< y
    <2>1. IsWellFoundedOn(R, Nat)
        BY NatLessThanWellFounded DEF OpToRel
    <2>2. Bad \in SUBSET Nat
        OBVIOUS
    <2> HIDE DEF Bad
    <2>3. \E x \in Bad : \A y \in Bad : ~ (<<y, x>> \in R)
        <3> HIDE DEF R
        <3> QED
            BY <2>1, <2>2, WFMin
    <2>4. PICK x \in Bad : \A y \in Bad : ~ (<<y, x>> \in R)
        BY <2>3
    <2>5. ASSUME NEW y \in Bad
          PROVE  x =< y
        <3>1. x \in Nat /\ y \in Nat
            BY <2>2
        <3>2. ~ (<<y, x>> \in R)
            <4> HIDE DEF R
            <4> QED
                BY <2>4
        <3> QED
            BY <3>1, <3>2
    <2> QED
        BY <2>5
<1>2. x \in Nat /\ x # 0 /\ x - 1 \in 0 .. m - 1 /\ x - 1 \notin Bad
    BY <1>1
<1>3. x - 1 \in G
    BY <1>2
<1>4. (x - 1) + 1 \in G
    BY <1>2, <1>3
<1> QED
    BY <1>1, <1>2, <1>4

(* f goes from b over the numbers up to m.                                    *)
Goes(f, m, V, b, step) ==
    /\ f \in [0 .. m -> V]
    /\ f[0] = b
    /\ \A n \in 1 .. m : f[n] = step[n][f[n - 1]]

(* There is such a function.                                                *)
LEMMA Recursion ==
    ASSUME NEW m \in Nat, NEW V, NEW b \in V, NEW step,
           \A n \in 1 .. m : \A x \in V : step[n][x] \in V
    PROVE  \E f : Goes(f, m, V, b, step)
<1> DEFINE To(k, f) == /\ f \in [0 .. k -> V] /\ f[0] = b
                       /\ \A n \in 1 .. k : f[n] = step[n][f[n - 1]]
           Has(k) == \E f \in [0 .. k -> V] : To(k, f)
           G == {k \in Nat : Has(k)}
<1>1. 0 \in G
    <2> DEFINE f == [i \in 0 .. 0 |-> b]
    <2>1. To(0, f)
        OBVIOUS
    <2> QED
        BY <2>1
<1>2. ASSUME NEW k \in 0 .. m - 1, k \in G
      PROVE  k + 1 \in G
    <2>1. PICK f \in [0 .. k -> V] : To(k, f)
        BY <1>2
    <2> DEFINE g == [i \in 0 .. k + 1 |-> IF i = k + 1 THEN step[k + 1][f[k]] ELSE f[i]]
    <2>2. k \in Nat /\ k + 1 \in 1 .. m /\ f[k] \in V
        BY <2>1
    <2>4. step[k + 1][f[k]] \in V
        BY <2>2
    <2>5. g \in [0 .. k + 1 -> V]
        BY <2>1, <2>2, <2>4
    <2>6. g[0] = b
        BY <2>1, <2>2
    <2>7. ASSUME NEW n \in 1 .. k + 1
          PROVE  g[n] = step[n][g[n - 1]]
        <3>1. CASE n = k + 1
            BY <2>2, <3>1
        <3>2. CASE n # k + 1
            BY <2>1, <2>2, <3>2
        <3> QED
            BY <3>1, <3>2
    <2>8. To(k + 1, g)
        BY <2>5, <2>6, <2>7
    <2> HIDE DEF g, To
    <2>9. Has(k + 1)
        BY <2>5, <2>8
    <2> HIDE DEF Has
    <2> QED
        BY <2>2, <2>9
<1>3. G \in SUBSET Nat
    OBVIOUS
<1>4. m \in G
    <2> HIDE DEF G
    <2>1. \A n \in 0 .. m : n \in G
        BY <1>1, <1>2, <1>3, Upwards
    <2> QED
        BY <2>1
<1> QED
    BY <1>4 DEF Goes

-----------------------------------------------------------------------------
(* Sizes.                                                                 *)

Lines == [seq : Nat, size : Nat, lost : Nat]

(* f sums up the lines one by one.                                           *)
Sums(f, lines) ==
    /\ f \in [0 .. Len(lines) -> Nat]
    /\ f[0] = 0
    /\ \A n \in 1 .. Len(lines) : f[n] = f[n - 1] + lines[n].size

LEMMA LineAt ==
    ASSUME NEW s \in Seq(Lines), NEW n \in 1 .. Len(s)
    PROVE  s[n] \in Lines /\ s[n].size \in Nat
<1>1. s[n] \in Lines
    BY ElementOfSeq
<1> QED
    BY <1>1 DEF Lines

LEMMA SumsExist ==
    ASSUME NEW s \in Seq(Lines)
    PROVE  \E f : Sums(f, s)
<1> DEFINE m == Len(s)
           step == [n \in 1 .. m |-> [x \in Nat |-> x + s[n].size]]
<1>1. \A n \in 1 .. m : s[n].size \in Nat
    BY LineAt
<1>2. \A n \in 1 .. m : \A x \in Nat : step[n][x] \in Nat
    BY <1>1
<1>3. m \in Nat
    OBVIOUS
<1>4. PICK f \in [0 .. m -> Nat] :
          f[0] = 0 /\ \A n \in 1 .. m : f[n] = step[n][f[n - 1]]
    <2> DEFINE V == Nat  b == 0
    <2>1. b \in V /\ \A n \in 1 .. m : \A x \in V : step[n][x] \in V
        BY <1>2
    <2>2. \E f : Goes(f, m, V, b, step)
        <3> HIDE DEF step, m, V, b
        <3> QED
            BY <1>3, <2>1, Recursion
    <2> QED
        BY <2>2 DEF Goes
<1>5. ASSUME NEW n \in 1 .. Len(s)
      PROVE  f[n] = f[n - 1] + s[n].size
    <2>1. f[n - 1] \in Nat
        BY <1>3
    <2> QED
        BY <1>4, <2>1
<1> QED
    BY <1>4, <1>5 DEF Sums

(* Two functions that start alike and go on alike are alike.                  *)
LEMMA SumsUnique ==
    ASSUME NEW s, Len(s) \in Nat, NEW m \in 0 .. Len(s), NEW f, NEW g, f[0] = 0, g[0] = 0,
           \A n \in 1 .. m : f[n] = f[n - 1] + s[n].size,
           \A n \in 1 .. m : g[n] = g[n - 1] + s[n].size
    PROVE  \A n \in 0 .. m : f[n] = g[n]
<1> DEFINE G == {k \in 0 .. m : f[k] = g[k]}
<1>1. 0 \in G
    OBVIOUS
<1>2. ASSUME NEW k \in 0 .. m - 1, k \in G
      PROVE  k + 1 \in G
    <2>1. k + 1 \in 1 .. m /\ (k + 1) - 1 = k
        OBVIOUS
    <2>2. f[k + 1] = f[k] + s[k + 1].size /\ g[k + 1] = g[k] + s[k + 1].size
        BY <2>1
    <2> QED
        BY <1>2, <2>1, <2>2
<1>3. G \in SUBSET Nat /\ m \in Nat
    OBVIOUS
<1>4. \A n \in 0 .. m : n \in G
    <2> HIDE DEF G
    <2> QED
        BY <1>1, <1>2, <1>3, Upwards
<1> QED
    BY <1>4

LEMMA BytesSum ==
    ASSUME NEW s \in Seq(Lines), NEW f, Sums(f, s)
    PROVE  Bytes(s) = f[Len(s)]
<1> DEFINE F(h) == [n \in 0 .. Len(s) |-> IF n = 0 THEN 0 ELSE h[n - 1] + s[n].size]
           sum == CHOOSE h : h = F(h)
<1>1. Bytes(s) = sum[Len(s)]
    BY DEF Bytes
<1>2. f = F(f)
    BY DEF Sums
<1>3. sum = F(sum)
    <2> HIDE DEF F
    <2> QED
        BY <1>2
<1>4. Len(s) \in Nat
    OBVIOUS
<1> HIDE DEF sum
<1>5. sum[0] = 0
    BY <1>3, <1>4
<1>6. \A n \in 1 .. Len(s) : sum[n] = sum[n - 1] + s[n].size
    BY <1>3, <1>4
<1>7. f[Len(s)] = sum[Len(s)]
    <2>1. f[0] = 0 /\ \A n \in 1 .. Len(s) : f[n] = f[n - 1] + s[n].size
        BY DEF Sums
    <2>2. Len(s) \in 0 .. Len(s)
        BY <1>4
    <2> QED
        BY <1>4, <1>5, <1>6, <2>1, <2>2, SumsUnique
<1> QED
    BY <1>1, <1>7

(* What a line adds, and what a part of a file can be at most.                *)
LEMMA BytesEmpty ==
    ASSUME NEW s \in Seq(Lines), Len(s) = 0
    PROVE  Bytes(s) = 0
<1>1. PICK f : Sums(f, s)
    BY SumsExist
<1> QED
    BY <1>1, BytesSum DEF Sums

LEMMA BytesNat ==
    ASSUME NEW s \in Seq(Lines)
    PROVE  Bytes(s) \in Nat
<1>1. PICK f : Sums(f, s)
    BY SumsExist
<1>2. Len(s) \in 0 .. Len(s)
    OBVIOUS
<1> QED
    BY <1>1, <1>2, BytesSum DEF Sums

LEMMA BytesAppend ==
    ASSUME NEW s \in Seq(Lines), NEW line \in Lines
    PROVE  Bytes(Append(s, line)) = Bytes(s) + line.size
<1> DEFINE l == Append(s, line)
<1>1. /\ Len(s) \in Nat /\ l \in Seq(Lines) /\ Len(l) = Len(s) + 1
      /\ \A i \in 1 .. Len(s) : l[i] = s[i]
      /\ l[Len(s) + 1] = line
    BY AppendProperties
<1> HIDE DEF l
<1>2. PICK f : Sums(f, l)
    BY <1>1, SumsExist
<1>3. PICK g : Sums(g, s)
    BY SumsExist
<1>4. \A n \in 1 .. Len(s) : f[n] = f[n - 1] + s[n].size
    BY <1>1, <1>2 DEF Sums
<1>5. f[Len(s)] = g[Len(s)]
    <2>1. f[0] = 0 /\ g[0] = 0 /\ \A n \in 1 .. Len(s) : g[n] = g[n - 1] + s[n].size
        BY <1>2, <1>3 DEF Sums
    <2>2. Len(s) \in 0 .. Len(s)
        BY <1>1
    <2> QED
        BY <1>1, <1>4, <2>1, <2>2, SumsUnique
<1>6. f[Len(s) + 1] = f[Len(s)] + line.size
    <2>1. Len(s) + 1 \in 1 .. Len(l) /\ (Len(s) + 1) - 1 = Len(s)
        BY <1>1
    <2> QED
        BY <1>1, <1>2, <2>1 DEF Sums
<1>7. Bytes(l) = f[Len(s) + 1] /\ Bytes(s) = g[Len(s)]
    BY <1>1, <1>2, <1>3, BytesSum
<1> QED
    BY <1>5, <1>6, <1>7 DEF l

LEMMA BytesOfFirst ==
    ASSUME NEW s \in Seq(Lines), NEW m \in 0 .. Len(s)
    PROVE  Bytes(SubSeq(s, 1, m)) =< Bytes(s)
<1> DEFINE l == SubSeq(s, 1, m)
<1>1. /\ Len(s) \in Nat /\ l \in Seq(Lines) /\ Len(l) = m /\ m \in Nat
      /\ \A i \in 1 .. m : l[i] = s[i]
    BY SubSeqProperties
<1> HIDE DEF l
<1>2. PICK f : Sums(f, l)
    BY <1>1, SumsExist
<1>3. PICK g : Sums(g, s)
    BY SumsExist
<1>4. f[m] = g[m]
    <2>1. \A n \in 1 .. m : f[n] = f[n - 1] + s[n].size
        BY <1>1, <1>2 DEF Sums
    <2>2. \A n \in 1 .. m : g[n] = g[n - 1] + s[n].size
        BY <1>1, <1>3 DEF Sums
    <2>3. f[0] = 0 /\ g[0] = 0 /\ m \in 0 .. m
        BY <1>1, <1>2, <1>3 DEF Sums
    <2> QED
        BY <1>1, <2>1, <2>2, <2>3, SumsUnique
<1>5. g[m] =< g[Len(s)]
    <2> DEFINE G == {k \in Nat : m + k =< Len(s) => g[m] =< g[m + k]}
    <2>1. 0 \in G
        BY <1>1, <1>3 DEF Sums
    <2>2. ASSUME NEW k \in 0 .. (Len(s) - m) - 1, k \in G
          PROVE  k + 1 \in G
        <3>1. (m + k) + 1 \in 1 .. Len(s) /\ ((m + k) + 1) - 1 = m + k /\ m + k \in 0 .. Len(s)
            BY <1>1
        <3>2. g[(m + k) + 1] = g[m + k] + s[(m + k) + 1].size
            BY <1>3, <3>1 DEF Sums
        <3>3. s[(m + k) + 1].size \in Nat
            BY <3>1, LineAt
        <3>4. g[m] \in Nat /\ g[m + k] \in Nat /\ g[m] =< g[m + k]
            BY <1>1, <1>3, <2>2, <3>1 DEF Sums
        <3> QED
            BY <1>1, <3>2, <3>3, <3>4
    <2>3. Len(s) - m \in G
        <3> DEFINE d == Len(s) - m
        <3>1. G \in SUBSET Nat /\ d \in Nat /\ d \in 0 .. d
            BY <1>1
        <3>2. \A k \in 0 .. d - 1 : k \in G => k + 1 \in G
            BY <2>2
        <3> HIDE DEF G, d
        <3>3. d \in G
            BY <2>1, <3>1, <3>2, Upwards
        <3> QED
            BY <3>3 DEF d
    <2>4. m + (Len(s) - m) = Len(s)
        BY <1>1
    <2> QED
        BY <1>1, <2>3, <2>4
<1>6. Bytes(l) = f[m] /\ Bytes(s) = g[Len(s)]
    BY <1>1, <1>2, <1>3, BytesSum
<1> QED
    BY <1>4, <1>5, <1>6 DEF l

-----------------------------------------------------------------------------
(* The log a sink keeps.                                                    *)

Numbers == 0 .. Rotated + 1

SinkType ==
    [files : [Numbers -> Seq(Lines)], sizes : Seq(Nat), buffer : Seq(Lines),
     current : Nat, seq : Nat, disabled : BOOLEAN, pending : BOOLEAN]

(* What Kept says of a sink.                                                  *)
KeptOf(s) ==
    LET lines[k \in 0 .. Rotated + 1] ==
          IF k = 0 THEN s.files[0] \o s.buffer ELSE s.files[k] \o lines[k - 1]
    IN  lines[Rotated + 1]

(* f joins the files of a sink, the newer to the older; what matters of the   *)
(* sink are its files beyond the live one, and live, what is in that and in  *)
(* the buffer.                                                             *)
Joins(f, files, live) ==
    /\ f \in [Numbers -> Seq(Lines)]
    /\ f[0] = live
    /\ \A k \in 1 .. Rotated + 1 : f[k] = files[k] \o f[k - 1]

LEMMA Limits == Rotated \in Nat /\ MaxBytes \in Nat /\ MetaSize \in Nat /\ MetaSize =< MaxBytes
    BY TraceAssumption

LEMMA SinkParts ==
    ASSUME NEW s \in SinkType
    PROVE  /\ \A k \in Numbers : s.files[k] \in Seq(Lines)
           /\ DOMAIN s.files = Numbers
           /\ s.sizes \in Seq(Nat) /\ s.buffer \in Seq(Lines)
           /\ s.current \in Nat /\ s.seq \in Nat
           /\ 0 \in Numbers /\ Rotated \in Nat
           /\ s.files[0] \o s.buffer \in Seq(Lines)
<1>1. Rotated \in Nat
    BY Limits
<1>2. /\ s.files \in [Numbers -> Seq(Lines)]
      /\ s.sizes \in Seq(Nat) /\ s.buffer \in Seq(Lines)
      /\ s.current \in Nat /\ s.seq \in Nat
    BY DEF SinkType
<1>3. 0 \in Numbers
    BY <1>1 DEF Numbers
<1>4. s.files[0] \o s.buffer \in Seq(Lines)
    <2>1. s.files[0] \in Seq(Lines)
        BY <1>2, <1>3
    <2> QED
        BY <1>2, <2>1, ConcatProperties
<1> QED
    BY <1>1, <1>2, <1>3, <1>4

(* There is such a thing.                                                    *)
LEMMA JoinsExist ==
    ASSUME NEW files, \A k \in 1 .. Rotated + 1 : files[k] \in Seq(Lines), NEW live \in Seq(Lines)
    PROVE  \E f : Joins(f, files, live)
<1> DEFINE m == Rotated + 1
           V == Seq(Lines)
           step == [n \in 1 .. m |-> [x \in V |-> files[n] \o x]]
<1>1. m \in Nat
    BY Limits
<1>2. \A n \in 1 .. m : \A x \in V : step[n][x] \in V
    <2> SUFFICES ASSUME NEW n \in 1 .. m, NEW x \in V PROVE step[n][x] \in V
        OBVIOUS
    <2>1. files[n] \in V
        OBVIOUS
    <2>2. files[n] \o x \in V
        BY <2>1, ConcatProperties
    <2> HIDE DEF V
    <2> QED
        BY <2>2
<1>3. live \in V
    OBVIOUS
<1>4. PICK f : Goes(f, m, V, live, step)
    <2> HIDE DEF m, V, step
    <2> QED
        BY <1>1, <1>2, <1>3, Recursion
<1>5. ASSUME NEW k \in 1 .. Rotated + 1
      PROVE  f[k] = files[k] \o f[k - 1]
    <2>1. k \in 1 .. m /\ k - 1 \in 0 .. m
        BY <1>1
    <2> HIDE DEF m, V
    <2>2. f[k - 1] \in V /\ f[k] = step[k][f[k - 1]]
        <3> HIDE DEF step
        <3> QED
            BY <1>4, <2>1 DEF Goes
    <2> QED
        BY <2>1, <2>2
<1>6. f \in [Numbers -> Seq(Lines)] /\ f[0] = live
    <2> HIDE DEF step
    <2> QED
        BY <1>4 DEF Goes, Numbers
<1>7. Joins(f, files, live)
    <2> HIDE DEF m, V, step
    <2> QED
        BY <1>5, <1>6 DEF Joins
<1> QED
    BY <1>7

(* What joins files is one thing.                                           *)
LEMMA JoinsUnique ==
    ASSUME NEW files, NEW f, NEW g, f[0] = g[0],
           \A k \in 1 .. Rotated + 1 : f[k] = files[k] \o f[k - 1],
           \A k \in 1 .. Rotated + 1 : g[k] = files[k] \o g[k - 1]
    PROVE  f[Rotated + 1] = g[Rotated + 1]
<1> DEFINE m == Rotated + 1
           G == {k \in 0 .. m : f[k] = g[k]}
<1>1. m \in Nat
    BY Limits
<1>2. 0 \in G
    BY <1>1
<1>3. ASSUME NEW k \in 0 .. m - 1, k \in G
      PROVE  k + 1 \in G
    <2>1. k + 1 \in 1 .. Rotated + 1 /\ (k + 1) - 1 = k /\ k + 1 \in 0 .. m
        BY <1>1
    <2>2. f[k + 1] = files[k + 1] \o f[k] /\ g[k + 1] = files[k + 1] \o g[k]
        BY <2>1
    <2>3. f[k] = g[k]
        BY <1>3
    <2>4. f[k + 1] = g[k + 1]
        BY <2>2, <2>3
    <2> QED
        BY <2>1, <2>4
<1>4. G \in SUBSET Nat /\ m \in 0 .. m
    BY <1>1
<1>5. m \in G
    <2> HIDE DEF G, m
    <2> QED
        BY <1>1, <1>2, <1>3, <1>4, Upwards
<1> QED
    BY <1>5

LEMMA KeptJoins ==
    ASSUME NEW s \in SinkType, NEW f, Joins(f, s.files, s.files[0] \o s.buffer)
    PROVE  KeptOf(s) = f[Rotated + 1]
<1> DEFINE files == s.files
           live == s.files[0] \o s.buffer
           F(h) == [k \in 0 .. Rotated + 1 |-> IF k = 0 THEN live ELSE files[k] \o h[k - 1]]
           lines == CHOOSE h : h = F(h)
<1>1. KeptOf(s) = lines[Rotated + 1]
    BY DEF KeptOf
<1>2. Joins(f, files, live)
    OBVIOUS
<1>3. Rotated \in Nat
    BY Limits
<1> HIDE DEF files, live
<1>4. f = F(f)
    <2>1. DOMAIN f = 0 .. Rotated + 1
        BY <1>2 DEF Joins, Numbers
    <2>2. \A k \in 0 .. Rotated + 1 : f[k] = F(f)[k]
        <3> SUFFICES ASSUME NEW k \in 0 .. Rotated + 1 PROVE f[k] = F(f)[k]
            OBVIOUS
        <3>1. CASE k = 0
            BY <1>2, <3>1 DEF Joins
        <3>2. CASE k # 0
            <4>1. k \in 1 .. Rotated + 1
                BY <1>3, <3>2
            <4> QED
                BY <1>2, <3>2, <4>1 DEF Joins
        <3> QED
            BY <3>1, <3>2
    <2>3. f = [k \in 0 .. Rotated + 1 |-> f[k]]
        BY <1>2 DEF Joins, Numbers
    <2> QED
        BY <2>1, <2>2, <2>3
<1>5. lines = F(lines)
    <2> HIDE DEF F
    <2> QED
        BY <1>4
<1> HIDE DEF lines
<1>6. lines[0] = live
    BY <1>3, <1>5
<1>7. \A k \in 1 .. Rotated + 1 : lines[k] = files[k] \o lines[k - 1]
    BY <1>3, <1>5
<1>8. lines[Rotated + 1] = f[Rotated + 1]
    <2>1. f[0] = live /\ \A k \in 1 .. Rotated + 1 : f[k] = files[k] \o f[k - 1]
        BY <1>2 DEF Joins
    <2> QED
        BY <1>6, <1>7, <2>1, JoinsUnique
<1> QED
    BY <1>1, <1>8

LEMMA KeptIs ==
    ASSUME NEW s \in SinkType
    PROVE  /\ \E f : Joins(f, s.files, s.files[0] \o s.buffer)
           /\ KeptOf(s) \in Seq(Lines)
<1>1. \A k \in 1 .. Rotated + 1 : s.files[k] \in Seq(Lines)
    BY SinkParts DEF Numbers
<1>2. PICK f : Joins(f, s.files, s.files[0] \o s.buffer)
    BY <1>1, SinkParts, JoinsExist
<1>3. KeptOf(s) = f[Rotated + 1]
    BY <1>2, KeptJoins
<1>4. Rotated + 1 \in Numbers
    BY Limits DEF Numbers
<1> QED
    BY <1>2, <1>3, <1>4 DEF Joins

(* The live file with what is buffered for it.                                *)
Live(s) == s.files[0] \o s.buffer

(* What is added to the live file or the buffer is added to the log.          *)
LEMMA KeptMore ==
    ASSUME NEW s \in SinkType, NEW t \in SinkType, NEW tail \in Seq(Lines),
           \A k \in 1 .. Rotated + 1 : t.files[k] = s.files[k],
           Live(t) = Live(s) \o tail
    PROVE  KeptOf(t) = KeptOf(s) \o tail
<1>1. PICK f : Joins(f, s.files, Live(s))
    BY KeptIs DEF Live
<1> DEFINE g == [k \in Numbers |-> f[k] \o tail]
<1>2. \A k \in Numbers : f[k] \in Seq(Lines) /\ f[k] \o tail \in Seq(Lines)
    <2> SUFFICES ASSUME NEW k \in Numbers
                 PROVE  f[k] \in Seq(Lines) /\ f[k] \o tail \in Seq(Lines)
        OBVIOUS
    <2>1. f[k] \in Seq(Lines)
        BY <1>1 DEF Joins
    <2> QED
        BY <2>1, ConcatProperties
<1>3. Rotated \in Nat
    BY Limits
<1>4. ASSUME NEW k \in 1 .. Rotated + 1
      PROVE  g[k] = t.files[k] \o g[k - 1]
    <2>1. k \in Numbers /\ k - 1 \in Numbers
        BY <1>3 DEF Numbers
    <2>2. f[k] = s.files[k] \o f[k - 1]
        BY <1>1 DEF Joins
    <2>3. (s.files[k] \o f[k - 1]) \o tail = s.files[k] \o (f[k - 1] \o tail)
        <3> DEFINE a == s.files[k]  b == f[k - 1]
        <3>1. a \in Seq(Lines) /\ b \in Seq(Lines)
            BY <1>2, <2>1, SinkParts
        <3> HIDE DEF a, b
        <3>2. (a \o b) \o tail = a \o (b \o tail)
            BY <3>1, ConcatAssociative
        <3> QED
            BY <3>2 DEF a, b
    <2>4. t.files[k] = s.files[k]
        OBVIOUS
    <2>5. g[k] = f[k] \o tail /\ g[k - 1] = f[k - 1] \o tail
        BY <2>1
    <2> HIDE DEF g
    <2> QED
        BY <2>2, <2>3, <2>4, <2>5
<1>5. g[0] = Live(t)
    <2>1. f[0] = Live(s)
        BY <1>1 DEF Joins
    <2>2. 0 \in Numbers
        BY <1>3 DEF Numbers
    <2>3. g[0] = f[0] \o tail
        BY <2>2
    <2> HIDE DEF g
    <2> QED
        BY <2>1, <2>3
<1>6. Joins(g, t.files, Live(t))
    <2>1. g \in [Numbers -> Seq(Lines)]
        BY <1>2
    <2> HIDE DEF g
    <2> QED
        BY <1>4, <1>5, <2>1 DEF Joins
<1>7. Rotated + 1 \in Numbers
    BY <1>3 DEF Numbers
<1>8. g[Rotated + 1] = f[Rotated + 1] \o tail
    BY <1>7
<1> HIDE DEF g
<1> QED
    BY <1>1, <1>6, <1>8, KeptJoins DEF Live

LEMMA KeptSame ==
    ASSUME NEW s \in SinkType, NEW t \in SinkType,
           \A k \in 1 .. Rotated + 1 : t.files[k] = s.files[k],
           Live(t) = Live(s)
    PROVE  KeptOf(t) = KeptOf(s)
<1> DEFINE none == <<>>
<1>1. none \in Seq(Lines)
    OBVIOUS
<1>2. Live(s) \in Seq(Lines) /\ KeptOf(s) \in Seq(Lines)
    BY SinkParts, KeptIs DEF Live
<1>3. Live(s) \o none = Live(s) /\ KeptOf(s) \o none = KeptOf(s)
    BY <1>2, ConcatEmptySeq
<1> HIDE DEF none
<1>4. KeptOf(t) = KeptOf(s) \o none
    BY <1>1, <1>3, KeptMore
<1> QED
    BY <1>3, <1>4

(* What is a part of the live file is a part of the log.                      *)
LEMMA KeptLess ==
    ASSUME NEW s \in SinkType, NEW t \in SinkType, NEW rest \in Seq(Lines),
           \A k \in 1 .. Rotated + 1 : t.files[k] = s.files[k],
           Live(s) = Live(t) \o rest
    PROVE  /\ Len(KeptOf(t)) \in 0 .. Len(KeptOf(s))
           /\ KeptOf(t) = SubSeq(KeptOf(s), 1, Len(KeptOf(t)))
<1>1. KeptOf(s) = KeptOf(t) \o rest
    BY KeptMore
<1>2. KeptOf(t) \in Seq(Lines) /\ KeptOf(s) \in Seq(Lines)
    BY KeptIs
<1>3. Len(KeptOf(t) \o rest) = Len(KeptOf(t)) + Len(rest) /\ Len(rest) \in Nat
      /\ Len(KeptOf(t)) \in Nat
    BY <1>2, ConcatProperties, LenProperties
<1>4. SubSeq(KeptOf(t) \o rest, 1, Len(KeptOf(t))) = KeptOf(t)
    BY <1>2, ConcatSimplifications
<1> QED
    BY <1>1, <1>3, <1>4

(* From the last file on there is nothing more.                              *)
LEMMA KeptUpTo ==
    ASSUME NEW s \in SinkType, NEW f, Joins(f, s.files, Live(s)), NEW n \in Numbers,
           \A k \in n + 1 .. Rotated + 1 : s.files[k] = <<>>
    PROVE  KeptOf(s) = f[n] /\ \A k \in n .. Rotated + 1 : f[k] = f[n]
<1> DEFINE h == [k \in Numbers |-> IF n =< k THEN f[n] ELSE f[k]]
<1>1. Rotated \in Nat /\ n \in Nat /\ n =< Rotated + 1
    BY Limits DEF Numbers
<1>2. f[n] \in Seq(Lines) /\ f \in [Numbers -> Seq(Lines)]
    BY DEF Joins
<1>3. h \in [Numbers -> Seq(Lines)]
    BY <1>2
<1>4. h[0] = Live(s)
    BY <1>1 DEF Joins, Numbers
<1>5. ASSUME NEW k \in 1 .. Rotated + 1
      PROVE  h[k] = s.files[k] \o h[k - 1]
    <2>1. k \in Numbers /\ k - 1 \in Numbers
        BY <1>1 DEF Numbers
    <2>2. f[k] = s.files[k] \o f[k - 1]
        BY DEF Joins
    <2>3. CASE n < k
        <3>1. s.files[k] = <<>> /\ n =< k - 1 /\ n =< k
            BY <1>1, <2>3
        <3>2. <<>> \o f[n] = f[n]
            BY <1>2, ConcatEmptySeq
        <3>3. h[k] = f[n] /\ h[k - 1] = f[n]
            BY <2>1, <3>1
        <3> HIDE DEF h
        <3> QED
            BY <3>1, <3>2, <3>3
    <2>4. CASE n = k
        <3>1. ~ (n =< k - 1)
            BY <1>1, <2>4
        <3>2. h[k] = f[k] /\ h[k - 1] = f[k - 1]
            BY <2>1, <2>4, <3>1
        <3> HIDE DEF h
        <3> QED
            BY <2>2, <3>2
    <2>5. CASE k < n
        <3>1. ~ (n =< k - 1) /\ ~ (n =< k)
            BY <1>1, <2>5
        <3>2. h[k] = f[k] /\ h[k - 1] = f[k - 1]
            BY <2>1, <3>1
        <3> HIDE DEF h
        <3> QED
            BY <2>2, <3>2
    <2> HIDE DEF h
    <2>6. n < k \/ n = k \/ k < n
        BY <1>1
    <2> QED
        BY <2>3, <2>4, <2>5, <2>6
<1>6. Joins(h, s.files, Live(s))
    <2> HIDE DEF h
    <2> QED
        BY <1>3, <1>4, <1>5 DEF Joins
<1>7. KeptOf(s) = h[Rotated + 1] /\ h[Rotated + 1] = f[n]
    <2>1. Rotated + 1 \in Numbers /\ n =< Rotated + 1
        BY <1>1 DEF Numbers
    <2>2. h[Rotated + 1] = f[n]
        BY <2>1
    <2> HIDE DEF h
    <2> QED
        BY <1>6, <2>2, KeptJoins DEF Live
<1>8. ASSUME NEW k \in n .. Rotated + 1
      PROVE  f[k] = f[n]
    <2> DEFINE m == k - n
               G == {i \in 0 .. m : f[n + i] = f[n]}
    <2>1. m \in Nat /\ 0 \in G /\ n + 0 = n
        BY <1>1
    <2>2. ASSUME NEW i \in 0 .. m - 1, i \in G
          PROVE  i + 1 \in G
        <3>1. (n + i) + 1 \in 1 .. Rotated + 1 /\ ((n + i) + 1) - 1 = n + i
              /\ (n + i) + 1 \in n + 1 .. Rotated + 1 /\ n + (i + 1) = (n + i) + 1
              /\ i + 1 \in 0 .. m
            BY <1>1
        <3>2. f[(n + i) + 1] = s.files[(n + i) + 1] \o f[n + i]
            BY <3>1 DEF Joins
        <3>3. s.files[(n + i) + 1] = <<>>
            BY <3>1
        <3>4. f[n + i] = f[n]
            BY <2>2
        <3>5. <<>> \o f[n] = f[n]
            BY <1>2, ConcatEmptySeq
        <3>6. f[n + (i + 1)] = f[n]
            BY <3>1, <3>2, <3>3, <3>4, <3>5
        <3> QED
            BY <3>1, <3>6
    <2>3. m \in G
        <3>1. G \in SUBSET Nat /\ m \in 0 .. m
            BY <2>1
        <3> HIDE DEF G, m
        <3> QED
            BY <2>1, <2>2, <3>1, Upwards
    <2>4. n + m = k
        BY <1>1
    <2> QED
        BY <2>3, <2>4
<1> QED
    BY <1>7, <1>8

(* Renaming the files from one that is to be empty leaves the log as it was.   *)
LEMMA KeptRenamed ==
    ASSUME NEW s \in SinkType, NEW t \in SinkType, NEW n \in 0 .. Rotated, NEW k \in 0 .. n + 1,
           t.files = Renamed(s.files, k, n), s.buffer = <<>>, t.buffer = <<>>,
           \A i \in n + 1 .. Rotated + 1 : s.files[i] = <<>>
    PROVE  KeptOf(t) = KeptOf(s)
<1>1. PICK f : Joins(f, s.files, Live(s))
    BY KeptIs DEF Live
<1> DEFINE g == [i \in Numbers |-> IF i < k THEN f[i] ELSE IF i = 0 THEN <<>> ELSE f[i - 1]]
<1>2. Rotated \in Nat /\ n \in Nat /\ k \in Nat /\ k =< n + 1 /\ n =< Rotated
    BY Limits
<1>3. \A i \in Numbers : f[i] \in Seq(Lines)
    BY <1>1 DEF Joins
<1>4. \A i \in Numbers : g[i] \in Seq(Lines)
    <2> SUFFICES ASSUME NEW i \in Numbers PROVE g[i] \in Seq(Lines)
        OBVIOUS
    <2>1. i = 0 \/ i - 1 \in Numbers
        BY <1>2 DEF Numbers
    <2>2. <<>> \in Seq(Lines)
        OBVIOUS
    <2> QED
        BY <1>3, <2>1, <2>2
<1>5. \A i \in Numbers : t.files[i] = IF i = k THEN <<>>
                                      ELSE IF k < i /\ i =< n + 1 THEN s.files[i - 1]
                                      ELSE s.files[i]
    <2> SUFFICES ASSUME NEW i \in Numbers
                 PROVE  Renamed(s.files, k, n)[i] =
                            IF i = k THEN <<>> ELSE IF k < i /\ i =< n + 1 THEN s.files[i - 1]
                            ELSE s.files[i]
        OBVIOUS
    <2>1. i \in k + 1 .. n + 1 <=> k < i /\ i =< n + 1
        BY <1>2 DEF Numbers
    <2> QED
        BY <2>1, SinkParts DEF Renamed
<1>6. g[0] = Live(t)
    <2>1. 0 \in Numbers
        BY <1>2 DEF Numbers
    <2>2. CASE k = 0
        <3>1. t.files[0] = <<>> /\ g[0] = <<>>
            BY <1>5, <2>1, <2>2
        <3> QED
            BY <3>1 DEF Live
    <2>3. CASE k # 0
        <3>1. t.files[0] = s.files[0] /\ g[0] = f[0]
            BY <1>2, <1>5, <2>1, <2>3
        <3> QED
            BY <1>1, <3>1 DEF Live, Joins
    <2> QED
        BY <2>2, <2>3
<1>7. ASSUME NEW i \in 1 .. Rotated + 1
      PROVE  g[i] = t.files[i] \o g[i - 1]
    <2>1. i \in Numbers /\ i - 1 \in Numbers /\ i # 0
        BY <1>2 DEF Numbers
    <2>2. f[i] = s.files[i] \o f[i - 1]
        BY <1>1 DEF Joins
    <2>3. CASE i < k
        <3>1. t.files[i] = s.files[i] /\ g[i] = f[i] /\ g[i - 1] = f[i - 1]
            BY <1>2, <1>5, <2>1, <2>3
        <3> HIDE DEF g
        <3> QED
            BY <2>2, <3>1
    <2>4. CASE i = k
        <3>1. t.files[i] = <<>> /\ g[i] = f[i - 1] /\ g[i - 1] = f[i - 1]
            BY <1>2, <1>5, <2>1, <2>4
        <3>2. <<>> \o f[i - 1] = f[i - 1]
            BY <1>3, <2>1, ConcatEmptySeq
        <3> HIDE DEF g
        <3> QED
            BY <3>1, <3>2
    <2>5. CASE k < i
        <3>1. g[i] = f[i - 1] /\ ~ (i < k) /\ ~ (i - 1 < k)
            BY <1>2, <2>1, <2>5
        <3>2. t.files[i] = s.files[i - 1]
            <4>1. CASE i =< n + 1
                BY <1>5, <2>1, <2>5, <4>1
            <4>2. CASE ~ (i =< n + 1)
                <5>1. i \in n + 1 .. Rotated + 1 /\ i - 1 \in n + 1 .. Rotated + 1 /\ i # k
                    BY <1>2, <2>5, <4>2
                <5>2. t.files[i] = s.files[i]
                    BY <1>5, <2>1, <4>2, <5>1
                <5> QED
                    BY <5>1, <5>2
            <4> QED
                BY <4>1, <4>2
        <3>3. CASE i = 1
            <4>1. i - 1 = 0 /\ g[0] = <<>>
                BY <2>1, <3>1, <3>3
            <4>2. f[0] = s.files[0] \o <<>>
                BY <1>1 DEF Joins, Live
            <4> HIDE DEF g
            <4> QED
                BY <3>1, <3>2, <4>1, <4>2
        <3>4. CASE i # 1
            <4>1. i - 1 \in 1 .. Rotated + 1 /\ i - 1 # 0
                BY <1>2, <3>4
            <4>2. f[i - 1] = s.files[i - 1] \o f[(i - 1) - 1]
                BY <1>1, <4>1 DEF Joins
            <4>3. g[i - 1] = f[(i - 1) - 1]
                BY <2>1, <3>1, <4>1
            <4> HIDE DEF g
            <4> QED
                BY <3>1, <3>2, <4>2, <4>3
        <3> QED
            BY <3>3, <3>4
    <2> HIDE DEF g
    <2>6. i < k \/ i = k \/ k < i
        BY <1>2
    <2> QED
        BY <2>3, <2>4, <2>5, <2>6
<1>8. Joins(g, t.files, Live(t))
    <2>1. g \in [Numbers -> Seq(Lines)]
        BY <1>4
    <2> HIDE DEF g
    <2> QED
        BY <1>6, <1>7, <2>1 DEF Joins
<1>9. g[Rotated + 1] = f[Rotated]
    <2>1. Rotated + 1 \in Numbers /\ ~ (Rotated + 1 < k) /\ Rotated + 1 # 0
          /\ (Rotated + 1) - 1 = Rotated
        BY <1>2 DEF Numbers
    <2> QED
        BY <2>1
<1>10. KeptOf(s) = f[Rotated]
    <2>1. n \in Numbers /\ Rotated \in n .. Rotated + 1
        BY <1>2 DEF Numbers
    <2>2. KeptOf(s) = f[n] /\ \A j \in n .. Rotated + 1 : f[j] = f[n]
        BY <1>1, <2>1, KeptUpTo
    <2> QED
        BY <2>1, <2>2
<1> HIDE DEF g
<1> QED
    BY <1>8, <1>9, <1>10, KeptJoins DEF Live

(* Removing the oldest file takes its lines from the log.                     *)
LEMMA KeptDropped ==
    ASSUME NEW s \in SinkType, NEW t \in SinkType, NEW n \in 1 .. Rotated,
           \A i \in Numbers : t.files[i] = IF i = n THEN <<>> ELSE s.files[i],
           t.buffer = s.buffer,
           \A i \in n + 1 .. Rotated + 1 : s.files[i] = <<>>
    PROVE  KeptOf(s) = s.files[n] \o KeptOf(t)
<1>1. PICK f : Joins(f, s.files, Live(s))
    BY KeptIs DEF Live
<1>2. PICK g : Joins(g, t.files, Live(t))
    BY KeptIs DEF Live
<1>3. /\ Rotated \in Nat /\ n \in Nat /\ n =< Rotated /\ 1 =< n /\ n \in 1 .. Rotated + 1
      /\ n \in Numbers /\ n - 1 \in Numbers
    BY Limits DEF Numbers
<1>4. KeptOf(s) = f[n]
    BY <1>1, <1>3, KeptUpTo
<1>5. f[n] = s.files[n] \o f[n - 1]
    BY <1>1, <1>3 DEF Joins
<1>6. KeptOf(t) = g[n - 1]
    <2>1. \A i \in (n - 1) + 1 .. Rotated + 1 : t.files[i] = <<>>
        <3> SUFFICES ASSUME NEW i \in (n - 1) + 1 .. Rotated + 1 PROVE t.files[i] = <<>>
            OBVIOUS
        <3>1. i \in Numbers /\ (i = n \/ i \in n + 1 .. Rotated + 1)
            BY <1>3 DEF Numbers
        <3> QED
            BY <3>1
    <2> DEFINE m == n - 1
    <2>2. m \in Numbers /\ \A i \in m + 1 .. Rotated + 1 : t.files[i] = <<>>
        BY <1>3, <2>1
    <2> HIDE DEF m
    <2>3. KeptOf(t) = g[m]
        BY <1>2, <2>2, KeptUpTo
    <2> QED
        BY <2>3 DEF m
<1>7. f[n - 1] = g[n - 1]
    <2> DEFINE m == n - 1
               G == {i \in 0 .. m : f[i] = g[i]}
    <2>1. m \in Nat /\ 0 \in G
        <3>1. t.files[0] = s.files[0]
            BY <1>3 DEF Numbers
        <3>2. Live(t) = Live(s)
            BY <3>1 DEF Live
        <3>3. f[0] = g[0]
            BY <1>1, <1>2, <3>2 DEF Joins
        <3>4. m \in Nat /\ 0 \in 0 .. m
            BY <1>3
        <3> QED
            BY <3>3, <3>4
    <2>2. ASSUME NEW i \in 0 .. m - 1, i \in G
          PROVE  i + 1 \in G
        <3>1. i + 1 \in 1 .. Rotated + 1 /\ (i + 1) - 1 = i /\ i + 1 # n /\ i + 1 \in Numbers
              /\ i + 1 \in 0 .. m
            BY <1>3 DEF Numbers
        <3>2. f[i + 1] = s.files[i + 1] \o f[i] /\ g[i + 1] = t.files[i + 1] \o g[i]
            BY <1>1, <1>2, <3>1 DEF Joins
        <3>3. t.files[i + 1] = s.files[i + 1] /\ f[i] = g[i]
            BY <2>2, <3>1
        <3>4. f[i + 1] = g[i + 1]
            BY <3>2, <3>3
        <3> QED
            BY <3>1, <3>4
    <2>3. m \in G
        <3>1. G \in SUBSET Nat /\ m \in 0 .. m
            BY <2>1
        <3> HIDE DEF G, m
        <3> QED
            BY <2>1, <2>2, <3>1, Upwards
    <2> QED
        BY <2>3
<1> QED
    BY <1>4, <1>5, <1>6, <1>7

-----------------------------------------------------------------------------
(* Sinks.                                                                  *)

Bounded(s) ==
    /\ s \in SinkType
    /\ \A k \in Numbers : Bytes(s.files[k]) =< MaxBytes
    /\ s.files[Rotated + 1] = <<>>

(* It knows the size of what it has, and has no more files than it knows of.  *)
Exact(s) ==
    /\ Len(s.sizes) =< Rotated
    /\ \A k \in 1 .. Len(s.sizes) : s.sizes[k] = Bytes(s.files[k])
    /\ \A k \in Len(s.sizes) + 1 .. Rotated + 1 : s.files[k] = <<>>
    /\ s.current = Bytes(Live(s)) /\ s.current =< MaxBytes

Working(s) == Bounded(s) /\ Exact(s) /\ ~s.disabled

(* It has failed, and buffers nothing more.                                   *)
Failed(s) == Bounded(s) /\ s.disabled /\ s.buffer = <<>>

(* m is how l begins.                                                       *)
First(l, m) == \E n \in 0 .. Len(l) : m = SubSeq(l, 1, n)

LEMMA LiveSeq ==
    ASSUME NEW s \in SinkType
    PROVE  Live(s) \in Seq(Lines) /\ Bytes(Live(s)) \in Nat
    BY SinkParts, BytesNat DEF Live

LEMMA AppendedOK ==
    ASSUME NEW s, Working(s), NEW line \in Lines, s.current + line.size =< MaxBytes
    PROVE  /\ Working(Appended(s, line))
           /\ KeptOf(Appended(s, line)) = Append(KeptOf(s), line)
<1> DEFINE t == Appended(s, line)
           longer == Append(s.buffer, line)
<1>1. s \in SinkType
    BY DEF Working, Bounded
<1>2. line.size \in Nat
    BY DEF Lines
<1>3. longer \in Seq(Lines) /\ longer = s.buffer \o <<line>> /\ <<line>> \in Seq(Lines)
    BY <1>1, SinkParts, AppendProperties, AppendIsConcat
<1>4. /\ t.files = s.files /\ t.sizes = s.sizes /\ t.buffer = longer
      /\ t.current = s.current + line.size
      /\ t.disabled = s.disabled /\ t \in SinkType
    <2> HIDE DEF longer
    <2>1. t = [s EXCEPT !.buffer = longer, !.current = @ + line.size]
        BY DEF Appended, longer
    <2>2. s.current + line.size \in Nat
        BY <1>1, <1>2, SinkParts
    <2> HIDE DEF t
    <2> QED
        BY <1>1, <1>3, <2>1, <2>2 DEF SinkType
<1> HIDE DEF t, longer
<1>5. Live(t) = Live(s) \o <<line>> /\ Live(t) = Append(Live(s), line)
    <2> DEFINE a == s.files[0]  b == s.buffer  one == <<line>>
    <2>1. a \in Seq(Lines) /\ b \in Seq(Lines) /\ one \in Seq(Lines)
        BY <1>1, <1>3, SinkParts
    <2>2. Live(t) = a \o (b \o one) /\ Live(s) = a \o b
        BY <1>3, <1>4 DEF Live
    <2>3. Append(Live(s), line) = Live(s) \o one
        BY <1>1, LiveSeq, AppendIsConcat
    <2> HIDE DEF a, b, one
    <2>4. (a \o b) \o one = a \o (b \o one)
        BY <2>1, ConcatAssociative
    <2> QED
        BY <2>2, <2>3, <2>4 DEF one
<1>6. Bytes(Live(t)) = Bytes(Live(s)) + line.size
    BY <1>1, <1>5, LiveSeq, BytesAppend
<1>7. Working(t)
    BY <1>1, <1>2, <1>4, <1>6 DEF Working, Bounded, Exact
<1>8. KeptOf(t) = Append(KeptOf(s), line)
    <2>1. KeptOf(t) = KeptOf(s) \o <<line>>
        <3> DEFINE one == <<line>>
        <3>1. one \in Seq(Lines) /\ Live(t) = Live(s) \o one
            BY <1>3, <1>5
        <3>2. \A k \in 1 .. Rotated + 1 : t.files[k] = s.files[k]
            BY <1>4
        <3> HIDE DEF one
        <3>3. KeptOf(t) = KeptOf(s) \o one
            BY <1>1, <1>4, <3>1, <3>2, KeptMore
        <3> QED
            BY <3>3 DEF one
    <2>2. KeptOf(s) \in Seq(Lines)
        BY <1>1, KeptIs
    <2> QED
        BY <2>1, <2>2, AppendIsConcat
<1> QED
    BY <1>7, <1>8 DEF t

(* A part of the buffer has been written.                                    *)
LEMMA PartWritten ==
    ASSUME NEW s, Working(s), NEW n \in 0 .. Len(s.buffer), NEW t \in SinkType,
           t.files[0] = s.files[0] \o SubSeq(s.buffer, 1, n),
           \A k \in 1 .. Rotated + 1 : t.files[k] = s.files[k],
           t.buffer = <<>>
    PROVE  /\ Bounded(t)
           /\ First(KeptOf(s), KeptOf(t))
           /\ n = Len(s.buffer) => Live(t) = Live(s) /\ KeptOf(t) = KeptOf(s)
<1> DEFINE part == SubSeq(s.buffer, 1, n)
           rest == SubSeq(s.buffer, n + 1, Len(s.buffer))
           a == s.files[0]
           b == s.buffer
<1>1. s \in SinkType /\ Rotated \in Nat /\ 0 \in Numbers /\ a \in Seq(Lines) /\ b \in Seq(Lines)
    BY SinkParts DEF Working, Bounded
<1>2. Len(b) \in Nat /\ n \in Nat /\ n =< Len(b)
    BY <1>1
<1>3. part \in Seq(Lines) /\ rest \in Seq(Lines) /\ part \o rest = b /\ Len(part) = n
    <2>1. part \in Seq(Lines) /\ Len(part) = n
        BY <1>1, <1>2, SubSeqProperties
    <2>2. rest \in Seq(Lines)
        BY <1>1, <1>2
    <2>3. part \o rest = b
        <3>1. SubSeq(b, 1, Len(b)) = b
            BY <1>1, SubSeqFull
        <3>2. SubSeq(b, 1, n) \o SubSeq(b, n + 1, Len(b)) = SubSeq(b, 1, Len(b))
            <4> DEFINE one == 1  top == Len(b)
            <4>1. one \in 1 .. Len(b) + 1 /\ n \in one - 1 .. Len(b) /\ top \in n .. Len(b)
                BY <1>2
            <4> HIDE DEF one, top, b
            <4>2. SubSeq(b, one, n) \o SubSeq(b, n + 1, top) = SubSeq(b, one, top)
                BY <1>1, <4>1, ConcatAdjacentSubSeq
            <4> QED
                BY <4>2 DEF one, top
        <3> QED
            BY <3>1, <3>2
    <2> QED
        BY <2>1, <2>2, <2>3
<1>4. /\ t.files[0] = a \o part
      /\ \A k \in 1 .. Rotated + 1 : t.files[k] = s.files[k]
      /\ Live(s) = a \o b
    BY DEF Live
<1> HIDE DEF part, rest, a, b
<1>5. a \o part \in Seq(Lines)
    BY <1>1, <1>3, ConcatProperties
<1>6. Live(t) = a \o part
    <2>1. Live(t) = (a \o part) \o <<>>
        BY <1>4 DEF Live
    <2> QED
        BY <1>5, <2>1, ConcatEmptySeq
<1>7. Live(s) = Live(t) \o rest
    <2>1. (a \o part) \o rest = a \o (part \o rest)
        <3>1. a \in Seq(Lines) /\ part \in Seq(Lines) /\ rest \in Seq(Lines)
            BY <1>1, <1>3
        <3> QED
            BY <3>1, ConcatAssociative
    <2> QED
        BY <1>3, <1>4, <1>6, <2>1
<1>8. Bytes(t.files[0]) =< MaxBytes
    <2>1. Live(t) = SubSeq(Live(s), 1, Len(Live(t))) /\ Len(Live(t)) \in 0 .. Len(Live(s))
        <3> DEFINE l == Live(t)
        <3>1. l \in Seq(Lines)
            BY <1>5, <1>6
        <3> HIDE DEF l
        <3>2. Len(l \o rest) = Len(l) + Len(rest) /\ Len(l) \in Nat /\ Len(rest) \in Nat
            BY <1>3, <3>1, ConcatProperties, LenProperties
        <3>3. SubSeq(l \o rest, 1, Len(l)) = l
            BY <1>3, <3>1, ConcatSimplifications
        <3> QED
            BY <1>7, <3>2, <3>3 DEF l
    <2>2. Bytes(SubSeq(Live(s), 1, Len(Live(t)))) =< Bytes(Live(s))
        BY <1>1, <2>1, LiveSeq, BytesOfFirst
    <2>3. Bytes(Live(t)) =< Bytes(Live(s))
        BY <2>1, <2>2
    <2>4. s.current = Bytes(Live(s)) /\ s.current =< MaxBytes
        BY DEF Working, Exact
    <2>5. t.files[0] = Live(t)
        BY <1>4, <1>6
    <2>6. Bytes(Live(t)) \in Nat /\ Bytes(Live(s)) \in Nat /\ MaxBytes \in Nat
        BY <1>1, LiveSeq, Limits
    <2>7. Bytes(Live(t)) =< MaxBytes
        <3> DEFINE x == Bytes(Live(t))  y == Bytes(Live(s))
        <3>1. x =< y /\ y =< MaxBytes /\ x \in Nat /\ y \in Nat /\ MaxBytes \in Nat
            BY <2>3, <2>4, <2>6
        <3> HIDE DEF x, y
        <3>2. x =< MaxBytes
            BY <3>1
        <3> QED
            BY <3>2 DEF x
    <2> QED
        BY <2>5, <2>7
<1>9. Bounded(t)
    <2>1. \A k \in 1 .. Rotated + 1 : Bytes(t.files[k]) =< MaxBytes
        BY <1>1, <1>4 DEF Working, Bounded, Numbers
    <2>2. t.files[Rotated + 1] = <<>>
        BY <1>1, <1>4 DEF Working, Bounded
    <2>3. \A k \in Numbers : k = 0 \/ k \in 1 .. Rotated + 1
        BY <1>1 DEF Numbers
    <2> QED
        BY <1>8, <2>1, <2>2, <2>3 DEF Bounded
<1>10. First(KeptOf(s), KeptOf(t))
    BY <1>1, <1>3, <1>4, <1>7, KeptLess DEF First
<1>11. n = Len(b) => Live(t) = Live(s) /\ KeptOf(t) = KeptOf(s)
    <2> SUFFICES ASSUME n = Len(b) PROVE Live(t) = Live(s) /\ KeptOf(t) = KeptOf(s)
        OBVIOUS
    <2>1. part = b
        BY <1>1, SubSeqFull DEF part, b
    <2>2. Live(t) = Live(s)
        BY <1>4, <1>6, <2>1
    <2> QED
        BY <1>1, <1>4, <2>2, KeptSame
<1> QED
    BY <1>9, <1>10, <1>11 DEF b

-----------------------------------------------------------------------------
(* What is left of a log: a part, all but the oldest, or that with a record.   *)

Part(l, m) == \E k \in 0 .. Len(l) : \E n \in k .. Len(l) : m = SubSeq(l, k + 1, n)

Rest(l, m, lost) ==
    \E k \in 0 .. Len(l) : m = SubSeq(l, k + 1, Len(l)) /\ lost = Bytes(SubSeq(l, 1, k))

Rolled(l, m) ==
    \E rec \in Lines : \E k \in 0 .. Len(l) :
        rec.lost = Bytes(SubSeq(l, 1, k)) /\ m = Append(SubSeq(l, k + 1, Len(l)), rec)

LEMMA EmptyLines == <<>> \in Seq(Lines) /\ Bytes(<<>>) = 0 /\ <<>> \o <<>> = <<>>
<1>1. <<>> \in Seq(Lines) /\ Len(<<>>) = 0
    OBVIOUS
<1> QED
    BY <1>1, BytesEmpty, ConcatEmptySeq

LEMMA Unchanged ==
    ASSUME NEW l \in Seq(Lines)
    PROVE  Part(l, l) /\ Rest(l, l, 0) /\ SubSeq(l, 1, Len(l)) = l
<1>1. Len(l) \in Nat /\ SubSeq(l, 1, Len(l)) = l
    BY SubSeqFull
<1>2. SubSeq(l, 1, 0) = <<>>
    BY SubSeqEmpty
<1>3. 0 \in 0 .. Len(l) /\ Len(l) \in 0 .. Len(l) /\ 0 + 1 = 1
    BY <1>1
<1>4. Part(l, l)
    BY <1>1, <1>3 DEF Part
<1>5. Rest(l, l, 0)
    BY <1>1, <1>2, <1>3, EmptyLines DEF Rest
<1> QED
    BY <1>1, <1>4, <1>5

LEMMA PartOf ==
    ASSUME NEW l \in Seq(Lines), NEW m, First(l, m) \/ \E lost : Rest(l, m, lost)
    PROVE  Part(l, m)
<1>1. Len(l) \in Nat /\ 0 + 1 = 1 /\ 0 \in 0 .. Len(l)
    BY LenProperties
<1>2. First(l, m) => Part(l, m)
    BY <1>1 DEF First, Part
<1>3. ASSUME NEW lost, Rest(l, m, lost)
      PROVE  Part(l, m)
    <2>1. PICK k \in 0 .. Len(l) : m = SubSeq(l, k + 1, Len(l))
        BY <1>3 DEF Rest
    <2>2. Len(l) \in k .. Len(l)
        BY <1>1
    <2> QED
        BY <2>1, <2>2 DEF Part
<1> QED
    BY <1>2, <1>3

LEMMA BufferCleared ==
    ASSUME NEW w \in SinkType, NEW t,
           \/ t = [w EXCEPT !.buffer = <<>>]
           \/ t = [w EXCEPT !.disabled = TRUE, !.buffer = <<>>, !.pending = TRUE]
    PROVE  /\ t \in SinkType /\ t.files = w.files /\ t.buffer = <<>>
           /\ t.sizes = w.sizes /\ t.current = w.current
<1> DEFINE none == <<>>
<1>1. none \in Seq(Lines)
    OBVIOUS
<1> HIDE DEF none
<1>2. CASE t = [w EXCEPT !.buffer = none]
    BY <1>1, <1>2 DEF SinkType, none
<1>3. CASE t = [w EXCEPT !.disabled = TRUE, !.buffer = none, !.pending = TRUE]
    BY <1>1, <1>3 DEF SinkType, none
<1> QED
    BY <1>2, <1>3 DEF none

LEMMA DisabledOK ==
    ASSUME NEW s, Bounded(s), s.buffer = <<>>
    PROVE  Failed(Disabled(s)) /\ KeptOf(Disabled(s)) = KeptOf(s)
<1> DEFINE t == Disabled(s)
<1>1. s \in SinkType
    BY DEF Bounded
<1>2. t \in SinkType /\ t.files = s.files /\ t.buffer = <<>> /\ t.disabled
    BY <1>1 DEF Disabled, SinkType
<1> HIDE DEF t
<1>3. Live(t) = Live(s)
    BY <1>2 DEF Live
<1>4. KeptOf(t) = KeptOf(s)
    BY <1>1, <1>2, <1>3, KeptSame
<1>5. Bounded(t)
    BY <1>2 DEF Bounded
<1> QED
    BY <1>2, <1>4, <1>5 DEF Failed, t

LEMMA FlushedOK ==
    ASSUME NEW s, Working(s), NEW f \in Flushed(s)
    PROVE  \/ /\ Working(f) /\ f.buffer = <<>> /\ f.current = s.current
              /\ KeptOf(f) = KeptOf(s)
           \/ Failed(f) /\ First(KeptOf(s), KeptOf(f))
<1> DEFINE wrote(n) == [s EXCEPT !.files[0] = @ \o SubSeq(s.buffer, 1, n)]
           all == Len(s.buffer)
<1>1. s \in SinkType /\ 0 \in Numbers /\ Rotated \in Nat /\ s.buffer \in Seq(Lines) /\ all \in Nat
      /\ s.files[0] \in Seq(Lines) /\ DOMAIN s.files = Numbers
    BY SinkParts DEF Working, Bounded
<1>2. ASSUME NEW n \in 0 .. all
      PROVE  /\ wrote(n) \in SinkType
             /\ wrote(n).files[0] = s.files[0] \o SubSeq(s.buffer, 1, n)
             /\ \A k \in 1 .. Rotated + 1 : wrote(n).files[k] = s.files[k]
             /\ wrote(n).sizes = s.sizes /\ wrote(n).current = s.current
             /\ wrote(n).disabled = s.disabled
    <2> DEFINE part == SubSeq(s.buffer, 1, n)
               a == s.files[0] \o part
               files == [s.files EXCEPT ![0] = a]
    <2>1. part \in Seq(Lines)
        BY <1>1, SubSeqProperties
    <2>2. a \in Seq(Lines)
        BY <1>1, <2>1, ConcatProperties
    <2>3. wrote(n) = [s EXCEPT !.files = files]
        OBVIOUS
    <2>4. s.files \in [Numbers -> Seq(Lines)]
        BY <1>1 DEF SinkType
    <2> HIDE DEF part
    <2>5. files[0] = a /\ \A k \in 1 .. Rotated + 1 : files[k] = s.files[k]
        <3>1. \A k \in 1 .. Rotated + 1 : k \in Numbers /\ k # 0
            BY <1>1 DEF Numbers
        <3> HIDE DEF a
        <3> QED
            BY <1>1, <2>4, <3>1
    <2>6. files \in [Numbers -> Seq(Lines)]
        <3> HIDE DEF a
        <3> QED
            BY <2>2, <2>4
    <2> HIDE DEF files, wrote
    <2>7. /\ wrote(n) \in SinkType /\ wrote(n).files = files /\ wrote(n).sizes = s.sizes
          /\ wrote(n).current = s.current /\ wrote(n).disabled = s.disabled
        <3> HIDE DEF a
        <3> QED
            BY <1>1, <2>3, <2>6 DEF SinkType
    <2> QED
        BY <2>5, <2>7 DEF part
<1>3. ASSUME f = [wrote(all) EXCEPT !.buffer = <<>>]
      PROVE  /\ Working(f) /\ f.buffer = <<>> /\ f.current = s.current
             /\ KeptOf(f) = KeptOf(s)
    <2>1. all \in 0 .. all
        BY <1>1
    <2> DEFINE w == wrote(all)
    <2>2. /\ w \in SinkType
          /\ w.files[0] = s.files[0] \o SubSeq(s.buffer, 1, all)
          /\ \A k \in 1 .. Rotated + 1 : w.files[k] = s.files[k]
          /\ w.sizes = s.sizes /\ w.current = s.current /\ w.disabled = s.disabled
        BY <1>2, <2>1
    <2> HIDE DEF w, wrote
    <2>3. /\ f \in SinkType /\ f.files = w.files /\ f.buffer = <<>>
          /\ f.sizes = w.sizes /\ f.current = w.current /\ f.disabled = w.disabled
        <3>1. f = [w EXCEPT !.buffer = <<>>]
            BY <1>3 DEF w
        <3>2. f.disabled = w.disabled
            BY <2>2, <3>1 DEF SinkType
        <3> QED
            BY <2>2, <3>1, <3>2, BufferCleared
    <2>4. /\ f.files[0] = s.files[0] \o SubSeq(s.buffer, 1, all)
          /\ \A k \in 1 .. Rotated + 1 : f.files[k] = s.files[k]
        BY <2>2, <2>3
    <2>5. Bounded(f) /\ Live(f) = Live(s) /\ KeptOf(f) = KeptOf(s)
        <3> HIDE DEF wrote
        <3> QED
            BY <2>1, <2>3, <2>4, PartWritten
    <2>6. Exact(f)
        <3>1. /\ Len(s.sizes) =< Rotated
              /\ \A k \in 1 .. Len(s.sizes) : s.sizes[k] = Bytes(s.files[k])
              /\ \A k \in Len(s.sizes) + 1 .. Rotated + 1 : s.files[k] = <<>>
              /\ s.current = Bytes(Live(s)) /\ s.current =< MaxBytes
            BY DEF Working, Exact
        <3>2. Len(s.sizes) \in Nat
            BY <1>1, SinkParts, LenProperties
        <3>3. f.sizes = s.sizes /\ f.current = s.current
            BY <2>2, <2>3
        <3>4. \A k \in 1 .. Len(s.sizes) : k \in 1 .. Rotated + 1
            BY <1>1, <3>1, <3>2
        <3>5. \A k \in Len(s.sizes) + 1 .. Rotated + 1 : k \in 1 .. Rotated + 1
            BY <1>1, <3>2
        <3> HIDE DEF wrote
        <3> QED
            BY <2>4, <2>5, <3>1, <3>3, <3>4, <3>5 DEF Exact
    <2> QED
        BY <2>2, <2>3, <2>5, <2>6 DEF Working
<1>4. ASSUME NEW n \in 0 .. all, f = Disabled(wrote(n))
      PROVE  Failed(f) /\ First(KeptOf(s), KeptOf(f))
    <2> DEFINE w == wrote(n)
    <2>1. /\ w \in SinkType
          /\ w.files[0] = s.files[0] \o SubSeq(s.buffer, 1, n)
          /\ \A k \in 1 .. Rotated + 1 : w.files[k] = s.files[k]
        BY <1>2
    <2> HIDE DEF w, wrote
    <2>2. f \in SinkType /\ f.files = w.files /\ f.buffer = <<>> /\ f.disabled
        <3>1. f = [w EXCEPT !.disabled = TRUE, !.buffer = <<>>, !.pending = TRUE]
            BY <1>4 DEF Disabled, w
        <3>2. f.disabled
            BY <2>1, <3>1 DEF SinkType
        <3> QED
            BY <2>1, <3>1, <3>2, BufferCleared
    <2>3. /\ f.files[0] = s.files[0] \o SubSeq(s.buffer, 1, n)
          /\ \A k \in 1 .. Rotated + 1 : f.files[k] = s.files[k]
        BY <2>1, <2>2
    <2> HIDE DEF wrote
    <2> QED
        BY <2>2, <2>3, PartWritten DEF Failed
<1> QED
    <2>1. \/ f = [wrote(all) EXCEPT !.buffer = <<>>]
          \/ \E n \in 0 .. all : f = Disabled(wrote(n))
        BY DEF Flushed
    <2> HIDE DEF wrote, all
    <2> QED
        BY <1>3, <1>4, <2>1

(* A sink whose oldest file has been removed, if it was to be.                *)
Ready(s) ==
    /\ Bounded(s) /\ s.buffer = <<>> /\ ~s.disabled
    /\ Len(s.sizes) + 1 =< Rotated \/ Rotated = 0
    /\ Len(s.sizes) =< Rotated
    /\ \A k \in 1 .. Len(s.sizes) : s.sizes[k] = Bytes(s.files[k])
    /\ \A k \in Len(s.sizes) + 1 .. Rotated + 1 : s.files[k] = <<>>
    /\ s.current =< MaxBytes
    /\ Rotated = 0 => Live(s) = <<>>
    /\ Rotated # 0 => s.current = Bytes(Live(s))

LEMMA LastFileGone ==
    ASSUME NEW s, Working(s), s.buffer = <<>>, NEW n \in 1 .. Rotated, Len(s.sizes) = n,
           NEW t \in SinkType, t.sizes = Front(s.sizes),
           \A k \in Numbers : t.files[k] = IF k = n THEN <<>> ELSE s.files[k],
           t.buffer = s.buffer, t.current = s.current, t.disabled = s.disabled
    PROVE  Ready(t) /\ Rest(KeptOf(s), KeptOf(t), Last(s.sizes)) /\ Last(s.sizes) \in Nat
<1> DEFINE none == <<>>
           sizes == Front(s.sizes)
<1>1. /\ s \in SinkType /\ Rotated \in Nat /\ n \in Nat /\ n =< Rotated /\ 1 =< n
      /\ s.sizes \in Seq(Nat) /\ 0 \in Numbers /\ DOMAIN s.files = Numbers
      /\ n \in Numbers /\ s.files \in [Numbers -> Seq(Lines)]
    <2>1. s \in SinkType
        BY DEF Working, Bounded
    <2>2. s.files \in [Numbers -> Seq(Lines)]
        BY <2>1 DEF SinkType
    <2>3. Rotated \in Nat
        BY Limits
    <2>4. n \in Numbers
        BY <2>3 DEF Numbers
    <2> QED
        BY <2>1, <2>2, <2>3, <2>4, SinkParts
<1>2. none \in Seq(Lines) /\ Bytes(none) = 0
    BY EmptyLines
<1>3. /\ sizes \in Seq(Nat) /\ Len(sizes) = n - 1
      /\ \A i \in 1 .. n - 1 : sizes[i] = s.sizes[i]
      /\ Last(s.sizes) = s.sizes[n] /\ s.sizes[n] \in Nat
    <2>1. s.sizes[n] \in Nat /\ Last(s.sizes) = s.sizes[n]
        BY <1>1 DEF Last
    <2>2. sizes = SubSeq(s.sizes, 1, n - 1)
        BY DEF Front
    <2>3. \A i \in 1 .. n - 1 : s.sizes[i] \in Nat
        BY <1>1
    <2> DEFINE m == n - 1
    <2>4. m \in Nat /\ m - 1 + 1 = m
        BY <1>1
    <2>5. SubSeq(s.sizes, 1, m) \in Seq(Nat) /\ Len(SubSeq(s.sizes, 1, m)) = m
          /\ \A i \in 1 .. m : SubSeq(s.sizes, 1, m)[i] = s.sizes[i]
        BY <1>1, <2>3, <2>4
    <2> QED
        BY <2>1, <2>2, <2>5
<1>4. /\ \A i \in Numbers : t.files[i] = IF i = n THEN none ELSE s.files[i]
      /\ t.sizes = sizes
    OBVIOUS
<1> HIDE DEF sizes, none
<1>5. /\ Bounded(s) /\ ~s.disabled /\ s.current = Bytes(Live(s)) /\ s.current =< MaxBytes
      /\ \A k \in 1 .. n : s.sizes[k] = Bytes(s.files[k])
      /\ \A k \in n + 1 .. Rotated + 1 : s.files[k] = none
    BY DEF Working, Exact, none
<1>6. Bounded(t)
    <2>1. \A k \in Numbers : Bytes(t.files[k]) =< MaxBytes
        <3> SUFFICES ASSUME NEW k \in Numbers PROVE Bytes(t.files[k]) =< MaxBytes
            OBVIOUS
        <3>1. CASE k = n
            BY <1>2, <1>4, <3>1, Limits
        <3>2. CASE k # n
            BY <1>4, <1>5, <3>2 DEF Bounded
        <3> QED
            BY <3>1, <3>2
    <2>2. t.files[Rotated + 1] = <<>>
        <3>1. Rotated + 1 \in Numbers /\ Rotated + 1 # n
            BY <1>1 DEF Numbers
        <3>2. s.files[Rotated + 1] = <<>>
            BY DEF Working, Bounded
        <3>3. t.files[Rotated + 1] = s.files[Rotated + 1]
            BY <1>4, <3>1
        <3> QED
            BY <3>2, <3>3
    <2> QED
        BY <2>1, <2>2 DEF Bounded
<1>7. /\ \A k \in 1 .. n - 1 : t.sizes[k] = Bytes(t.files[k])
      /\ \A k \in (n - 1) + 1 .. Rotated + 1 : t.files[k] = none
    <2>1. \A k \in 1 .. n - 1 : k \in Numbers /\ k # n /\ k \in 1 .. n
        BY <1>1 DEF Numbers
    <2>2. \A k \in (n - 1) + 1 .. Rotated + 1 : k \in Numbers /\ (k = n \/ k \in n + 1 .. Rotated + 1)
        BY <1>1 DEF Numbers
    <2> QED
        BY <1>3, <1>4, <1>5, <2>1, <2>2
<1>8. Live(t) = Live(s)
    <2>1. 0 # n
        BY <1>1
    <2>2. t.files[0] = s.files[0]
        BY <1>1, <1>4, <2>1
    <2> QED
        BY <2>2 DEF Live
<1>9. Ready(t)
    <2>1. Len(t.sizes) = n - 1
        BY <1>3, <1>4
    <2>2. (n - 1) + 1 =< Rotated /\ n - 1 =< Rotated /\ Rotated # 0
        BY <1>1
    <2> QED
        BY <1>5, <1>6, <1>7, <1>8, <2>1, <2>2 DEF Ready, none
<1>10. KeptOf(s) = s.files[n] \o KeptOf(t)
    <2>1. \A i \in Numbers : t.files[i] = IF i = n THEN <<>> ELSE s.files[i]
        BY <1>4 DEF none
    <2>2. \A k \in n + 1 .. Rotated + 1 : s.files[k] = <<>>
        BY <1>5 DEF none
    <2> QED
        BY <1>1, <2>1, <2>2, KeptDropped
<1>11. Rest(KeptOf(s), KeptOf(t), s.sizes[n])
    <2> DEFINE a == s.files[n]  b == KeptOf(t)  k == Len(a)
    <2>1. a \in Seq(Lines) /\ b \in Seq(Lines)
        BY <1>1, KeptIs
    <2>2. s.sizes[n] = Bytes(a)
        BY <1>1, <1>5
    <2> HIDE DEF a, b
    <2>3. Len(a \o b) = k + Len(b) /\ Len(b) \in Nat /\ k \in Nat
        BY <2>1, ConcatProperties, LenProperties
    <2>4. /\ SubSeq(a \o b, 1, k) = a
          /\ SubSeq(a \o b, k + 1, Len(a \o b)) = b
        <3>1. SubSeq(a \o b, 1, Len(a)) = a
              /\ SubSeq(a \o b, Len(a) + 1, Len(a \o b)) = b
            BY <2>1, <2>3, ConcatSimplifications
        <3> QED
            BY <3>1
    <2>5. k \in 0 .. Len(a \o b)
        BY <2>3
    <2>6. KeptOf(s) = a \o b
        BY <1>10 DEF a, b
    <2> HIDE DEF k
    <2> QED
        BY <2>2, <2>4, <2>5, <2>6 DEF Rest, b
<1> QED
    BY <1>3, <1>9, <1>11

LEMMA DroppingOK ==
    ASSUME NEW s, Working(s), s.buffer = <<>>
    PROVE  /\ Ready(Dropping(s).s)
           /\ Dropping(s).s.current = s.current
           /\ Dropping(s).s.seq = s.seq
           /\ Rest(KeptOf(s), KeptOf(Dropping(s).s), Dropping(s).lost)
           /\ Dropping(s).lost \in Nat
<1> DEFINE n == Len(s.sizes)
           w == Dropping(s).s
<1>1. /\ s \in SinkType /\ Rotated \in Nat /\ n \in Nat /\ n =< Rotated
      /\ Bounded(s) /\ ~s.disabled
      /\ s.files \in [Numbers -> Seq(Lines)] /\ s.sizes \in Seq(Nat)
      /\ s.current \in Nat
    <2>1. s \in SinkType /\ n =< Rotated /\ Bounded(s) /\ ~s.disabled
        BY DEF Working, Bounded, Exact
    <2>2. s.files \in [Numbers -> Seq(Lines)] /\ s.sizes \in Seq(Nat) /\ s.current \in Nat
        BY <2>1 DEF SinkType
    <2>3. n \in Nat
        BY <2>2, LenProperties
    <2> QED
        BY <2>1, <2>2, <2>3, Limits
<1>2. /\ \A k \in 1 .. n : s.sizes[k] = Bytes(s.files[k])
      /\ \A k \in n + 1 .. Rotated + 1 : s.files[k] = <<>>
      /\ s.current = Bytes(Live(s)) /\ s.current =< MaxBytes
    BY DEF Working, Exact
<1>3. CASE Rotated = 0
    <2> DEFINE none == <<>>
               files == [s.files EXCEPT ![0] = none]
    <2>1. w = [s EXCEPT !.files = files] /\ Dropping(s).lost = s.current
        BY <1>3 DEF Dropping
    <2>2. none \in Seq(Lines) /\ Bytes(none) = 0 /\ none \o none = none
        BY EmptyLines
    <2>3. files \in [Numbers -> Seq(Lines)] /\ files[0] = none
        <3>1. 0 \in Numbers
            BY <1>1 DEF Numbers
        <3> QED
            BY <1>1, <2>2, <3>1
    <2>4. \A k \in 1 .. Rotated + 1 : s.files[k] = none
        BY <1>1, <1>2, <1>3
    <2>5. \A k \in Numbers : files[k] = none
        <3>1. \A k \in Numbers : k = 0 \/ k \in 1 .. Rotated + 1
            BY <1>1 DEF Numbers
        <3> QED
            BY <1>1, <2>3, <2>4, <3>1
    <2> HIDE DEF files, w
    <2>6. /\ w \in SinkType /\ w.files = files /\ w.sizes = s.sizes /\ w.buffer = s.buffer
          /\ w.current = s.current /\ w.seq = s.seq /\ w.disabled = s.disabled
        BY <1>1, <2>1, <2>3 DEF SinkType
    <2>7. Live(w) = none
        <3>1. 0 \in Numbers
            BY <1>1 DEF Numbers
        <3> QED
            BY <2>2, <2>5, <2>6, <3>1 DEF Live
    <2>8. Bounded(w)
        <3>1. \A k \in Numbers : Bytes(w.files[k]) =< MaxBytes
            BY <2>2, <2>5, <2>6, Limits
        <3>2. w.files[Rotated + 1] = <<>>
            BY <1>1, <2>5, <2>6 DEF Numbers
        <3> QED
            BY <2>6, <3>1, <3>2 DEF Bounded
    <2>9. Ready(w)
        <3>1. n = 0
            BY <1>1, <1>3
        <3>2. \A k \in n + 1 .. Rotated + 1 : w.files[k] = none
            BY <1>1, <2>5, <2>6 DEF Numbers
        <3> QED
            BY <1>1, <1>2, <1>3, <2>6, <2>7, <2>8, <3>1, <3>2 DEF Ready
    <2>10. KeptOf(s) = Live(s) /\ KeptOf(w) = none
        <3>1. 0 \in Numbers /\ \A k \in 0 + 1 .. Rotated + 1 : s.files[k] = <<>> /\ w.files[k] = <<>>
            BY <1>1, <2>4, <2>5, <2>6 DEF Numbers
        <3>2. PICK f : Joins(f, s.files, Live(s))
            BY <1>1, KeptIs DEF Live
        <3>3. PICK g : Joins(g, w.files, Live(w))
            BY <2>6, KeptIs DEF Live
        <3>4. KeptOf(s) = f[0] /\ KeptOf(w) = g[0]
            BY <1>1, <2>6, <3>1, <3>2, <3>3, KeptUpTo
        <3> QED
            BY <2>7, <3>2, <3>3, <3>4 DEF Joins
    <2>11. Rest(KeptOf(s), KeptOf(w), s.current)
        <3> DEFINE l == KeptOf(s)  k == Len(l)
        <3>1. l \in Seq(Lines) /\ k \in Nat
            BY <1>1, KeptIs, LenProperties
        <3>2. SubSeq(l, 1, k) = l
            BY <3>1, SubSeqFull
        <3>3. SubSeq(l, k + 1, k) = none
            <4>1. k + 1 \in Int /\ k \in Int /\ k + 1 > k
                BY <3>1
            <4> HIDE DEF k, l
            <4> QED
                BY <4>1, SubSeqEmpty
        <3>4. k \in 0 .. k
            BY <3>1
        <3> QED
            BY <1>2, <2>10, <3>2, <3>3, <3>4 DEF Rest
    <2> QED
        BY <1>1, <2>1, <2>6, <2>9, <2>11 DEF w
<1>4. CASE Rotated # 0 /\ n >= Rotated
    <2>1. n \in 1 .. Rotated /\ n = Rotated
        BY <1>1, <1>4
    <2>2. w = [s EXCEPT !.files[n] = <<>>, !.sizes = Front(@)] /\ Dropping(s).lost = Last(s.sizes)
        BY <1>4 DEF Dropping
    <2>3. w.current = s.current /\ w.seq = s.seq
        BY <1>1, <2>2 DEF SinkType
    <2>4. Ready(w) /\ Rest(KeptOf(s), KeptOf(w), Last(s.sizes)) /\ Last(s.sizes) \in Nat
        <3> DEFINE none == <<>>
                   files == [s.files EXCEPT ![n] = none]
                   sizes == Front(s.sizes)
        <3>1. w = [s EXCEPT !.files = files, !.sizes = sizes]
            BY <2>2
        <3>2. none \in Seq(Lines) /\ n \in Numbers
            BY <1>1 DEF Numbers
        <3>3. /\ files \in [Numbers -> Seq(Lines)]
              /\ \A k \in Numbers : files[k] = IF k = n THEN none ELSE s.files[k]
            <4> HIDE DEF none, n
            <4> QED
                BY <1>1, <3>2
        <3>4. sizes \in Seq(Nat)
            BY <1>1 DEF Front
        <3> HIDE DEF w, files, sizes, n
        <3>5. /\ w \in SinkType /\ w.files = files /\ w.sizes = sizes /\ w.buffer = s.buffer
              /\ w.current = s.current /\ w.disabled = s.disabled
            BY <1>1, <3>1, <3>3, <3>4 DEF SinkType
        <3>6. /\ \A k \in Numbers : w.files[k] = IF k = n THEN <<>> ELSE s.files[k]
              /\ w.sizes = Front(s.sizes)
            BY <3>3, <3>5 DEF sizes
        <3>7. n \in 1 .. Rotated /\ Len(s.sizes) = n
            BY <2>1 DEF n
        <3> QED
            BY <3>5, <3>6, <3>7, LastFileGone
    <2> HIDE DEF w, n
    <2> QED
        BY <2>2, <2>3, <2>4 DEF w
<1>5. CASE Rotated # 0 /\ ~ (n >= Rotated)
    <2>1. w = s /\ Dropping(s).lost = 0
        BY <1>5 DEF Dropping
    <2>2. Ready(s)
        BY <1>1, <1>2, <1>5 DEF Ready
    <2>3. Rest(KeptOf(s), KeptOf(s), 0)
        BY <1>1, KeptIs, Unchanged
    <2> QED
        BY <2>1, <2>2, <2>3
<1> QED
    BY <1>3, <1>4, <1>5

(* The files after some of them have been renamed are as bounded as before.    *)
LEMMA RenamedBounded ==
    ASSUME NEW w, Ready(w), Rotated # 0, NEW n, n = Len(w.sizes), NEW k \in 0 .. n + 1,
           NEW files, files = Renamed(w.files, k, n)
    PROVE  /\ files \in [Numbers -> Seq(Lines)]
           /\ \A i \in Numbers : Bytes(files[i]) =< MaxBytes
           /\ files[Rotated + 1] = <<>>
           /\ \A i \in Numbers : files[i] = IF i = k THEN <<>>
                                           ELSE IF k < i /\ i =< n + 1 THEN w.files[i - 1]
                                           ELSE w.files[i]
           /\ n \in 0 .. Rotated
<1> DEFINE none == <<>>
<1>1. /\ w \in SinkType /\ Rotated \in Nat /\ n \in Nat /\ n + 1 =< Rotated
      /\ w.files \in [Numbers -> Seq(Lines)] /\ k \in Nat /\ k =< n + 1
    <2>1. w \in SinkType /\ n + 1 =< Rotated
        BY DEF Ready, Bounded
    <2>2. w.files \in [Numbers -> Seq(Lines)] /\ w.sizes \in Seq(Nat)
        BY <2>1 DEF SinkType
    <2> QED
        BY <2>1, <2>2, Limits, LenProperties
<1>2. none \in Seq(Lines) /\ Bytes(none) =< MaxBytes
    BY EmptyLines, Limits
<1>3. \A i \in Numbers : w.files[i] \in Seq(Lines) /\ Bytes(w.files[i]) =< MaxBytes
    BY <1>1 DEF Ready, Bounded
<1>4. DOMAIN w.files = Numbers
    BY <1>1
<1>5. files = [i \in Numbers |-> IF i = k THEN none
                                 ELSE IF i \in k + 1 .. n + 1 THEN w.files[i - 1]
                                 ELSE w.files[i]]
    BY <1>4 DEF Renamed
<1> HIDE DEF none
<1>6. \A i \in Numbers : files[i] = IF i = k THEN none
                                    ELSE IF k < i /\ i =< n + 1 THEN w.files[i - 1]
                                    ELSE w.files[i]
    <2> SUFFICES ASSUME NEW i \in Numbers
                 PROVE  files[i] = IF i = k THEN none
                                    ELSE IF k < i /\ i =< n + 1 THEN w.files[i - 1]
                                    ELSE w.files[i]
        OBVIOUS
    <2>1. i \in k + 1 .. n + 1 <=> k < i /\ i =< n + 1
        BY <1>1 DEF Numbers
    <2> QED
        BY <1>5, <2>1
<1>7. \A i \in Numbers : files[i] \in Seq(Lines) /\ Bytes(files[i]) =< MaxBytes
    <2> SUFFICES ASSUME NEW i \in Numbers
                 PROVE  files[i] \in Seq(Lines) /\ Bytes(files[i]) =< MaxBytes
        OBVIOUS
    <2>1. k < i => i - 1 \in Numbers
        BY <1>1 DEF Numbers
    <2>2. CASE i = k
        BY <1>2, <1>6, <2>2
    <2>3. CASE i # k /\ k < i /\ i =< n + 1
        <3>1. files[i] = w.files[i - 1]
            BY <1>6, <2>3
        <3> QED
            BY <1>3, <2>1, <2>3, <3>1
    <2>4. CASE i # k /\ ~ (k < i /\ i =< n + 1)
        <3>1. files[i] = w.files[i]
            BY <1>6, <2>4
        <3> QED
            BY <1>3, <3>1
    <2> QED
        BY <2>2, <2>3, <2>4
<1>8. files \in [Numbers -> Seq(Lines)]
    <2>1. files = [i \in Numbers |-> files[i]]
        BY <1>5
    <2> QED
        BY <1>7, <2>1
<1>9. files[Rotated + 1] = <<>>
    <2>1. Rotated + 1 \in Numbers /\ Rotated + 1 # k /\ ~ (Rotated + 1 =< n + 1)
        BY <1>1 DEF Numbers
    <2>2. w.files[Rotated + 1] = <<>>
        BY DEF Ready, Bounded
    <2>3. files[Rotated + 1] = w.files[Rotated + 1]
        BY <1>6, <2>1
    <2> QED
        BY <2>2, <2>3
<1>10. n \in 0 .. Rotated
    BY <1>1
<1> QED
    BY <1>6, <1>7, <1>8, <1>9, <1>10 DEF none

(* A rotation that fails on the way leaves a part of the log.                 *)
LEMMA RotateFailsOK ==
    ASSUME NEW s, Working(s), s.buffer = <<>>, NEW r \in RotateFails(s)
    PROVE  Failed(r) /\ Part(KeptOf(s), KeptOf(r))
<1> DEFINE w == Dropping(s).s
           n == Len(w.sizes)
           then(k) == [w EXCEPT !.files = Renamed(@, k, n)]
<1>1. s \in SinkType /\ Bounded(s) /\ KeptOf(s) \in Seq(Lines)
    BY KeptIs DEF Working, Bounded
<1>2. CASE r = Disabled(s)
    <2>1. Failed(r) /\ KeptOf(r) = KeptOf(s)
        BY <1>1, <1>2, DisabledOK
    <2> QED
        BY <1>1, <2>1, Unchanged
<1>3. ASSUME Rotated # 0, NEW k \in 1 .. n + 1, r = Disabled(then(k))
      PROVE  Failed(r) /\ Part(KeptOf(s), KeptOf(r))
    <2>1. Ready(w) /\ Rest(KeptOf(s), KeptOf(w), Dropping(s).lost)
        BY DroppingOK
    <2> HIDE DEF w
    <2>2. /\ w \in SinkType /\ n \in Nat /\ w.sizes \in Seq(Nat)
          /\ \A i \in n + 1 .. Rotated + 1 : w.files[i] = <<>>
          /\ w.buffer = <<>>
        <3>1. w \in SinkType
            BY <2>1 DEF Ready, Bounded
        <3>2. w.sizes \in Seq(Nat)
            BY <3>1 DEF SinkType
        <3>3. /\ \A i \in n + 1 .. Rotated + 1 : w.files[i] = <<>>
              /\ w.buffer = <<>>
            BY <2>1 DEF Ready
        <3> QED
            BY <3>1, <3>2, <3>3, LenProperties
    <2>3. k \in 0 .. n + 1
        BY <2>2
    <2> DEFINE files == Renamed(w.files, k, n)
               t == then(k)
    <2> HIDE DEF n
    <2>4. /\ files \in [Numbers -> Seq(Lines)]
          /\ \A i \in Numbers : Bytes(files[i]) =< MaxBytes
          /\ files[Rotated + 1] = <<>>
          /\ n \in 0 .. Rotated
        <3> HIDE DEF files
        <3>1. files = Renamed(w.files, k, n) /\ n = Len(w.sizes)
            BY DEF files, n
        <3> QED
            BY <1>3, <2>1, <2>3, <3>1, RenamedBounded
    <2>5. /\ t \in SinkType /\ t.files = files /\ t.buffer = w.buffer
        <3>1. t = [w EXCEPT !.files = files]
            OBVIOUS
        <3> HIDE DEF files, t
        <3> QED
            BY <2>2, <2>4, <3>1 DEF SinkType
    <2>6. t.files = Renamed(w.files, k, n)
        BY <2>5
    <2>7. r = Disabled(t)
        BY <1>3
    <2> HIDE DEF t, then
    <2>8. KeptOf(t) = KeptOf(w)
        BY <2>2, <2>3, <2>4, <2>5, <2>6, KeptRenamed
    <2> HIDE DEF files
    <2>9. Bounded(t) /\ t.buffer = <<>>
        BY <2>2, <2>4, <2>5 DEF Bounded
    <2>10. Failed(r) /\ KeptOf(r) = KeptOf(t)
        BY <2>7, <2>9, DisabledOK
    <2>11. Part(KeptOf(s), KeptOf(w))
        BY <1>1, <2>1, PartOf
    <2> QED
        BY <2>8, <2>10, <2>11
<1> QED
    <2>1. \/ r = Disabled(s)
          \/ Rotated # 0 /\ (\E k \in 1 .. n + 1 : r = Disabled(then(k)))
        BY DEF RotateFails
    <2> HIDE DEF w, n, then
    <2> QED
        BY <1>2, <1>3, <2>1

(* A sink that has begun a new file knows the size of each, and keeps the log.  *)
LEMMA FreshOK ==
    ASSUME NEW w, Ready(w), NEW x \in SinkType,
           x.buffer = <<>>, x.current = 0, ~x.disabled,
           Rotated = 0 => x.files = w.files /\ x.sizes = w.sizes,
           Rotated # 0 => /\ x.files = Renamed(w.files, 0, Len(w.sizes))
                          /\ x.sizes = <<w.current>> \o w.sizes
    PROVE  Working(x) /\ KeptOf(x) = KeptOf(w)
<1> DEFINE none == <<>>
           n == Len(w.sizes)
<1>1. /\ w \in SinkType /\ Rotated \in Nat /\ n \in Nat /\ w.sizes \in Seq(Nat) /\ n =< Rotated
      /\ w.current \in Nat /\ w.current =< MaxBytes /\ 0 \in Numbers
      /\ w.files[0] \in Seq(Lines) /\ MaxBytes \in Nat
    <2>1. w \in SinkType /\ n =< Rotated /\ w.current =< MaxBytes
        BY DEF Ready, Bounded
    <2> QED
        BY <2>1, SinkParts, Limits, LenProperties
<1>2. /\ w.buffer = none /\ Bounded(w)
      /\ \A k \in 1 .. n : w.sizes[k] = Bytes(w.files[k])
      /\ \A k \in n + 1 .. Rotated + 1 : w.files[k] = none
      /\ Rotated = 0 => Live(w) = none
      /\ Rotated # 0 => w.current = Bytes(Live(w)) /\ n + 1 =< Rotated
    BY DEF Ready
<1>3. none \in Seq(Lines) /\ Bytes(none) = 0 /\ none \o none = none
    BY EmptyLines
<1>4. CASE Rotated = 0
    <2>1. x.files = w.files /\ x.sizes = w.sizes /\ n = 0
        BY <1>1, <1>4
    <2>2. Live(x) = Live(w) /\ Live(x) = none
        BY <1>2, <1>4, <2>1 DEF Live
    <2>3. KeptOf(x) = KeptOf(w)
        BY <1>1, <2>1, <2>2, KeptSame
    <2>4. Bounded(x)
        BY <1>2, <2>1 DEF Bounded
    <2>5. Exact(x)
        <3>1. \A k \in 1 .. 0 : x.sizes[k] = Bytes(x.files[k])
            OBVIOUS
        <3> HIDE DEF none
        <3> QED
            BY <1>1, <1>2, <1>3, <2>1, <2>2, <3>1 DEF Exact, none
    <2> QED
        BY <2>3, <2>4, <2>5 DEF Working
<1>5. CASE Rotated # 0
    <2> DEFINE zero == 0  one == <<w.current>>
    <2>0. zero \in 0 .. n + 1 /\ one \in Seq(Nat) /\ Len(one) = 1 /\ one[1] = w.current
        BY <1>1
    <2>1. x.files = Renamed(w.files, zero, n) /\ x.sizes = one \o w.sizes
        BY <1>5
    <2> HIDE DEF n, none, zero
    <2>2. /\ \A i \in Numbers : Bytes(x.files[i]) =< MaxBytes
          /\ x.files[Rotated + 1] = <<>>
          /\ \A i \in Numbers : x.files[i] = IF i = zero THEN <<>>
                                           ELSE IF zero < i /\ i =< n + 1 THEN w.files[i - 1]
                                           ELSE w.files[i]
          /\ n \in 0 .. Rotated
        <3>1. n = Len(w.sizes)
            BY DEF n
        <3> QED
            BY <1>5, <2>0, <2>1, <3>1, RenamedBounded
    <2>3. KeptOf(x) = KeptOf(w)
        <3>1. w.buffer = <<>> /\ \A i \in n + 1 .. Rotated + 1 : w.files[i] = <<>>
            BY <1>2 DEF none
        <3> QED
            BY <1>1, <2>0, <2>1, <2>2, <3>1, KeptRenamed
    <2>4. \A i \in 1 .. n + 1 : x.files[i] = w.files[i - 1]
        <3>1. \A i \in 1 .. n + 1 : i \in Numbers /\ i # 0 /\ 0 < i /\ i =< n + 1
            BY <1>1 DEF Numbers
        <3> QED
            BY <2>2, <3>1 DEF zero
    <2>5. \A i \in n + 2 .. Rotated + 1 : x.files[i] = none
        <3>1. \A i \in n + 2 .. Rotated + 1 : i \in Numbers /\ i # 0 /\ ~ (i =< n + 1)
                                              /\ i \in n + 1 .. Rotated + 1
            BY <1>1 DEF Numbers
        <3>2. \A i \in n + 2 .. Rotated + 1 : x.files[i] = w.files[i]
            BY <2>2, <3>1 DEF zero
        <3> QED
            BY <1>2, <3>1, <3>2
    <2>6. x.files[0] = none
        BY <1>1, <2>2 DEF zero, none
    <2>7. Live(x) = none /\ Live(w) = w.files[0]
        <3>1. w.files[0] \o none = w.files[0]
            BY <1>1, ConcatEmptySeq DEF none
        <3>2. x.buffer = none
            BY DEF none
        <3> QED
            BY <1>2, <1>3, <2>6, <3>1, <3>2 DEF Live
    <2>8. /\ Len(x.sizes) = n + 1
          /\ x.sizes[1] = w.current
          /\ \A i \in 2 .. n + 1 : x.sizes[i] = w.sizes[i - 1]
        <3> DEFINE b == w.sizes
        <3>1. b \in Seq(Nat) /\ Len(b) = n
            BY <1>1 DEF n
        <3> HIDE DEF b, one
        <3>2. /\ Len(one \o b) = 1 + n
              /\ \A i \in 1 .. 1 + n : (one \o b)[i] = IF i =< 1 THEN one[i] ELSE b[i - 1]
            <4>1. one \in Seq(Nat) /\ Len(one) = 1
                BY <2>0
            <4>2. /\ Len(one \o b) = Len(one) + Len(b)
                  /\ \A i \in 1 .. Len(one) + Len(b) :
                        (one \o b)[i] = IF i =< Len(one) THEN one[i] ELSE b[i - Len(one)]
                BY <3>1, <4>1, ConcatProperties
            <4> QED
                BY <3>1, <4>1, <4>2
        <3>3. x.sizes = one \o b
            BY <2>1 DEF b
        <3>4. (one \o b)[1] = w.current
            <4>1. 1 \in 1 .. 1 + n /\ 1 =< 1
                BY <1>1
            <4>2. (one \o b)[1] = one[1]
                BY <3>2, <4>1
            <4> QED
                BY <2>0, <4>2
        <3>5. \A i \in 2 .. n + 1 : (one \o b)[i] = b[i - 1]
            BY <1>1, <3>2
        <3> QED
            BY <1>1, <3>2, <3>3, <3>4, <3>5 DEF b
    <2>9. \A k \in 1 .. n + 1 : x.sizes[k] = Bytes(x.files[k])
        <3> SUFFICES ASSUME NEW k \in 1 .. n + 1 PROVE x.sizes[k] = Bytes(x.files[k])
            OBVIOUS
        <3>1. x.files[k] = w.files[k - 1]
            BY <2>4
        <3>2. CASE k = 1
            <4>1. k - 1 = 0
                BY <3>2
            <4>2. w.current = Bytes(w.files[0])
                BY <1>2, <1>5, <2>7
            <4> QED
                BY <2>8, <3>1, <3>2, <4>1, <4>2
        <3>3. CASE k # 1
            <4>1. k \in 2 .. n + 1 /\ k - 1 \in 1 .. n
                BY <1>1, <3>3
            <4>2. x.sizes[k] = w.sizes[k - 1]
                BY <2>8, <4>1
            <4>3. w.sizes[k - 1] = Bytes(w.files[k - 1])
                BY <1>2, <4>1
            <4> QED
                BY <3>1, <4>2, <4>3
        <3> QED
            BY <3>2, <3>3
    <2>10. Exact(x)
        <3>1. \A k \in (n + 1) + 1 .. Rotated + 1 : x.files[k] = none
            <4>1. (n + 1) + 1 = n + 2
                BY <1>1
            <4> QED
                BY <2>5, <4>1
        <3>2. n + 1 =< Rotated
            BY <1>2, <1>5
        <3>3. x.current = Bytes(Live(x)) /\ x.current =< MaxBytes
            BY <1>1, <1>3, <2>7
        <3> QED
            BY <2>8, <2>9, <3>1, <3>2, <3>3 DEF Exact, none
    <2>11. Bounded(x)
        BY <2>2 DEF Bounded
    <2> QED
        BY <2>3, <2>10, <2>11 DEF Working
<1> QED
    BY <1>4, <1>5

(* A rotation that succeeds goes on with a log of what is left and one record.  *)
LEMMA RotateSucceedsOK ==
    ASSUME NEW s, Working(s), s.buffer = <<>>, NEW r, r = RotateSucceeds(s)
    PROVE  Working(r) /\ r.current = MetaSize /\ Rolled(KeptOf(s), KeptOf(r))
<1> DEFINE d == Dropping(s)
           w == d.s
           fresh == IF Rotated = 0 THEN w
                    ELSE [w EXCEPT !.files = Renamed(@, 0, Len(w.sizes)),
                                   !.sizes = <<s.current>> \o @]
           x == [fresh EXCEPT !.current = 0, !.seq = @ + 1]
           rec == [seq |-> s.seq, size |-> MetaSize, lost |-> d.lost]
<1>1. /\ Ready(w) /\ w.current = s.current /\ Rest(KeptOf(s), KeptOf(w), d.lost)
      /\ d.lost \in Nat
    BY DroppingOK
<1>2. r = Appended(x, rec)
    BY DEF RotateSucceeds
<1> HIDE DEF d, w
<1>3. s \in SinkType /\ w \in SinkType /\ s.seq \in Nat /\ s.current \in Nat /\ w.buffer = <<>>
      /\ ~w.disabled
    <2>1. s \in SinkType /\ w \in SinkType
        BY <1>1 DEF Working, Bounded, Ready
    <2> QED
        BY <1>1, <2>1, SinkParts DEF Ready
<1>4. fresh \in SinkType /\ fresh.buffer = w.buffer /\ fresh.disabled = w.disabled
      /\ (Rotated = 0 => fresh.files = w.files /\ fresh.sizes = w.sizes)
      /\ (Rotated # 0 => /\ fresh.files = Renamed(w.files, 0, Len(w.sizes))
                         /\ fresh.sizes = <<s.current>> \o w.sizes)
    <2>1. CASE Rotated = 0
        BY <1>3, <2>1
    <2>2. CASE Rotated # 0
        <3> DEFINE files == Renamed(w.files, 0, Len(w.sizes))
                   sizes == <<s.current>> \o w.sizes
        <3>1. fresh = [w EXCEPT !.files = files, !.sizes = sizes]
            BY <2>2
        <3>2. files \in [Numbers -> Seq(Lines)]
            <4> DEFINE n == Len(w.sizes)  zero == 0
            <4>1. n \in Nat /\ zero \in 0 .. n + 1
                <5>1. w.sizes \in Seq(Nat)
                    BY <1>3, SinkParts
                <5> QED
                    BY <5>1, LenProperties
            <4>2. files = Renamed(w.files, zero, n) /\ n = Len(w.sizes)
                OBVIOUS
            <4> HIDE DEF n, zero, files
            <4> QED
                BY <1>1, <2>2, <4>1, <4>2, RenamedBounded
        <3>3. sizes \in Seq(Nat)
            <4> DEFINE one == <<s.current>>
            <4>1. one \in Seq(Nat) /\ w.sizes \in Seq(Nat)
                BY <1>3, SinkParts
            <4> HIDE DEF one
            <4>2. one \o w.sizes \in Seq(Nat)
                BY <4>1, ConcatProperties
            <4> QED
                BY <4>2 DEF one
        <3> HIDE DEF files, sizes, fresh
        <3>4. /\ fresh \in SinkType /\ fresh.files = files /\ fresh.sizes = sizes
              /\ fresh.buffer = w.buffer /\ fresh.disabled = w.disabled
            BY <1>3, <3>1, <3>2, <3>3 DEF SinkType
        <3> QED
            BY <2>2, <3>4 DEF files, sizes
    <2> QED
        BY <2>1, <2>2
<1> HIDE DEF fresh
<1>5. /\ x \in SinkType /\ x.files = fresh.files /\ x.sizes = fresh.sizes
      /\ x.buffer = fresh.buffer /\ x.disabled = fresh.disabled /\ x.current = 0
    <2>1. fresh \in SinkType
        BY <1>4
    <2>2. x = [fresh EXCEPT !.current = 0, !.seq = @ + 1]
        OBVIOUS
    <2> HIDE DEF x
    <2>3. fresh.seq + 1 \in Nat
        BY <2>1 DEF SinkType
    <2> QED
        BY <2>1, <2>2, <2>3 DEF SinkType
<1> HIDE DEF x
<1>6. Working(x) /\ KeptOf(x) = KeptOf(w)
    <2>1. x.buffer = <<>> /\ ~x.disabled /\ x.current = 0
        BY <1>3, <1>4, <1>5
    <2>2. Rotated = 0 => x.files = w.files /\ x.sizes = w.sizes
        BY <1>4, <1>5
    <2>3. Rotated # 0 => /\ x.files = Renamed(w.files, 0, Len(w.sizes))
                         /\ x.sizes = <<w.current>> \o w.sizes
        BY <1>1, <1>4, <1>5
    <2> QED
        BY <1>1, <1>5, <2>1, <2>2, <2>3, FreshOK
<1>7. rec \in Lines /\ rec.size = MetaSize /\ rec.lost = d.lost
    BY <1>1, <1>3, Limits DEF Lines
<1> HIDE DEF rec
<1>8. x.current + rec.size = MetaSize /\ MetaSize =< MaxBytes
    BY <1>5, <1>7, Limits
<1>9. Working(r) /\ KeptOf(r) = Append(KeptOf(x), rec)
    BY <1>2, <1>6, <1>7, <1>8, AppendedOK
<1>10. r.current = MetaSize
    <2>1. r.current = x.current + rec.size
        BY <1>2, <1>5 DEF Appended, SinkType
    <2> QED
        BY <1>8, <2>1
<1>11. Rolled(KeptOf(s), KeptOf(r))
    <2>1. PICK k \in 0 .. Len(KeptOf(s)) :
              /\ KeptOf(w) = SubSeq(KeptOf(s), k + 1, Len(KeptOf(s)))
              /\ d.lost = Bytes(SubSeq(KeptOf(s), 1, k))
        BY <1>1 DEF Rest
    <2> QED
        BY <1>6, <1>7, <1>9, <2>1 DEF Rolled
<1> QED
    BY <1>9, <1>10, <1>11

-----------------------------------------------------------------------------
(* Writing.                                                                 *)

(* One record or two have come, and the first tells of what they took the      *)
(* room of.                                                                *)
Grew(l, m) ==
    \E j \in Seq(Lines) :
        /\ Rolled(l, j)
        /\ m = j \/ \E line \in Lines : line.lost = 0 /\ m = Append(j, line)

(* What a failure leaves.                                                    *)
Broke(l, m) == Part(l, m) \/ Grew(l, m)

LEMMA RolledSeq ==
    ASSUME NEW l \in Seq(Lines), NEW m, Rolled(l, m)
    PROVE  m \in Seq(Lines)
<1>1. PICK rec \in Lines, k \in 0 .. Len(l) : m = Append(SubSeq(l, k + 1, Len(l)), rec)
    BY DEF Rolled
<1> DEFINE a == SubSeq(l, k + 1, Len(l))
<1>2. a \in Seq(Lines)
    OBVIOUS
<1> HIDE DEF a
<1>3. Append(a, rec) \in Seq(Lines)
    BY <1>2, AppendProperties
<1> QED
    BY <1>1, <1>3 DEF a

LEMMA SameSink ==
    ASSUME NEW s \in SinkType, NEW t \in SinkType, t.files = s.files, t.sizes = s.sizes,
           t.buffer = s.buffer, t.current = s.current, t.disabled = s.disabled
    PROVE  /\ Working(s) => Working(t)
           /\ Failed(s) => Failed(t)
           /\ KeptOf(t) = KeptOf(s)
<1>1. Live(t) = Live(s)
    BY DEF Live
<1>2. KeptOf(t) = KeptOf(s)
    BY <1>1, KeptSame
<1>3. Bounded(s) => Bounded(t)
    BY DEF Bounded
<1>4. Exact(s) => Exact(t)
    BY <1>1 DEF Exact
<1> QED
    BY <1>2, <1>3, <1>4 DEF Working, Failed

(* A rotation succeeds, or fails.                                            *)
LEMMA RotationsOK ==
    ASSUME NEW s, Working(s), NEW r \in Rotations(s)
    PROVE  \/ Working(r) /\ r.current = MetaSize /\ Rolled(KeptOf(s), KeptOf(r))
           \/ Failed(r) /\ Part(KeptOf(s), KeptOf(r))
<1>1. s \in SinkType /\ KeptOf(s) \in Seq(Lines)
    BY KeptIs DEF Working, Bounded
<1>2. PICK f \in Flushed(s) :
          IF f.disabled THEN r = f ELSE r \in RotateFails(f) \/ r = RotateSucceeds(f)
    BY DEF Rotations
<1>3. CASE f.disabled
    <2>1. Failed(f) /\ First(KeptOf(s), KeptOf(f))
        BY <1>3, FlushedOK DEF Working
    <2> QED
        BY <1>1, <1>2, <1>3, <2>1, PartOf
<1>4. CASE ~f.disabled
    <2>1. Working(f) /\ f.buffer = <<>> /\ KeptOf(f) = KeptOf(s)
        BY <1>4, FlushedOK DEF Failed
    <2>2. CASE r \in RotateFails(f)
        <3>1. Failed(r) /\ Part(KeptOf(f), KeptOf(r))
            BY <2>1, <2>2, RotateFailsOK
        <3>2. KeptOf(f) = KeptOf(s)
            BY <2>1
        <3> QED
            BY <3>1, <3>2
    <2>3. CASE r = RotateSucceeds(f)
        <3>1. Working(r) /\ r.current = MetaSize /\ Rolled(KeptOf(f), KeptOf(r))
            BY <2>1, <2>3, RotateSucceedsOK
        <3>2. KeptOf(f) = KeptOf(s)
            BY <2>1
        <3> QED
            BY <3>1, <3>2
    <2> QED
        BY <1>2, <1>4, <2>2, <2>3
<1> QED
    BY <1>3, <1>4

(* w is what a write may make of a sink that kept l.                          *)
Written(l, w) ==
    \/ Working(w) /\ (KeptOf(w) = l \/ Grew(l, KeptOf(w)))
    \/ Failed(w) /\ Broke(l, KeptOf(w))

(* A line is skipped, or buffered, or written after a rotation, or lost to a   *)
(* failure.                                                                *)
LEMMA WriteLineOK ==
    ASSUME NEW s, Working(s), NEW line \in Lines, line.lost = 0, NEW w \in WriteLine(s, line)
    PROVE  Written(KeptOf(s), w)
<1> DEFINE l == KeptOf(s)
<1>1. s \in SinkType /\ l \in Seq(Lines) /\ s.current \in Nat /\ line.size \in Nat
    <2>1. s \in SinkType
        BY DEF Working, Bounded
    <2> QED
        BY <2>1, KeptIs, SinkParts DEF Lines
<1> HIDE DEF l
<1>2. CASE w = s
    BY <1>2 DEF Written, l
<1>3. CASE s.current + line.size =< MaxBytes /\ w = Appended(s, line)
    <2>1. Working(w) /\ KeptOf(w) = Append(l, line)
        BY <1>3, AppendedOK DEF l
    <2>2. Rolled(l, KeptOf(w))
        <3>1. PICK k \in 0 .. Len(l) :
                  l = SubSeq(l, k + 1, Len(l)) /\ 0 = Bytes(SubSeq(l, 1, k))
            BY <1>1, Unchanged DEF Rest
        <3> QED
            BY <2>1, <3>1 DEF Rolled
    <2>3. KeptOf(w) \in Seq(Lines)
        BY <1>1, <2>2, RolledSeq
    <2> QED
        BY <2>1, <2>2, <2>3 DEF Written, Grew, l
<1>4. ASSUME NEW r \in Rotations(s),
             w = IF r.disabled \/ r.current + line.size > MaxBytes THEN r ELSE Appended(r, line)
      PROVE  Written(l, w)
    <2>1. CASE Failed(r) /\ Part(l, KeptOf(r))
        <3>1. w = r
            BY <1>4, <2>1 DEF Failed
        <3> QED
            BY <2>1, <3>1 DEF Written, Broke
    <2>2. CASE Working(r) /\ r.current = MetaSize /\ Rolled(l, KeptOf(r))
        <3>1. KeptOf(r) \in Seq(Lines) /\ ~r.disabled
            BY <1>1, <2>2, RolledSeq DEF Working
        <3>2. CASE w = r
            BY <2>2, <3>1, <3>2 DEF Written, Grew
        <3>3. CASE w # r
            <4>1. r.current + line.size =< MaxBytes /\ w = Appended(r, line)
                BY <1>1, <1>4, <2>2, <3>1, <3>3, Limits
            <4>2. Working(w) /\ KeptOf(w) = Append(KeptOf(r), line)
                BY <2>2, <4>1, AppendedOK
            <4>3. Grew(l, KeptOf(w))
                BY <2>2, <3>1, <4>2 DEF Grew
            <4> QED
                BY <4>2, <4>3 DEF Written
        <3> QED
            BY <3>2, <3>3
    <2> QED
        BY <2>1, <2>2, RotationsOK DEF l
<1> QED
    <2>1. \/ w = s
          \/ s.current + line.size =< MaxBytes /\ w = Appended(s, line)
          \/ \E r \in Rotations(s) :
                 w = IF r.disabled \/ r.current + line.size > MaxBytes THEN r ELSE Appended(r, line)
        BY DEF WriteLine
    <2> QED
        BY <1>2, <1>3, <1>4, <2>1 DEF l

LEMMA FirstOfAppend ==
    ASSUME NEW l \in Seq(Lines), NEW line \in Lines, NEW m, First(Append(l, line), m)
    PROVE  m = Append(l, line) \/ First(l, m)
<1> DEFINE j == Append(l, line)
           c == Len(l)
<1>1. /\ c \in Nat /\ j \in Seq(Lines) /\ Len(j) = c + 1
      /\ \A i \in 1 .. c : j[i] = l[i] /\ l[i] \in Lines
    BY AppendProperties, ElementOfSeq
<1>2. PICK n \in 0 .. c + 1 : m = SubSeq(j, 1, n)
    BY <1>1 DEF First
<1> HIDE DEF j
<1>3. CASE n = c + 1
    BY <1>1, <1>2, <1>3, SubSeqFull DEF j
<1>4. CASE n # c + 1
    <2>1. n \in 0 .. c
        BY <1>1, <1>4
    <2> DEFINE a == SubSeq(j, 1, n)  b == SubSeq(l, 1, n)
    <2>2. a \in Seq(Lines) /\ Len(a) = n /\ \A i \in 1 .. n : a[i] = l[i]
        <3>1. \A i \in 1 .. n : j[i] \in Lines /\ j[i] = l[i]
            BY <1>1, <2>1
        <3> QED
            BY <1>1, <2>1, <3>1, SubSeqProperties
    <2>3. b \in Seq(Lines) /\ Len(b) = n /\ \A i \in 1 .. n : b[i] = l[i]
        <3>1. \A i \in 1 .. n : l[i] \in Lines
            BY <1>1, <2>1
        <3> QED
            BY <1>1, <2>1, <3>1, SubSeqProperties
    <2>4. a = b
        <3> HIDE DEF a, b
        <3> QED
            BY <2>2, <2>3, SeqEqual
    <2> QED
        BY <1>2, <2>1, <2>4 DEF First
<1> QED
    BY <1>3, <1>4

LEMMA FirstOfLast ==
    ASSUME NEW l \in Seq(Lines), NEW k \in 0 .. Len(l), NEW m,
           First(SubSeq(l, k + 1, Len(l)), m)
    PROVE  Part(l, m)
<1> DEFINE c == Len(l)
           j == SubSeq(l, k + 1, c)
<1>1. c \in Nat /\ k \in Nat /\ k =< c /\ k + 1 \in Int /\ \A i \in 1 .. c : l[i] \in Lines
    BY ElementOfSeq, LenProperties
<1>2. /\ j \in Seq(Lines) /\ Len(j) = c - k
      /\ \A i \in 1 .. c - k : j[i] = l[k + i]
    <2> DEFINE d == k + 1
    <2>1. d \in Int /\ c \in Int /\ \A i \in d .. c : l[i] \in Lines
        BY <1>1
    <2>2. /\ SubSeq(l, d, c) \in Seq(Lines)
          /\ Len(SubSeq(l, d, c)) = IF d =< c THEN c - d + 1 ELSE 0
          /\ \A i \in 1 .. c - d + 1 : SubSeq(l, d, c)[i] = l[d + i - 1]
        <3> HIDE DEF d, c
        <3> QED
            BY <2>1, SubSeqProperties
    <2> QED
        BY <1>1, <2>2
<1>3. PICK n \in 0 .. c - k : m = SubSeq(j, 1, n)
    BY <1>2 DEF First
<1> DEFINE b == SubSeq(l, k + 1, k + n)
<1>4. n \in Nat /\ k + n \in k .. c
    BY <1>1
<1> HIDE DEF j, c
<1>5. m \in Seq(Lines) /\ Len(m) = n /\ \A i \in 1 .. n : m[i] = l[k + i]
    <2>1. \A i \in 1 .. n : j[i] \in Lines /\ j[i] = l[k + i]
        BY <1>1, <1>2, <1>4
    <2> QED
        BY <1>3, <1>4, <2>1, SubSeqProperties
<1>6. b \in Seq(Lines) /\ Len(b) = n /\ \A i \in 1 .. n : b[i] = l[k + i]
    <2> DEFINE d == k + 1  e == k + n
    <2>1. d \in Int /\ e \in Int /\ \A i \in d .. e : l[i] \in Lines
        BY <1>1, <1>4
    <2>2. /\ SubSeq(l, d, e) \in Seq(Lines)
          /\ Len(SubSeq(l, d, e)) = IF d =< e THEN e - d + 1 ELSE 0
          /\ \A i \in 1 .. e - d + 1 : SubSeq(l, d, e)[i] = l[d + i - 1]
        <3> HIDE DEF d, e
        <3> QED
            BY <2>1, SubSeqProperties
    <2> QED
        BY <1>1, <1>4, <2>2
<1>7. m = b
    <2> HIDE DEF b
    <2> QED
        BY <1>5, <1>6, SeqEqual
<1> QED
    BY <1>4, <1>7 DEF Part, c

(* A part from the start of a log that grew is a part of what it was, or that.  *)
LEMMA FirstOfGrown ==
    ASSUME NEW l \in Seq(Lines), NEW j, j = l \/ Grew(l, j), NEW m, First(j, m)
    PROVE  Broke(l, m)
<1>1. ASSUME NEW i \in Seq(Lines), Rolled(l, i), First(i, m)
      PROVE  Broke(l, m)
    <2>1. PICK rec \in Lines, k \in 0 .. Len(l) : i = Append(SubSeq(l, k + 1, Len(l)), rec)
        BY <1>1 DEF Rolled
    <2> DEFINE a == SubSeq(l, k + 1, Len(l))
    <2>2. a \in Seq(Lines)
        OBVIOUS
    <2>3. CASE m = i
        BY <1>1, <2>3 DEF Broke, Grew
    <2>4. CASE First(a, m)
        BY <2>4, FirstOfLast DEF Broke
    <2> HIDE DEF a
    <2>5. m = i \/ First(a, m)
        BY <1>1, <2>1, <2>2, FirstOfAppend DEF a
    <2> QED
        BY <2>3, <2>4, <2>5
<1>2. CASE j = l
    BY <1>2, PartOf DEF Broke
<1>3. CASE Grew(l, j)
    <2>1. PICK i \in Seq(Lines) : /\ Rolled(l, i)
                                  /\ j = i \/ \E line \in Lines : line.lost = 0 /\ j = Append(i, line)
        BY <1>3 DEF Grew
    <2>2. CASE j = i
        BY <1>1, <2>1, <2>2
    <2>3. ASSUME NEW line \in Lines, j = Append(i, line)
          PROVE  Broke(l, m)
        <3>1. m = j \/ First(i, m)
            BY <2>3, FirstOfAppend
        <3>2. CASE m = j
            BY <1>3, <3>2 DEF Broke
        <3> QED
            BY <1>1, <2>1, <3>1, <3>2
    <2> QED
        BY <2>1, <2>2, <2>3
<1> QED
    BY <1>2, <1>3

LEMMA FlushedUnlessOK ==
    ASSUME NEW l \in Seq(Lines), NEW s, Written(l, s), NEW f \in FlushedUnless(s)
    PROVE  Written(l, f)
<1>1. CASE s.disabled
    BY <1>1 DEF FlushedUnless
<1>2. CASE ~s.disabled
    <2>1. Working(s) /\ (KeptOf(s) = l \/ Grew(l, KeptOf(s))) /\ f \in Flushed(s)
        BY <1>2 DEF FlushedUnless, Written, Failed
    <2>2. CASE Working(f) /\ KeptOf(f) = KeptOf(s)
        BY <2>1, <2>2 DEF Written
    <2>3. CASE Failed(f) /\ First(KeptOf(s), KeptOf(f))
        BY <2>1, <2>3, FirstOfGrown DEF Written
    <2> QED
        BY <2>1, <2>2, <2>3, FlushedOK
<1> QED
    BY <1>1, <1>2

LEMMA EmittedOK ==
    ASSUME NEW s, Working(s), NEW e \in Emitted(s)
    PROVE  Written(KeptOf(s), e)
<1> DEFINE t == [s EXCEPT !.seq = @ + 1]
           line == [seq |-> s.seq, size |-> MetaSize, lost |-> 0]
<1>1. s \in SinkType
    BY DEF Working, Bounded
<1>2. /\ t \in SinkType /\ t.files = s.files /\ t.sizes = s.sizes
      /\ t.buffer = s.buffer /\ t.current = s.current /\ t.disabled = s.disabled
    BY <1>1 DEF SinkType
<1>3. line \in Lines /\ line.lost = 0
    BY <1>1, Limits DEF Lines, SinkType
<1>4. e \in WriteLine(t, line)
    BY DEF Emitted
<1> HIDE DEF t, line
<1>5. Working(t) /\ KeptOf(t) = KeptOf(s)
    BY <1>1, <1>2, SameSink
<1>6. Written(KeptOf(t), e)
    BY <1>3, <1>4, <1>5, WriteLineOK
<1> QED
    BY <1>5, <1>6

LEMMA ClosingsOK ==
    ASSUME NEW s, Working(s), NEW c \in Closings(s)
    PROVE  Written(KeptOf(s), c)
<1>1. PICK e \in Emitted(s) : c \in FlushedUnless(e)
    BY DEF Closings, Working
<1>2. KeptOf(s) \in Seq(Lines)
    BY KeptIs DEF Working, Bounded
<1> QED
    BY <1>1, <1>2, EmittedOK, FlushedUnlessOK

-----------------------------------------------------------------------------
(* The start of a trace.                                                     *)

LEMMA NewSinkOK == Working(NewSink) /\ KeptOf(NewSink) = <<>> /\ NewSink.current = 0
<1> DEFINE none == <<>>
           files == [k \in 0 .. Rotated + 1 |-> none]
           t == [files |-> files, sizes |-> none, buffer |-> none,
                 current |-> 0, seq |-> 0, disabled |-> FALSE, pending |-> FALSE]
<1>1. NewSink = t
    BY DEF NewSink
<1>2. none \in Seq(Lines) /\ none \in Seq(Nat) /\ Len(none) = 0 /\ Bytes(none) = 0
      /\ none \o none = none
    BY EmptyLines
<1>3. Rotated \in Nat /\ MaxBytes \in Nat
    BY Limits
<1>4. files \in [Numbers -> Seq(Lines)] /\ \A k \in Numbers : files[k] = none
    BY <1>2 DEF Numbers
<1> HIDE DEF files, none
<1>5. /\ t \in SinkType /\ t.files = files /\ t.sizes = none /\ t.buffer = none /\ t.current = 0
      /\ ~t.disabled
    BY <1>2, <1>4 DEF SinkType
<1> HIDE DEF t
<1>6. 0 \in Numbers /\ Rotated + 1 \in Numbers /\ \A k \in 0 + 1 .. Rotated + 1 : k \in Numbers
    BY <1>3 DEF Numbers
<1>7. Live(t) = none
    BY <1>2, <1>4, <1>5, <1>6 DEF Live
<1>8. Working(t)
    <2>1. Bounded(t)
        <3>1. \A k \in Numbers : Bytes(t.files[k]) =< MaxBytes
            BY <1>2, <1>3, <1>4, <1>5
        <3>2. t.files[Rotated + 1] = none
            BY <1>4, <1>5, <1>6
        <3> QED
            BY <1>5, <3>1, <3>2 DEF Bounded, none
    <2>2. Exact(t)
        <3>1. /\ Len(t.sizes) = 0 /\ 0 =< Rotated /\ \A k \in 1 .. 0 : t.sizes[k] = Bytes(t.files[k])
              /\ \A k \in 0 + 1 .. Rotated + 1 : t.files[k] = none
            BY <1>2, <1>3, <1>4, <1>5, <1>6
        <3>2. t.current = Bytes(Live(t)) /\ t.current =< MaxBytes
            BY <1>2, <1>3, <1>5, <1>7
        <3> QED
            BY <3>1, <3>2 DEF Exact, none
    <2> QED
        BY <1>5, <2>1, <2>2 DEF Working
<1>9. KeptOf(t) = none
    <2>1. PICK f : Joins(f, t.files, Live(t))
        BY <1>5, KeptIs DEF Live
    <2>2. \A k \in 0 + 1 .. Rotated + 1 : t.files[k] = <<>>
        BY <1>4, <1>5, <1>6 DEF none
    <2>3. KeptOf(t) = f[0]
        BY <1>5, <1>6, <2>1, <2>2, KeptUpTo
    <2> QED
        BY <1>7, <2>1, <2>3 DEF Joins
<1> QED
    BY <1>1, <1>5, <1>8, <1>9 DEF none

(* A sink that has taken one line of its own takes at most one record more.   *)
LEMMA SecondOfItsOwn ==
    ASSUME NEW s, Working(s), s.current = MetaSize, NEW line \in Lines, line.size = MetaSize,
           NEW w \in WriteLine(s, line)
    PROVE  Len(KeptOf(w)) =< Len(KeptOf(s)) + 1 /\ (Working(w) \/ Failed(w))
<1> DEFINE l == KeptOf(s)
<1>1. s \in SinkType /\ l \in Seq(Lines) /\ Len(l) \in Nat
    <2>1. s \in SinkType
        BY DEF Working, Bounded
    <2> QED
        BY <2>1, KeptIs, LenProperties
<1> HIDE DEF l
<1>2. CASE w = s
    BY <1>1, <1>2 DEF l
<1>3. CASE s.current + line.size =< MaxBytes /\ w = Appended(s, line)
    <2>1. Working(w) /\ KeptOf(w) = Append(l, line)
        BY <1>3, AppendedOK DEF l
    <2>2. Len(Append(l, line)) = Len(l) + 1
        BY <1>1, AppendProperties
    <2> QED
        BY <1>1, <2>1, <2>2 DEF l
<1>4. ASSUME NEW r \in Rotations(s), ~ (s.current + line.size =< MaxBytes),
             w = IF r.disabled \/ r.current + line.size > MaxBytes THEN r ELSE Appended(r, line)
      PROVE  Len(KeptOf(w)) =< Len(l) + 1 /\ (Working(w) \/ Failed(w))
    <2>1. CASE Failed(r) /\ Part(l, KeptOf(r))
        <3>1. w = r
            BY <1>4, <2>1 DEF Failed
        <3>2. PICK k \in 0 .. Len(l) : \E n \in k .. Len(l) : KeptOf(r) = SubSeq(l, k + 1, n)
            BY <2>1 DEF Part
        <3>6. PICK n \in k .. Len(l) : KeptOf(r) = SubSeq(l, k + 1, n)
            BY <3>2
        <3>3. Len(SubSeq(l, k + 1, n)) = n - k /\ n - k =< Len(l) + 1
            BY <1>1
        <3> QED
            BY <2>1, <3>1, <3>6, <3>3
    <2>2. CASE Working(r) /\ r.current = MetaSize /\ Rolled(l, KeptOf(r))
        <3>1. w = r
            BY <1>4, <2>2, Limits
        <3>2. PICK rec \in Lines, k \in 0 .. Len(l) :
                  KeptOf(r) = Append(SubSeq(l, k + 1, Len(l)), rec)
            BY <2>2 DEF Rolled
        <3> DEFINE a == SubSeq(l, k + 1, Len(l))
        <3>3. a \in Seq(Lines) /\ Len(a) = Len(l) - k
            BY <1>1
        <3> HIDE DEF a
        <3>4. Len(Append(a, rec)) = (Len(l) - k) + 1
            BY <3>3, AppendProperties
        <3>5. (Len(l) - k) + 1 =< Len(l) + 1
            BY <1>1
        <3> QED
            BY <2>2, <3>1, <3>2, <3>4, <3>5 DEF a
    <2> QED
        BY <2>1, <2>2, RotationsOK DEF l
<1> QED
    <2>1. \/ w = s
          \/ s.current + line.size =< MaxBytes /\ w = Appended(s, line)
          \/ /\ ~ (s.current + line.size =< MaxBytes)
             /\ \E r \in Rotations(s) :
                 w = IF r.disabled \/ r.current + line.size > MaxBytes THEN r ELSE Appended(r, line)
        BY DEF WriteLine
    <2> QED
        BY <1>2, <1>3, <1>4, <2>1 DEF l

LEMMA FirstEmitted ==
    ASSUME NEW e \in Emitted(NewSink)
    PROVE  Working(e) /\ e.current = MetaSize /\ Len(KeptOf(e)) = 1
<1> DEFINE s == NewSink
           t == [s EXCEPT !.seq = @ + 1]
           line == [seq |-> s.seq, size |-> MetaSize, lost |-> 0]
<1>1. Working(s) /\ s.current = 0 /\ s \in SinkType /\ Len(KeptOf(s)) = 0 /\ KeptOf(s) \in Seq(Lines)
    <2>1. Working(s) /\ s.current = 0 /\ Len(KeptOf(s)) = 0
        BY NewSinkOK
    <2> QED
        BY <2>1, KeptIs DEF Working, Bounded
<1>2. e \in WriteLine(t, line)
    BY DEF Emitted
<1> HIDE DEF s
<1>3. /\ t \in SinkType /\ t.files = s.files /\ t.sizes = s.sizes
      /\ t.buffer = s.buffer /\ t.current = s.current /\ t.disabled = s.disabled
    <2>1. s \in SinkType
        BY <1>1
    <2>2. s.seq + 1 \in Nat
        BY <2>1 DEF SinkType
    <2> QED
        BY <2>1, <2>2 DEF SinkType
<1>4. line \in Lines /\ line.size = MetaSize
    BY <1>1, Limits DEF Lines, SinkType
<1> HIDE DEF t, line
<1>5. Working(t) /\ KeptOf(t) = KeptOf(s) /\ t.current = 0
    BY <1>1, <1>3, SameSink
<1>6. e = Appended(t, line) /\ t.current + line.size =< MaxBytes
    <2>1. t.current + line.size = MetaSize /\ MetaSize =< MaxBytes /\ ~ (line.size > MaxBytes)
        BY <1>4, <1>5, Limits
    <2> QED
        BY <1>2, <2>1 DEF WriteLine
<1>7. Working(e) /\ KeptOf(e) = Append(KeptOf(t), line)
    BY <1>4, <1>5, <1>6, AppendedOK
<1>8. Len(Append(KeptOf(t), line)) = Len(KeptOf(t)) + 1
    BY <1>1, <1>4, <1>5, AppendProperties
<1>9. e.current = MetaSize
    <2>1. e.current = t.current + line.size
        BY <1>3, <1>6 DEF Appended, SinkType
    <2> QED
        BY <1>4, <1>5, <2>1, Limits
<1> QED
    BY <1>1, <1>5, <1>7, <1>8, <1>9

(* A run that is rejected leaves two records at most: the live file is emptied. *)
LEMMA RejectedOK ==
    ASSUME NEW e \in Emitted(NewSink), NEW s \in Closings(e), NEW t,
           t = [s EXCEPT !.files[0] = <<>>, !.pending = FALSE]
    PROVE  Bounded(t) /\ KeptOf(t) \in Seq(Lines) /\ Len(KeptOf(t)) =< 2
<1>1. Working(e) /\ e.current = MetaSize /\ Len(KeptOf(e)) = 1
    BY FirstEmitted
<1>2. PICK w \in Emitted(e) : s \in FlushedUnless(w)
    BY <1>1 DEF Closings, Working
<1>3. Len(KeptOf(w)) =< 2 /\ (Working(w) \/ Failed(w))
    <2> DEFINE b == [e EXCEPT !.seq = @ + 1]
               line == [seq |-> e.seq, size |-> MetaSize, lost |-> 0]
    <2>1. e \in SinkType
        BY <1>1 DEF Working, Bounded
    <2>2. /\ b \in SinkType /\ b.files = e.files /\ b.sizes = e.sizes
          /\ b.buffer = e.buffer /\ b.current = e.current /\ b.disabled = e.disabled
        BY <2>1 DEF SinkType
    <2>3. line \in Lines /\ line.size = MetaSize
        BY <2>1, Limits DEF Lines, SinkType
    <2>4. w \in WriteLine(b, line)
        BY DEF Emitted
    <2> HIDE DEF b, line
    <2>5. Working(b) /\ KeptOf(b) = KeptOf(e) /\ b.current = MetaSize
        BY <1>1, <2>1, <2>2, SameSink
    <2>6. Len(KeptOf(w)) =< Len(KeptOf(b)) + 1 /\ (Working(w) \/ Failed(w))
        BY <2>3, <2>4, <2>5, SecondOfItsOwn
    <2>7. Len(KeptOf(b)) = 1
        BY <1>1, <2>5
    <2>8. 1 + 1 = 2
        OBVIOUS
    <2> QED
        BY <2>6, <2>7, <2>8
<1>4. Bounded(s) /\ s.buffer = <<>> /\ Len(KeptOf(s)) =< 2
    <2>1. CASE w.disabled
        <3>1. s = w /\ Failed(w)
            BY <1>2, <1>3, <2>1 DEF FlushedUnless, Working
        <3> QED
            BY <1>3, <3>1 DEF Failed
    <2>2. CASE ~w.disabled
        <3>1. s \in Flushed(w) /\ Working(w)
            BY <1>2, <1>3, <2>2 DEF FlushedUnless, Failed
        <3>2. CASE Working(s) /\ s.buffer = <<>> /\ KeptOf(s) = KeptOf(w)
            <4>1. Bounded(s)
                BY <3>2 DEF Working
            <4> QED
                BY <1>3, <3>2, <4>1
        <3>3. CASE Failed(s) /\ First(KeptOf(w), KeptOf(s))
            <4>1. PICK n \in 0 .. Len(KeptOf(w)) : KeptOf(s) = SubSeq(KeptOf(w), 1, n)
                BY <3>3 DEF First
            <4> DEFINE l == KeptOf(w)
            <4>2. l \in Seq(Lines) /\ Len(l) \in Nat /\ Len(l) =< 2
                <5>1. w \in SinkType
                    BY <3>1 DEF Working, Bounded
                <5> QED
                    BY <1>3, <5>1, KeptIs, LenProperties
            <4> HIDE DEF l
            <4>3. Len(SubSeq(l, 1, n)) = n /\ n =< 2
                BY <4>1, <4>2 DEF l
            <4> QED
                BY <3>3, <4>1, <4>3 DEF Failed, l
        <3> QED
            BY <3>1, <3>2, <3>3, FlushedOK
    <2> QED
        BY <2>1, <2>2
<1> DEFINE none == <<>>
           files == [s.files EXCEPT ![0] = none]
<1>5. none \in Seq(Lines) /\ Bytes(none) = 0 /\ none \o none = none
    BY EmptyLines
<1>6. s \in SinkType /\ s.files \in [Numbers -> Seq(Lines)] /\ 0 \in Numbers /\ Rotated \in Nat
    <2>1. s \in SinkType
        BY <1>4 DEF Bounded
    <2> QED
        BY <2>1, SinkParts DEF SinkType
<1>7. t = [s EXCEPT !.files = files, !.pending = FALSE]
    OBVIOUS
<1> HIDE DEF none
<1>8. files \in [Numbers -> Seq(Lines)] /\ files[0] = none
      /\ \A k \in Numbers : k # 0 => files[k] = s.files[k]
    BY <1>5, <1>6
<1> HIDE DEF files
<1>9. t \in SinkType /\ t.files = files /\ t.buffer = s.buffer
    BY <1>6, <1>7, <1>8 DEF SinkType
<1>10. Bounded(t)
    <2>1. \A k \in Numbers : Bytes(t.files[k]) =< MaxBytes
        <3> SUFFICES ASSUME NEW k \in Numbers PROVE Bytes(t.files[k]) =< MaxBytes
            OBVIOUS
        <3>1. CASE k = 0
            BY <1>5, <1>8, <1>9, <3>1, Limits
        <3>2. CASE k # 0
            BY <1>4, <1>8, <1>9, <3>2 DEF Bounded
        <3> QED
            BY <3>1, <3>2
    <2>2. t.files[Rotated + 1] = <<>>
        <3>1. Rotated + 1 \in Numbers /\ Rotated + 1 # 0
            BY <1>6 DEF Numbers
        <3>2. s.files[Rotated + 1] = <<>>
            BY <1>4 DEF Bounded
        <3>3. t.files[Rotated + 1] = s.files[Rotated + 1]
            BY <1>8, <1>9, <3>1
        <3> QED
            BY <3>2, <3>3
    <2> QED
        BY <1>9, <2>1, <2>2 DEF Bounded
<1>11. KeptOf(s) = KeptOf(t) \o s.files[0]
    <2> DEFINE tail == s.files[0]
    <2>1. tail \in Seq(Lines)
        BY <1>6
    <2> HIDE DEF tail
    <2>2. Live(s) = tail /\ Live(t) = none
        <3>1. tail \o none = tail
            BY <2>1, ConcatEmptySeq DEF none
        <3>2. s.buffer = none
            BY <1>4 DEF none
        <3> QED
            BY <1>5, <1>8, <1>9, <3>1, <3>2 DEF Live, tail
    <2>3. none \o tail = tail
        BY <2>1, ConcatEmptySeq DEF none
    <2>4. Live(s) = Live(t) \o tail
        BY <2>2, <2>3
    <2>5. \A k \in 1 .. Rotated + 1 : s.files[k] = t.files[k]
        <3>1. \A k \in 1 .. Rotated + 1 : k \in Numbers /\ k # 0
            BY <1>6 DEF Numbers
        <3> QED
            BY <1>8, <1>9, <3>1
    <2>6. KeptOf(s) = KeptOf(t) \o tail
        BY <1>6, <1>9, <2>1, <2>4, <2>5, KeptMore
    <2> QED
        BY <2>6 DEF tail
<1>12. Len(KeptOf(t)) =< 2
    <2> DEFINE a == KeptOf(t)  b == s.files[0]
    <2>1. a \in Seq(Lines) /\ b \in Seq(Lines)
        BY <1>6, <1>9, KeptIs
    <2>2. KeptOf(s) = a \o b
        BY <1>11
    <2> HIDE DEF a, b
    <2>3. Len(a \o b) = Len(a) + Len(b) /\ Len(a) \in Nat /\ Len(b) \in Nat
        BY <2>1, ConcatProperties, LenProperties
    <2>4. Len(a) + Len(b) =< 2
        BY <1>4, <2>2, <2>3
    <2> QED
        BY <2>3, <2>4 DEF a
<1> QED
    BY <1>9, <1>10, <1>12, KeptIs

-----------------------------------------------------------------------------
(* The steps of the log.                                                     *)

(* A log before its last n records, and these.                                *)
Before(m, n) == SubSeq(m, 1, Len(m) - n)
Added(m, n) == SubSeq(m, Len(m) - n + 1, Len(m))

(* What TraceLog allows of a log that fails, and of one that goes on.          *)
LogBreaks(l, m) ==
    \/ \E a \in 0 .. Len(l) : \E n \in a .. Len(l) : m = SubSeq(l, a + 1, n)
    \/ \E n \in 1 .. 2 : n <= Len(m)
                        /\ \E k \in 0 .. Len(l) : Before(m, n) = SubSeq(l, k + 1, Len(l))

LogGrows(l, m) ==
    \E n \in 1 .. 2 :
        /\ n <= Len(m)
        /\ \/ Before(m, n) = l /\ \A i \in 1 .. n : Added(m, n)[i].lost = 0
           \/ \E k \in 1 .. Len(l) :
                 /\ Before(m, n) = SubSeq(l, k + 1, Len(l))
                 /\ Added(m, n)[1].lost = Bytes(SubSeq(l, 1, k))
                 /\ \A i \in 2 .. n : Added(m, n)[i].lost = 0

(* What a log that has grown by some records ends with.                       *)
LEMMA Ends ==
    ASSUME NEW j \in Seq(Lines), NEW m \in Seq(Lines), NEW n \in Nat, Len(m) = Len(j) + n,
           \A i \in 1 .. Len(j) : m[i] = j[i]
    PROVE  /\ n =< Len(m) /\ Before(m, n) = j
           /\ \A i \in 1 .. n : Added(m, n)[i] = m[Len(j) + i]
<1> DEFINE c == Len(j)  d == Len(m)  h == SubSeq(m, 1, c)  e == c + 1  t == SubSeq(m, e, d)
<1>1. c \in Nat /\ d = c + n /\ d \in Nat /\ \A i \in 1 .. d : m[i] \in Lines
    BY ElementOfSeq, LenProperties
<1>2. d - n = c /\ d - n + 1 = e
    BY <1>1
<1>3. Before(m, n) = h /\ Added(m, n) = t
    BY <1>2 DEF Before, Added
<1>4. h = j
    <2>1. h \in Seq(Lines) /\ Len(h) = c /\ \A i \in 1 .. c : h[i] = m[i]
        <3>1. \A i \in 1 .. c : m[i] \in Lines
            BY <1>1
        <3> HIDE DEF c
        <3> QED
            BY <1>1, <3>1, SubSeqProperties
    <2>2. \A i \in 1 .. c : h[i] = j[i]
        BY <2>1
    <2> HIDE DEF h
    <2> QED
        BY <2>1, <2>2, SeqEqual
<1>5. \A i \in 1 .. n : t[i] = m[c + i]
    <2>1. e \in Int /\ d \in Int /\ \A i \in e .. d : m[i] \in Lines
        BY <1>1
    <2>2. \A i \in 1 .. d - e + 1 : t[i] = m[e + i - 1]
        <3> HIDE DEF e, d
        <3> QED
            BY <2>1, SubSeqProperties
    <2>3. d - e + 1 = n /\ \A i \in 1 .. n : e + i - 1 = c + i
        BY <1>1
    <2> HIDE DEF t, e, d, c
    <2> QED
        BY <2>2, <2>3
<1> HIDE DEF h, t
<1> QED
    BY <1>1, <1>3, <1>4, <1>5

LEMMA GrownEnds ==
    ASSUME NEW l \in Seq(Lines), NEW m, Grew(l, m)
    PROVE  /\ m \in Seq(Lines)
           /\ \E k \in 0 .. Len(l) : \E n \in 1 .. 2 :
                 /\ n <= Len(m)
                 /\ Before(m, n) = SubSeq(l, k + 1, Len(l))
                 /\ Added(m, n)[1].lost = Bytes(SubSeq(l, 1, k))
                 /\ \A i \in 2 .. n : Added(m, n)[i].lost = 0
<1>1. PICK j \in Seq(Lines) : /\ Rolled(l, j)
                              /\ m = j \/ \E line \in Lines : line.lost = 0 /\ m = Append(j, line)
    BY DEF Grew
<1>2. PICK rec \in Lines, k \in 0 .. Len(l) :
          rec.lost = Bytes(SubSeq(l, 1, k)) /\ j = Append(SubSeq(l, k + 1, Len(l)), rec)
    BY <1>1 DEF Rolled
<1> DEFINE a == SubSeq(l, k + 1, Len(l))
           c == Len(a)
           tells(n) == /\ n <= Len(m)
                       /\ Before(m, n) = a
                       /\ Added(m, n)[1].lost = Bytes(SubSeq(l, 1, k))
                       /\ \A i \in 2 .. n : Added(m, n)[i].lost = 0
<1>3. a \in Seq(Lines)
    OBVIOUS
<1>4. j = Append(a, rec)
    BY <1>2
<1> HIDE DEF a
<1>5. /\ c \in Nat /\ Len(j) = c + 1 /\ j[c + 1] = rec
      /\ \A i \in 1 .. c : j[i] = a[i]
    BY <1>3, <1>4, AppendProperties
<1>6. ASSUME m = j
      PROVE  m \in Seq(Lines) /\ \E n \in 1 .. 2 : tells(n)
    <2> DEFINE one == 1
    <2>1. one \in Nat /\ Len(m) = Len(a) + one /\ \A i \in 1 .. Len(a) : m[i] = a[i]
        BY <1>5, <1>6
    <2>2. m \in Seq(Lines)
        BY <1>6
    <2>3. 1 \in 1 .. one /\ Len(a) + 1 = c + 1 /\ \A i \in 2 .. one : FALSE
        BY <1>5
    <2> HIDE DEF one, c
    <2>4. /\ one =< Len(m) /\ Before(m, one) = a
          /\ \A i \in 1 .. one : Added(m, one)[i] = m[Len(a) + i]
        BY <1>3, <2>1, <2>2, Ends
    <2>5. Added(m, one)[1] = rec
        BY <1>5, <1>6, <2>3, <2>4
    <2>6. tells(one)
        BY <1>2, <2>3, <2>4, <2>5
    <2>7. one \in 1 .. 2
        BY DEF one
    <2> HIDE DEF tells
    <2>8. \E n \in 1 .. 2 : tells(n)
        BY <2>6, <2>7
    <2> QED
        BY <2>2, <2>8
<1>7. ASSUME NEW line \in Lines, line.lost = 0, m = Append(j, line)
      PROVE  m \in Seq(Lines) /\ \E n \in 1 .. 2 : tells(n)
    <2>1. /\ m \in Seq(Lines) /\ Len(m) = Len(j) + 1 /\ m[Len(j) + 1] = line
          /\ \A i \in 1 .. Len(j) : m[i] = j[i]
        BY <1>7, AppendProperties
    <2> DEFINE two == 2
    <2>2. two \in Nat /\ Len(m) = Len(a) + two
        BY <1>5, <2>1
    <2>3. \A i \in 1 .. Len(a) : m[i] = a[i]
        <3>1. \A i \in 1 .. Len(a) : i \in 1 .. Len(j)
            BY <1>5
        <3> QED
            BY <1>5, <2>1, <3>1
    <2>4. m[Len(a) + 1] = rec /\ m[Len(a) + 2] = line
        <3>1. Len(a) + 1 \in 1 .. Len(j) /\ Len(a) + 2 = Len(j) + 1 /\ Len(a) + 1 = c + 1
            BY <1>5
        <3> QED
            BY <1>5, <2>1, <3>1
    <2>5. 1 \in 1 .. two /\ 2 \in 1 .. two /\ two \in 1 .. 2 /\ \A i \in 2 .. two : i = 2
        OBVIOUS
    <2> HIDE DEF two, c
    <2>6. /\ two =< Len(m) /\ Before(m, two) = a
          /\ \A i \in 1 .. two : Added(m, two)[i] = m[Len(a) + i]
        BY <1>3, <2>1, <2>2, <2>3, Ends
    <2>7. Added(m, two)[1] = rec /\ Added(m, two)[2] = line
        BY <2>4, <2>5, <2>6
    <2>8. tells(two)
        BY <1>2, <1>7, <2>5, <2>6, <2>7
    <2> HIDE DEF tells
    <2> QED
        BY <2>1, <2>5, <2>8
<1> QED
    <2> HIDE DEF tells
    <2>1. m \in Seq(Lines) /\ \E n \in 1 .. 2 : tells(n)
        BY <1>1, <1>6, <1>7
    <2>2. \E n \in 1 .. 2 :
             /\ n <= Len(m)
             /\ Before(m, n) = SubSeq(l, k + 1, Len(l))
             /\ Added(m, n)[1].lost = Bytes(SubSeq(l, 1, k))
             /\ \A i \in 2 .. n : Added(m, n)[i].lost = 0
        BY <2>1, Zenon DEF tells, a
    <2> QED
        BY <2>1, <2>2, Zenon

LEMMA GrewLogged ==
    ASSUME NEW l \in Seq(Lines), NEW m, Grew(l, m)
    PROVE  LogGrows(l, m)
<1>1. PICK k \in 0 .. Len(l) : \E n \in 1 .. 2 :
          /\ n <= Len(m)
          /\ Before(m, n) = SubSeq(l, k + 1, Len(l))
          /\ Added(m, n)[1].lost = Bytes(SubSeq(l, 1, k))
          /\ \A i \in 2 .. n : Added(m, n)[i].lost = 0
    BY GrownEnds
<1>2. PICK n \in 1 .. 2 :
          /\ n <= Len(m)
          /\ Before(m, n) = SubSeq(l, k + 1, Len(l))
          /\ Added(m, n)[1].lost = Bytes(SubSeq(l, 1, k))
          /\ \A i \in 2 .. n : Added(m, n)[i].lost = 0
    BY <1>1
<1>3. CASE k = 0
    <2>1. SubSeq(l, 1, Len(l)) = l /\ SubSeq(l, 1, 0) = <<>>
        BY SubSeqFull, SubSeqEmpty
    <2>2. Before(m, n) = l
        <3>1. k + 1 = 1
            BY <1>3
        <3> QED
            BY <1>2, <2>1, <3>1
    <2>3. Added(m, n)[1].lost = 0
        BY <1>2, <1>3, <2>1, EmptyLines
    <2>4. \A i \in 1 .. n : i = 1 \/ i \in 2 .. n
        OBVIOUS
    <2>5. \A i \in 1 .. n : Added(m, n)[i].lost = 0
        BY <1>2, <2>3, <2>4
    <2> QED
        BY <1>2, <2>2, <2>5 DEF LogGrows
<1>4. CASE k # 0
    <2>1. k \in 1 .. Len(l)
        BY <1>4
    <2> QED
        BY <1>2, <2>1 DEF LogGrows
<1> QED
    BY <1>3, <1>4

LEMMA BrokeLogged ==
    ASSUME NEW l \in Seq(Lines), NEW m, Broke(l, m)
    PROVE  LogBreaks(l, m)
<1>1. CASE Part(l, m)
    BY <1>1 DEF Part, LogBreaks
<1>2. CASE Grew(l, m)
    <2>1. PICK k \in 0 .. Len(l) : \E n \in 1 .. 2 :
              /\ n <= Len(m)
              /\ Before(m, n) = SubSeq(l, k + 1, Len(l))
              /\ Added(m, n)[1].lost = Bytes(SubSeq(l, 1, k))
              /\ \A i \in 2 .. n : Added(m, n)[i].lost = 0
        BY <1>2, GrownEnds
    <2>2. PICK n \in 1 .. 2 : n <= Len(m) /\ Before(m, n) = SubSeq(l, k + 1, Len(l))
        BY <2>1
    <2> QED
        BY <2>2 DEF LogBreaks
<1> QED
    BY <1>1, <1>2 DEF Broke

LEMMA ShortLogged ==
    ASSUME NEW l, l = <<>>, NEW m \in Seq(Lines), Len(m) =< 2
    PROVE  LogBreaks(l, m)
<1>1. Len(l) = 0 /\ Len(m) \in Nat
    BY LenProperties
<1>2. CASE Len(m) = 0
    <2>1. m = <<>>
        BY <1>2, EmptySeq
    <2>2. SubSeq(l, 1, 0) = <<>>
        BY SubSeqEmpty
    <2>3. 0 \in 0 .. Len(l) /\ 0 + 1 = 1
        BY <1>1
    <2>4. m = SubSeq(l, 0 + 1, 0) /\ 0 \in 0 .. Len(l)
        BY <2>1, <2>2, <2>3
    <2> QED
        BY <2>4 DEF LogBreaks
<1>3. CASE Len(m) # 0
    <2> DEFINE n == Len(m)
    <2>0. n \in Nat /\ n =< 2 /\ n # 0
        BY <1>1, <1>3
    <2> HIDE DEF n
    <2>1. n \in 1 .. 2 /\ n - n = 0 /\ n =< n
        BY <2>0
    <2>2. Before(m, n) = <<>>
        <3>1. SubSeq(m, 1, 0) = <<>>
            BY SubSeqEmpty
        <3> QED
            BY <2>1, <3>1 DEF Before, n
    <2>3. SubSeq(l, 0 + 1, 0) = <<>>
        <3>1. 0 < 0 + 1 /\ 0 + 1 \in Int /\ 0 \in Int
            OBVIOUS
        <3> QED
            BY <3>1, SubSeqEmpty
    <2>4. Before(m, n) = SubSeq(l, 0 + 1, Len(l))
        BY <1>1, <2>2, <2>3, Zenon
    <2>5. n =< Len(m)
        BY <2>1 DEF n
    <2>6. 0 \in 0 .. Len(l)
        BY <1>1
    <2> QED
        BY <2>1, <2>4, <2>5, <2>6, Zenon DEF LogBreaks
<1> QED
    BY <1>2, <1>3

LEMMA KeptNow == Kept = KeptOf(sink) /\ Kept' = KeptOf(sink')
    BY DEF Kept, KeptOf

LEMMA LogBytes == \A records : Log!Bytes(records) = Bytes(records)
    BY DEF Log!Bytes, Bytes

LEMMA BreakStep ==
    ASSUME ~ (closed \/ sink.disabled), closed' \/ sink'.disabled,
           LogBreaks(KeptOf(sink), KeptOf(sink'))
    PROVE  Log!Next
<1>1. LogBreaks(Kept, Kept')
    BY KeptNow
<1>2. Log!Fail
    BY <1>1 DEF Log!Fail, Log!Old, LogBreaks, Before
<1> QED
    BY <1>2 DEF Log!Next

LEMMA GrowStep ==
    ASSUME ~ (closed \/ sink.disabled), LogGrows(KeptOf(sink), KeptOf(sink'))
    PROVE  Log!Next
<1>1. LogGrows(Kept, Kept')
    BY KeptNow
<1>2. \E n \in 1 .. 2 : n <= Len(Kept') /\ (Log!Extend(n) \/ Log!Discard(n))
    BY <1>1, LogBytes DEF Log!Extend, Log!Discard, Log!Old, Log!New, LogGrows, Before, Added
<1> QED
    BY <1>2 DEF Log!Next

LEMMA SameStep ==
    ASSUME KeptOf(sink') = KeptOf(sink), (closed' \/ sink'.disabled) = (closed \/ sink.disabled)
    PROVE  UNCHANGED Log!vars
<1>1. Kept' = Kept
    BY KeptNow
<1> QED
    BY <1>1 DEF Log!vars

-----------------------------------------------------------------------------
(* TraceSink: the inductive invariant.                                        *)

(* The gate is open only while the sink is.                                   *)
Gate ==
    /\ opened \in BOOLEAN /\ closed \in BOOLEAN /\ enabled \in BOOLEAN
    /\ enabled => opened /\ ~closed

(* An open sink works, or has failed; before the start nothing has happened.   *)
Disk ==
    /\ Bounded(sink)
    /\ opened /\ ~closed => Working(sink) \/ Failed(sink)
    /\ ~opened /\ ~closed => sink = NewSink /\ \A t \in Threads : doing[t] = Nothing

(* A record in hand is well-formed, and one thread at most is stopping.        *)
Hands ==
    /\ DOMAIN doing = Threads
    /\ \A t \in Threads :
         /\ doing[t].step = "begun" => doing[t].size \in Nat
         /\ doing[t].step = "numbered" => doing[t].line \in Lines /\ doing[t].line.lost = 0
         /\ doing[t].step = "stopping" =>
              /\ opened /\ ~closed /\ ~enabled
              /\ \A u \in Threads : doing[u].step = "stopping" => u = t

TraceInv == Gate /\ Disk /\ Hands

(* The step is one of the log, or none.                                       *)
Logged == Log!Next \/ UNCHANGED Log!vars

LEMMA SinkIs ==
    ASSUME Disk
    PROVE  /\ sink \in SinkType /\ KeptOf(sink) \in Seq(Lines)
           /\ opened /\ ~closed /\ ~sink.disabled => Working(sink)
<1>1. sink \in SinkType
    BY DEF Disk, Bounded
<1> QED
    BY <1>1, KeptIs DEF Disk, Failed

(* Whatever is written to a sink that is open is a step of the log.            *)
LEMMA WriteStep ==
    ASSUME Disk, ~closed, ~sink.disabled, closed' \in BOOLEAN, Written(KeptOf(sink), sink')
    PROVE  Logged /\ Bounded(sink') /\ (Working(sink') \/ Failed(sink'))
<1>1. KeptOf(sink) \in Seq(Lines)
    BY SinkIs
<1>2. Bounded(sink') /\ (Working(sink') \/ Failed(sink'))
    BY DEF Written, Working, Failed
<1>3. CASE closed' \/ sink'.disabled
    <2>1. Broke(KeptOf(sink), KeptOf(sink'))
        BY <1>1, Unchanged DEF Written, Broke
    <2>2. LogBreaks(KeptOf(sink), KeptOf(sink'))
        BY <1>1, <2>1, BrokeLogged
    <2>3. Log!Next
        BY <1>3, <2>2, BreakStep
    <2> QED
        BY <1>2, <2>3 DEF Logged
<1>4. CASE ~ (closed' \/ sink'.disabled)
    <2>1. KeptOf(sink') = KeptOf(sink) \/ Grew(KeptOf(sink), KeptOf(sink'))
        BY <1>4 DEF Written, Failed
    <2>2. CASE KeptOf(sink') = KeptOf(sink)
        <3>1. (closed' \/ sink'.disabled) = (closed \/ sink.disabled)
            BY <1>4
        <3>2. UNCHANGED Log!vars
            BY <2>2, <3>1, SameStep
        <3> QED
            BY <1>2, <3>2 DEF Logged
    <2>3. CASE Grew(KeptOf(sink), KeptOf(sink'))
        <3>1. LogGrows(KeptOf(sink), KeptOf(sink'))
            BY <1>1, <2>3, GrewLogged
        <3>2. Log!Next
            BY <3>1, GrowStep
        <3> QED
            BY <1>2, <3>2 DEF Logged
    <2> QED
        BY <2>1, <2>2, <2>3
<1> QED
    BY <1>3, <1>4

(* A step that leaves the files, the buffer and what is known of them.         *)
LEMMA QuietStep ==
    ASSUME Disk, sink' \in SinkType, sink'.files = sink.files, sink'.sizes = sink.sizes,
           sink'.buffer = sink.buffer, sink'.current = sink.current,
           sink'.disabled = sink.disabled, closed' = closed
    PROVE  /\ Logged /\ Bounded(sink')
           /\ Working(sink) => Working(sink')
           /\ Failed(sink) => Failed(sink')
<1>1. sink \in SinkType
    BY SinkIs
<1>2. /\ Working(sink) => Working(sink')
      /\ Failed(sink) => Failed(sink')
      /\ KeptOf(sink') = KeptOf(sink)
    BY <1>1, SameSink
<1>3. Bounded(sink')
    BY DEF Disk, Bounded
<1>4. UNCHANGED Log!vars
    <2>1. (closed' \/ sink'.disabled) = (closed \/ sink.disabled)
        OBVIOUS
    <2> QED
        BY <1>2, <2>1, SameStep
<1> QED
    BY <1>2, <1>3, <1>4 DEF Logged

LEMMA StartSteps ==
    ASSUME TraceInv, Start
    PROVE  TraceInv' /\ Logged
<1>1. /\ ~opened /\ ~closed /\ UNCHANGED doing
      /\ sink = NewSink /\ enabled = FALSE
      /\ DOMAIN doing = Threads /\ \A t \in Threads : doing[t] = Nothing
    BY DEF Start, TraceInv, Disk, Gate, Hands
<1>2. \A t \in Threads : doing[t].step = "none"
    BY <1>1 DEF Nothing
<1>3. Hands'
    <2>1. \A t \in Threads : doing'[t].step = "none"
        BY <1>1, <1>2
    <2> QED
        BY <1>1, <2>1 DEF Hands
<1>4. Working(sink) /\ ~sink.disabled /\ KeptOf(sink) = <<>>
    BY <1>1, NewSinkOK DEF Working
<1>5. CASE \E s \in Emitted(NewSink) :
              sink' = s /\ opened' = TRUE /\ enabled' = TRUE /\ UNCHANGED <<closed, told>>
    <2>1. sink' \in Emitted(sink) /\ opened' = TRUE /\ enabled' = TRUE /\ closed' = FALSE
        BY <1>1, <1>5 DEF TraceInv, Gate
    <2>2. Written(KeptOf(sink), sink')
        BY <1>4, <2>1, EmittedOK
    <2>3. Logged /\ Bounded(sink') /\ (Working(sink') \/ Failed(sink'))
        BY <1>1, <1>4, <2>1, <2>2, WriteStep DEF TraceInv
    <2> QED
        BY <1>3, <2>1, <2>3 DEF TraceInv, Gate, Disk
<1>6. CASE closed' = TRUE /\ UNCHANGED <<sink, opened, enabled>>
    <2>1. closed' = TRUE /\ sink' = sink /\ opened' = opened /\ enabled' = FALSE
        BY <1>1, <1>6
    <2>2. Bounded(sink')
        BY <2>1 DEF TraceInv, Disk
    <2>3. LogBreaks(KeptOf(sink), KeptOf(sink'))
        <3>1. KeptOf(sink) \in Seq(Lines)
            BY SinkIs DEF TraceInv
        <3>2. KeptOf(sink') = KeptOf(sink)
            BY <2>1
        <3>3. Broke(KeptOf(sink), KeptOf(sink'))
            BY <3>1, <3>2, Unchanged DEF Broke
        <3> QED
            BY <3>1, <3>3, BrokeLogged
    <2>4. Log!Next
        BY <1>1, <1>4, <2>1, <2>3, BreakStep
    <2> QED
        BY <1>3, <2>1, <2>2, <2>4 DEF TraceInv, Gate, Disk, Logged
<1>7. CASE \E s \in UNION {Closings(e) : e \in Emitted(NewSink)} :
              /\ sink' = [s EXCEPT !.files[0] = <<>>, !.pending = FALSE]
              /\ told' = IF s.pending THEN 1 ELSE 0
              /\ closed' = TRUE
              /\ UNCHANGED <<opened, enabled>>
    <2> DEFINE rejected(s) == sink' = [s EXCEPT !.files[0] = <<>>, !.pending = FALSE]
    <2>0. \E s \in UNION {Closings(e) : e \in Emitted(NewSink)} : rejected(s)
        BY <1>7
    <2> HIDE DEF rejected
    <2>1. PICK e \in Emitted(NewSink) : \E s \in Closings(e) : rejected(s)
        BY <2>0
    <2>2. PICK s \in Closings(e) : rejected(s)
        BY <2>1
    <2>3. closed' = TRUE /\ opened' = opened /\ enabled' = FALSE
        BY <1>1, <1>7
    <2>4. Bounded(sink') /\ KeptOf(sink') \in Seq(Lines) /\ Len(KeptOf(sink')) =< 2
        BY <2>2, RejectedOK DEF rejected
    <2>5. LogBreaks(KeptOf(sink), KeptOf(sink'))
        BY <1>4, <2>4, ShortLogged
    <2>6. Log!Next
        BY <1>1, <1>4, <2>3, <2>5, BreakStep
    <2>7. opened' \in BOOLEAN /\ closed' \in BOOLEAN /\ enabled' \in BOOLEAN
        BY <2>3 DEF TraceInv, Gate
    <2>8. Gate'
        BY <2>3, <2>7 DEF Gate
    <2>9. Disk'
        BY <2>3, <2>4 DEF Disk
    <2> QED
        BY <1>3, <2>6, <2>8, <2>9 DEF TraceInv, Logged
<1> QED
    BY <1>5, <1>6, <1>7 DEF Start

-----------------------------------------------------------------------------
(* The steps of a thread.                                                     *)

LEMMA HandsStep ==
    ASSUME Hands, NEW t \in Threads, NEW d, doing' = [doing EXCEPT ![t] = d],
           d.step = "begun" => d.size \in Nat,
           d.step = "numbered" => d.line \in Lines /\ d.line.lost = 0,
           d.step = "stopping" => /\ opened' /\ ~closed' /\ ~enabled'
                                  /\ \A u \in Threads : doing[u].step # "stopping",
           \A u \in Threads : u # t /\ doing[u].step = "stopping" => opened' /\ ~closed' /\ ~enabled'
    PROVE  Hands'
<1>1. DOMAIN doing' = Threads /\ doing'[t] = d /\ \A u \in Threads : u # t => doing'[u] = doing[u]
    BY DEF Hands
<1>2. ASSUME NEW u \in Threads
      PROVE  /\ doing'[u].step = "begun" => doing'[u].size \in Nat
             /\ doing'[u].step = "numbered" => doing'[u].line \in Lines /\ doing'[u].line.lost = 0
    <2>1. CASE u = t
        BY <1>1, <2>1
    <2>2. CASE u # t
        BY <1>1, <2>2 DEF Hands
    <2> QED
        BY <2>1, <2>2
<1>3. ASSUME NEW u \in Threads, doing'[u].step = "stopping"
      PROVE  /\ opened' /\ ~closed' /\ ~enabled'
             /\ \A v \in Threads : doing'[v].step = "stopping" => v = u
    <2>1. CASE u = t
        BY <1>1, <1>3, <2>1
    <2>2. CASE u # t
        <3>1. doing[u].step = "stopping"
            BY <1>1, <1>3, <2>2
        <3>2. d.step # "stopping"
            BY <3>1
        <3> QED
            BY <1>1, <2>2, <3>1, <3>2 DEF Hands
    <2> QED
        BY <2>1, <2>2
<1> QED
    BY <1>1, <1>2, <1>3 DEF Hands

(* Of a thread that is at rest or has done its part, with the gate as it was.   *)
LEMMA HandsKept ==
    ASSUME Hands, NEW t \in Threads, NEW d, doing' = [doing EXCEPT ![t] = d],
           d.step = "begun" => d.size \in Nat,
           d.step = "numbered" => d.line \in Lines /\ d.line.lost = 0,
           d.step # "stopping", UNCHANGED <<opened, closed, enabled>>
    PROVE  Hands'
<1>1. \A u \in Threads : u # t /\ doing[u].step = "stopping" => opened' /\ ~closed' /\ ~enabled'
    BY DEF Hands
<1> QED
    BY <1>1, HandsStep

LEMMA Underway ==
    ASSUME TraceInv, NEW t \in Threads, doing[t].step # "none"
    PROVE  opened \/ closed
<1>1. doing[t] # Nothing
    BY DEF Nothing
<1> QED
    BY <1>1 DEF TraceInv, Disk

LEMMA QuietInv ==
    ASSUME TraceInv, Hands', opened \/ closed, UNCHANGED <<opened, closed, enabled>>,
           sink' \in SinkType, sink'.files = sink.files, sink'.sizes = sink.sizes,
           sink'.buffer = sink.buffer, sink'.current = sink.current,
           sink'.disabled = sink.disabled
    PROVE  TraceInv' /\ Logged
<1>1. Disk /\ closed' = closed /\ opened' = opened /\ enabled' = enabled
    BY DEF TraceInv
<1>2. /\ Logged /\ Bounded(sink')
      /\ Working(sink) => Working(sink')
      /\ Failed(sink) => Failed(sink')
    BY <1>1, QuietStep
<1>3. Disk'
    BY <1>1, <1>2 DEF Disk
<1>4. Gate'
    BY <1>1 DEF TraceInv, Gate
<1> QED
    BY <1>2, <1>3, <1>4 DEF TraceInv

LEMMA BeginSteps ==
    ASSUME TraceInv, NEW t \in Threads, Begin(t)
    PROVE  TraceInv' /\ Logged
<1>1. PICK level \in 1 .. 3, size \in Sizes :
          doing' = [doing EXCEPT ![t] = [step |-> "begun", level |-> level, size |-> size]]
    BY DEF Begin
<1>2. enabled /\ UNCHANGED <<opened, closed, enabled>> /\ sink' = sink
    BY DEF Begin
<1>3. Hands'
    <2> DEFINE d == [step |-> "begun", level |-> level, size |-> size]
    <2>1. d.step = "begun" /\ d.size \in Nat
        BY TraceAssumption
    <2>2. doing' = [doing EXCEPT ![t] = d]
        BY <1>1
    <2> HIDE DEF d
    <2> QED
        BY <1>2, <2>1, <2>2, HandsKept DEF TraceInv
<1>4. opened /\ sink' \in SinkType
    BY <1>2, SinkIs DEF TraceInv, Gate
<1> QED
    BY <1>2, <1>3, <1>4, QuietInv

LEMMA NextEnvelopeSteps ==
    ASSUME TraceInv, NEW t \in Threads, NextEnvelope(t)
    PROVE  TraceInv' /\ Logged
<1> DEFINE old == doing[t]
           line == [seq |-> sink.seq, size |-> old.size, lost |-> 0]
           d == [step |-> "numbered", level |-> old.level, line |-> line]
<1>1. /\ old.step = "begun" /\ sink' = [sink EXCEPT !.seq = @ + 1]
      /\ doing' = [doing EXCEPT ![t] = d]
      /\ UNCHANGED <<opened, closed, enabled>>
    BY DEF NextEnvelope
<1>2. sink \in SinkType /\ old.size \in Nat
    BY <1>1, SinkIs DEF TraceInv, Hands
<1>3. opened \/ closed
    BY <1>1, Underway
<1>4. line \in Lines /\ line.lost = 0
    BY <1>2 DEF Lines, SinkType
<1> HIDE DEF line, old
<1>5. d.step = "numbered" /\ d.line = line
    OBVIOUS
<1> HIDE DEF d
<1>6. Hands'
    BY <1>1, <1>4, <1>5, HandsKept DEF TraceInv
<1>7. /\ sink' \in SinkType /\ sink'.files = sink.files /\ sink'.sizes = sink.sizes
      /\ sink'.buffer = sink.buffer /\ sink'.current = sink.current
      /\ sink'.disabled = sink.disabled
    <2>1. sink.seq + 1 \in Nat
        BY <1>2 DEF SinkType
    <2> QED
        BY <1>1, <1>2, <2>1 DEF SinkType
<1> QED
    BY <1>1, <1>3, <1>6, <1>7, QuietInv

LEMMA DeliverPendingSteps ==
    ASSUME TraceInv, NEW t \in Threads, DeliverPending(t)
    PROVE  TraceInv' /\ Logged
<1>1. /\ doing[t].step = "written" /\ sink' = [sink EXCEPT !.pending = FALSE]
      /\ doing' = [doing EXCEPT ![t] = Nothing]
      /\ UNCHANGED <<opened, closed, enabled>>
    BY DEF DeliverPending
<1>2. sink \in SinkType
    BY SinkIs DEF TraceInv
<1>3. opened \/ closed
    BY <1>1, Underway
<1>4. Nothing.step = "none"
    BY DEF Nothing
<1>5. Hands'
    BY <1>1, <1>4, HandsKept DEF TraceInv
<1>6. /\ sink' \in SinkType /\ sink'.files = sink.files /\ sink'.sizes = sink.sizes
      /\ sink'.buffer = sink.buffer /\ sink'.current = sink.current
      /\ sink'.disabled = sink.disabled
    BY <1>1, <1>2 DEF SinkType
<1> QED
    BY <1>1, <1>3, <1>5, <1>6, QuietInv

LEMMA StopSteps ==
    ASSUME TraceInv, NEW t \in Threads, Stop(t)
    PROVE  TraceInv' /\ Logged
<1> DEFINE d == [step |-> "stopping"]
<1>1. /\ enabled /\ enabled' = FALSE /\ doing' = [doing EXCEPT ![t] = d]
      /\ opened' = opened /\ closed' = closed /\ sink' = sink
    BY DEF Stop
<1>2. opened /\ ~closed /\ d.step = "stopping"
    BY <1>1 DEF TraceInv, Gate
<1> HIDE DEF d
<1>3. \A u \in Threads : doing[u].step # "stopping"
    BY <1>1 DEF TraceInv, Hands
<1>4. Hands'
    BY <1>1, <1>2, <1>3, HandsStep DEF TraceInv
<1>5. /\ Logged /\ Bounded(sink')
      /\ Working(sink) => Working(sink')
      /\ Failed(sink) => Failed(sink')
    BY <1>1, SinkIs, QuietStep DEF TraceInv
<1>6. Disk'
    BY <1>1, <1>2, <1>5 DEF TraceInv, Disk
<1>7. Gate'
    BY <1>1, <1>2 DEF TraceInv, Gate
<1> QED
    BY <1>4, <1>5, <1>6, <1>7 DEF TraceInv

(* A write to the open sink by a thread.                                      *)
LEMMA OpenInv ==
    ASSUME TraceInv, NEW t \in Threads, NEW d, doing' = [doing EXCEPT ![t] = d],
           d.step = "written", Open, UNCHANGED <<opened, closed, enabled>>,
           Written(KeptOf(sink), sink')
    PROVE  TraceInv' /\ Logged
<1>1. Disk /\ opened /\ ~closed /\ ~sink.disabled
      /\ opened' = opened /\ closed' = closed /\ enabled' = enabled /\ closed' \in BOOLEAN
    BY DEF TraceInv, Open, Gate
<1>2. Logged /\ Bounded(sink') /\ (Working(sink') \/ Failed(sink'))
    BY <1>1, WriteStep
<1>3. Hands'
    BY HandsKept DEF TraceInv
<1>4. Disk'
    BY <1>1, <1>2 DEF Disk
<1>5. Gate'
    BY <1>1 DEF TraceInv, Gate
<1> QED
    BY <1>2, <1>3, <1>4, <1>5 DEF TraceInv

LEMMA WriteSteps ==
    ASSUME TraceInv, NEW t \in Threads, Write(t)
    PROVE  TraceInv' /\ Logged
<1> DEFINE level == doing[t].level
           line == doing[t].line
<1>1. doing[t].step = "numbered" /\ UNCHANGED <<opened, closed, enabled>>
    BY DEF Write
<1>2. line \in Lines /\ line.lost = 0
    BY <1>1 DEF TraceInv, Hands
<1>3. CASE Open /\ level <= Level
    <2>1. PICK s \in WriteLine(sink, line) :
              sink' \in IF level = Errors THEN FlushedUnless(s) ELSE {s}
        BY <1>3 DEF Write
    <2> DEFINE d == [step |-> "written"]
    <2>2. doing' = [doing EXCEPT ![t] = d] /\ d.step = "written"
        BY <1>3 DEF Write
    <2> HIDE DEF d, line, level
    <2>3. Working(sink) /\ KeptOf(sink) \in Seq(Lines)
        BY <1>3, SinkIs DEF TraceInv, Open
    <2>4. Written(KeptOf(sink), s)
        BY <1>2, <2>1, <2>3, WriteLineOK
    <2>5. Written(KeptOf(sink), sink')
        <3>1. sink' = s \/ sink' \in FlushedUnless(s)
            BY <2>1
        <3> QED
            BY <2>3, <2>4, <3>1, FlushedUnlessOK
    <2> QED
        BY <1>1, <1>3, <2>2, <2>5, OpenInv
<1>4. CASE ~ (Open /\ level <= Level)
    <2>1. doing' = [doing EXCEPT ![t] = Nothing] /\ sink' = sink
        BY <1>4 DEF Write
    <2>2. Nothing.step = "none"
        BY DEF Nothing
    <2>3. Hands'
        BY <1>1, <2>1, <2>2, HandsKept DEF TraceInv
    <2>4. opened \/ closed
        BY <1>1, Underway
    <2>5. sink' \in SinkType
        BY <2>1, SinkIs DEF TraceInv
    <2> QED
        BY <1>1, <2>1, <2>3, <2>4, <2>5, QuietInv
<1> QED
    BY <1>3, <1>4

LEMMA FlushSteps ==
    ASSUME TraceInv, NEW t \in Threads, Flush(t)
    PROVE  TraceInv' /\ Logged
<1> DEFINE d == [step |-> "written"]
<1>1. /\ Open /\ sink' \in Flushed(sink) /\ doing' = [doing EXCEPT ![t] = d]
      /\ UNCHANGED <<opened, closed, enabled>> /\ d.step = "written"
    BY DEF Flush
<1> HIDE DEF d
<1>2. Working(sink) /\ KeptOf(sink) \in Seq(Lines) /\ ~sink.disabled
    BY <1>1, SinkIs DEF TraceInv, Open
<1>3. Written(KeptOf(sink), sink)
    BY <1>2 DEF Written
<1>4. Written(KeptOf(sink), sink')
    BY <1>1, <1>2, <1>3, FlushedUnlessOK DEF FlushedUnless
<1> QED
    BY <1>1, <1>4, OpenInv

LEMMA CloseSteps ==
    ASSUME TraceInv, NEW t \in Threads, Close(t)
    PROVE  TraceInv' /\ Logged
<1> DEFINE d == [step |-> "written"]
<1>1. /\ doing[t].step = "stopping" /\ sink' \in Closings(sink)
      /\ closed' = TRUE /\ opened' = FALSE /\ enabled' = enabled
      /\ doing' = [doing EXCEPT ![t] = d] /\ d.step = "written"
    BY DEF Close
<1> HIDE DEF d
<1>2. /\ opened /\ ~closed /\ ~enabled
      /\ \A u \in Threads : doing[u].step = "stopping" => u = t
    BY <1>1 DEF TraceInv, Hands
<1>3. Hands'
    <2>1. \A u \in Threads : u # t /\ doing[u].step = "stopping" => opened' /\ ~closed' /\ ~enabled'
        BY <1>2
    <2> QED
        BY <1>1, <2>1, HandsStep DEF TraceInv
<1>4. Gate'
    BY <1>1, <1>2 DEF TraceInv, Gate
<1>5. CASE sink.disabled
    <2>1. sink' = sink
        BY <1>1, <1>5 DEF Closings
    <2>2. Bounded(sink')
        BY <2>1 DEF TraceInv, Disk
    <2>3. (closed' \/ sink'.disabled) = (closed \/ sink.disabled)
        BY <1>1, <1>5, <2>1
    <2>4. UNCHANGED Log!vars
        BY <2>1, <2>3, SameStep
    <2> QED
        BY <1>1, <1>3, <1>4, <2>2, <2>4 DEF TraceInv, Disk, Logged
<1>6. CASE ~sink.disabled
    <2>1. Working(sink)
        BY <1>2, <1>6, SinkIs DEF TraceInv
    <2>2. Written(KeptOf(sink), sink')
        BY <1>1, <2>1, ClosingsOK
    <2>3. Logged /\ Bounded(sink')
        <3>1. Disk /\ closed' \in BOOLEAN
            BY <1>1 DEF TraceInv
        <3> QED
            BY <1>2, <1>6, <2>2, <3>1, WriteStep
    <2> QED
        BY <1>1, <1>3, <1>4, <2>3 DEF TraceInv, Disk
<1> QED
    BY <1>5, <1>6

LEMMA TraceSteps ==
    ASSUME TraceInv, [TraceNext]_traceVars
    PROVE  TraceInv' /\ Logged
<1>1. CASE Start
    BY <1>1, StartSteps
<1>2. ASSUME NEW t \in Threads, Step(t) \/ Begin(t) \/ Flush(t) \/ Stop(t)
      PROVE  TraceInv' /\ Logged
    BY <1>2, BeginSteps, NextEnvelopeSteps, WriteSteps, DeliverPendingSteps, StopSteps,
       FlushSteps, CloseSteps DEF Step
<1>3. CASE UNCHANGED traceVars
    <2>1. UNCHANGED <<sink, opened, closed, enabled, doing>>
        BY <1>3 DEF traceVars
    <2>2. TraceInv'
        BY <2>1 DEF TraceInv, Gate, Disk, Hands
    <2>3. UNCHANGED Log!vars
        BY <2>1, SameStep
    <2> QED
        BY <2>2, <2>3 DEF Logged
<1> QED
    BY <1>1, <1>2, <1>3 DEF TraceNext

LEMMA TraceFirst ==
    ASSUME TraceInit
    PROVE  TraceInv /\ Log!Init
<1>1. /\ sink = NewSink /\ opened = FALSE /\ closed = FALSE /\ enabled = FALSE
      /\ doing = [t \in Threads |-> Nothing]
    BY DEF TraceInit
<1>2. Working(sink) /\ KeptOf(sink) = <<>>
    BY <1>1, NewSinkOK
<1>3. \A t \in Threads : doing[t] = Nothing /\ doing[t].step = "none"
    BY <1>1 DEF Nothing
<1>4. Hands
    BY <1>1, <1>3 DEF Hands
<1>5. TraceInv
    BY <1>1, <1>2, <1>3, <1>4 DEF TraceInv, Gate, Disk, Working
<1>6. Kept = <<>>
    BY <1>2, KeptNow
<1>7. (closed \/ sink.disabled) = FALSE
    BY <1>1, <1>2 DEF Working
<1> QED
    BY <1>5, <1>6, <1>7 DEF Log!Init

LEMMA TraceInvariance == TraceSpec => []TraceInv
<1>1. TraceInv /\ [TraceNext]_traceVars => TraceInv'
    BY TraceSteps
<1> QED
    BY <1>1, TraceFirst, PTL DEF TraceSpec

(* No file grows past the cap, none is kept beyond the number allowed, and      *)
(* the sink knows the size of each, whatever fails (write_line_locked,        *)
(* rotate_locked).                                                         *)
THEOREM DiskBoundedHolds == TraceSpec => []DiskBounded
<1>1. TraceInv => DiskBounded
    <2> SUFFICES ASSUME TraceInv PROVE DiskBounded
        OBVIOUS
    <2>1. Bounded(sink) /\ sink \in SinkType /\ DOMAIN sink.files = Numbers
        BY SinkIs, SinkParts DEF TraceInv, Disk
    <2>2. /\ \A k \in DOMAIN sink.files : Bytes(sink.files[k]) <= MaxBytes
          /\ sink.files[Rotated + 1] = <<>>
        BY <2>1 DEF Bounded
    <2>3. ASSUME Open
          PROVE  /\ sink.current = Bytes(sink.files[0] \o sink.buffer)
                 /\ sink.sizes = [k \in 1 .. Len(sink.sizes) |-> Bytes(sink.files[k])]
        <3>1. Exact(sink)
            BY <2>3, SinkIs DEF TraceInv, Open, Working
        <3>2. sink.sizes \in Seq(Nat)
            BY <2>1, SinkParts
        <3>3. DOMAIN sink.sizes = 1 .. Len(sink.sizes)
              /\ sink.sizes = [k \in DOMAIN sink.sizes |-> sink.sizes[k]]
            BY <3>2
        <3> QED
            BY <3>1, <3>3 DEF Exact, Live
    <2> QED
        BY <2>2, <2>3 DEF DiskBounded
<1> QED
    BY <1>1, TraceInvariance, PTL

(* What is in the files and the buffer is a log without holes that tells what   *)
(* it lost: every write, rotation, failure and stop is a step of TraceLog     *)
(* or none (write, rotate_locked, close).                                   *)
THEOREM LogImplemented == TraceSpec => ImplementsLog
<1>1. TraceInv /\ [TraceNext]_traceVars => [Log!Next]_(Log!vars)
    BY TraceSteps DEF Logged
<1> QED
    BY <1>1, TraceFirst, TraceInvariance, PTL DEF TraceSpec, ImplementsLog, Log!Spec
=============================================================================
