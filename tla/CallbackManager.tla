-------------------------- MODULE CallbackManager --------------------------
(***************************************************************************)
(* callback_manager (src/core/callback_manager.cpp), the engine behind     *)
(* every asynchronous call: completions that are delivered once, and       *)
(* notifications that stay registered, both fired by the tick.  A delegate *)
(* of the game may call back into the SDK while it runs: queue more, remove *)
(* notifications, or release the platform.                                 *)
(*                                                                         *)
(* A completion is its number, in the order of queueing.  Owners are       *)
(* numbered as the maps order them.                                        *)
(***************************************************************************)
EXTENDS Naturals, FiniteSets

CONSTANTS
    Owners,         \* the interfaces that queue completions and notify
    MaxResults,     \* bound: completions queued
    MaxNotes,       \* bound: notifications registered
    MaxEvents       \* bound: events notified

ASSUME CallbackAssumption ==
    /\ Owners \subseteq Nat
    /\ MaxResults \in Nat /\ MaxNotes \in Nat /\ MaxEvents \in Nat

VARIABLES
    created,        \* the platform has not been released
    frames,         \* frames_to_run_
    queue,          \* callbacks_to_run_
    later,          \* completions that wait for run_callbacks or for their age
    notes,          \* notifications_
    next_id,        \* next_notification_id_
    phase,          \* what tick is doing; it holds the lock in "frames"
    todo,           \* the snapshot of run_frames
    event,          \* the event an interface is notifying
    ready,          \* collected and not fired
    calling,        \* whose delegate is running
    fired, freed,   \* how often each completion was fired and freed
    queued, events  \* what has been used of the bounds

engine == <<created, frames, queue, later, notes, next_id>>
ticking == <<phase, todo, event, ready, calling>>
counts == <<fired, freed, queued, events>>
vars == <<engine, ticking, counts>>

Results == 1 .. MaxResults
Ids == 1 .. MaxNotes
Nobody == [what |-> "nobody", owner |-> 0, n |-> 0]
NoEvent == [owner |-> 0, start |-> {}, left |-> {}, told |-> {}, on |-> FALSE]

IsFirst(n, numbers) == n \in numbers /\ \A m \in numbers : n <= m

(* What a running delegate or another thread may do: the lock is recursive,   *)
(* and only the thread that ticks holds it while frames run.                *)
CanCall == created /\ (phase = "frames" => calling # Nobody)

Init ==
    /\ created = TRUE
    /\ frames = Owners
    /\ queue = [o \in Owners |-> {}]
    /\ later = {}
    /\ notes = [o \in Owners |-> {}]
    /\ next_id = 1
    /\ phase = "idle"
    /\ todo = {}
    /\ event = NoEvent
    /\ ready = [o \in Owners |-> {}]
    /\ calling = Nobody
    /\ fired = [r \in Results |-> 0]
    /\ freed = [r \in Results |-> 0]
    /\ queued = 0
    /\ events = 0

-----------------------------------------------------------------------------
(* add_callback, by a call of the game or by an interface on its tick.  A     *)
(* completion that is done is due at the next tick; another waits until its *)
(* owner reports it.                                                       *)
AddCallback(o, done) ==
    /\ created
    /\ queued < MaxResults
    /\ queued' = queued + 1
    /\ queue' = [queue EXCEPT ![o] = @ \cup {queued + 1}]
    /\ later' = IF done THEN later ELSE later \cup {queued + 1}
    /\ UNCHANGED <<created, frames, notes, next_id, ticking, fired, freed, events>>

(* add_notification: one counter serves all owners.                          *)
AddNotification(o) ==
    /\ CanCall
    /\ next_id <= MaxNotes
    /\ next_id' = next_id + 1
    /\ notes' = [notes EXCEPT ![o] = @ \cup {next_id}]
    /\ UNCHANGED <<created, frames, queue, later, ticking, counts>>

(* remove_notification, of the running delegate's own or of any other.       *)
RemoveNotification(o, id) ==
    /\ CanCall
    /\ id \in notes[o]
    /\ notes' = [notes EXCEPT ![o] = @ \ {id}]
    /\ UNCHANGED <<created, frames, queue, later, next_id, ticking, counts>>

(* unregister_callbacks frees what every owner has queued.                   *)
FreeQueued ==
    freed' = [r \in Results |->
                IF \E o \in Owners : r \in queue[o] THEN freed[r] + 1 ELSE freed[r]]

(* The platform is released: every interface unregisters, then clear drops    *)
(* the rest.  What a tick has collected is its own.                         *)
Release ==
    /\ CanCall
    /\ created' = FALSE
    /\ FreeQueued
    /\ frames' = {}
    /\ queue' = [o \in Owners |-> {}]
    /\ notes' = [o \in Owners |-> {}]
    /\ next_id' = 1
    /\ UNCHANGED <<later, ticking, fired, queued, events>>

-----------------------------------------------------------------------------
StartTick ==
    /\ created
    /\ phase = "idle"
    /\ phase' = "frames"
    /\ todo' = frames
    /\ UNCHANGED <<engine, event, ready, calling, counts>>

(* run_frames: the next owner of the snapshot, unless it has unregistered.    *)
(* Its frame may have an event to notify.                                   *)
RunFrame ==
    /\ phase = "frames" /\ event = NoEvent
    /\ \E o \in todo :
         /\ IsFirst(o, todo)
         /\ todo' = todo \ {o}
         /\ \/ UNCHANGED <<event, events>>
            \/ /\ o \in frames
               /\ events < MaxEvents
               /\ events' = events + 1
               /\ event' = [owner |-> o, start |-> notes[o], left |-> notes[o],
                            told |-> {}, on |-> TRUE]
    /\ UNCHANGED <<engine, phase, ready, calling, fired, freed, queued>>

(* Broken: fires what the snapshot holds without looking it up again.         *)
FindCached(o, id) == TRUE

(* find_notification                                                       *)
Find(o, id) == id \in notes[o]

(* An interface walks the snapshot of notification_ids and looks each one up  *)
(* again before it fires it.                                               *)
FireNotification ==
    /\ calling = Nobody
    /\ \E id \in event.left :
         /\ IsFirst(id, event.left)
         /\ Find(event.owner, id)
         /\ calling' = [what |-> "note", owner |-> event.owner, n |-> id]
         /\ event' = [event EXCEPT !.left = @ \ {id}, !.told = @ \cup {id}]
    /\ UNCHANGED <<engine, phase, todo, ready, counts>>

(* Broken: stops at the first notification that has gone.                     *)
StopAtNotification ==
    /\ calling = Nobody
    /\ \E id \in event.left :
         /\ IsFirst(id, event.left)
         /\ ~Find(event.owner, id)
         /\ event' = [event EXCEPT !.left = {}]
    /\ UNCHANGED <<engine, phase, todo, ready, calling, counts>>

SkipNotification ==
    /\ calling = Nobody
    /\ \E id \in event.left :
         /\ IsFirst(id, event.left)
         /\ ~Find(event.owner, id)
         /\ event' = [event EXCEPT !.left = @ \ {id}]
    /\ UNCHANGED <<engine, phase, todo, ready, calling, counts>>

EndEvent ==
    /\ event # NoEvent /\ event.left = {} /\ calling = Nobody
    /\ event' = NoEvent
    /\ UNCHANGED <<engine, phase, todo, ready, calling, counts>>

(* Broken: what is done waits for its owner's report like the rest.           *)
DueNever(o) == {}

(* What is done and of age.                                                *)
Due(o) == queue[o] \ later

(* Broken: forgets what it should keep.                                      *)
KeepNothing(delivered) == queue' = [o \in Owners |-> {}]

Keep(delivered) == queue' = [o \in Owners |-> queue[o] \ delivered[o]]

(* collect_ready_callbacks: all that is due, and whatever has come of age or  *)
(* is reported by its owner.                                               *)
Collect ==
    /\ phase = "frames" /\ event = NoEvent /\ todo = {}
    /\ \E matured \in SUBSET later :
         /\ ready' = [o \in Owners |-> Due(o) \cup (queue[o] \cap matured)]
         /\ Keep(ready')
    /\ phase' = "deliver"
    /\ UNCHANGED <<created, frames, later, notes, next_id, todo, event, calling, counts>>

NextReady(o, r) == IsFirst(r, ready[o])

(* tick, the delivery outside the lock: owner by owner, oldest first.         *)
FireResult ==
    /\ phase = "deliver" /\ calling = Nobody
    /\ \E o \in Owners, r \in Results :
         /\ IsFirst(o, {owner \in Owners : ready[owner] # {}})
         /\ NextReady(o, r)
         /\ calling' = [what |-> "result", owner |-> o, n |-> r]
         /\ ready' = [ready EXCEPT ![o] = @ \ {r}]
         /\ fired' = [fired EXCEPT ![r] = @ + 1]
    /\ UNCHANGED <<engine, phase, todo, event, freed, queued, events>>

(* The delegate returns; free_callback follows a completion.                 *)
Return ==
    /\ calling # Nobody
    /\ calling' = Nobody
    /\ freed' = IF calling.what = "result"
                THEN [freed EXCEPT ![calling.n] = @ + 1] ELSE freed
    /\ UNCHANGED <<engine, phase, todo, event, ready, fired, queued, events>>

EndTick ==
    /\ phase = "deliver" /\ calling = Nobody
    /\ \A o \in Owners : ready[o] = {}
    /\ phase' = "idle"
    /\ UNCHANGED <<engine, todo, event, ready, calling, counts>>

-----------------------------------------------------------------------------
Call ==
    \/ \E o \in Owners, done \in BOOLEAN : AddCallback(o, done)
    \/ \E o \in Owners : AddNotification(o)
    \/ \E o \in Owners, id \in Ids : RemoveNotification(o, id)
    \/ Release

Tick ==
    \/ StartTick \/ RunFrame \/ FireNotification \/ SkipNotification \/ EndEvent
    \/ Collect \/ FireResult \/ Return \/ EndTick

Next == Call \/ Tick

Spec == Init /\ [][Next]_vars

(* The game ticks the platform, and its delegates return.                    *)
FairSpec == Spec /\ WF_vars(Tick)

-----------------------------------------------------------------------------
(* Properties.                                                             *)

(* The types; among them, that no completion is fired or freed twice         *)
(* (tick, unregister_callbacks).                                           *)
TypeOK ==
    /\ created \in BOOLEAN
    /\ frames \subseteq Owners /\ todo \subseteq Owners
    /\ queue \in [Owners -> SUBSET Results] /\ ready \in [Owners -> SUBSET Results]
    /\ later \subseteq Results
    /\ notes \in [Owners -> SUBSET Ids]
    /\ next_id \in 1 .. MaxNotes + 1
    /\ phase \in {"idle", "frames", "deliver"}
    /\ event \in [owner : Owners \cup {0}, start : SUBSET Ids, left : SUBSET Ids,
                  told : SUBSET Ids, on : BOOLEAN]
    /\ calling \in [what : {"nobody", "note", "result"}, owner : Owners \cup {0}, n : Nat]
    /\ fired \in [Results -> 0 .. 1] /\ freed \in [Results -> 0 .. 1]
    /\ queued \in 0 .. MaxResults /\ events \in 0 .. MaxEvents

InHand(r) ==
    \/ \E o \in Owners : r \in queue[o] \cup ready[o]
    \/ calling.what = "result" /\ calling.n = r

(* A completion is freed when nothing holds it any more, and exactly once:    *)
(* whether it was delivered or the platform was released with it, even       *)
(* while the tick was delivering (collect_ready_callbacks, clear).          *)
Accounted == \A r \in 1 .. queued : freed[r] = IF InHand(r) THEN 0 ELSE 1

(* Completions that are done reach the game in the order their owner queued   *)
(* them (collect_ready_callbacks, tick).                                    *)
InOrder ==
    [][\A o \in Owners, r \in Results :
         calling' = [what |-> "result", owner |-> o, n |-> r] /\ calling = Nobody
             => \A m \in (queue[o] \cup ready[o]) \ later : r \notin later => r <= m]_vars

(* The delegate of a notification that was removed does not run, whoever      *)
(* removed it and however late (find_notification).                         *)
RemovedStaySilent ==
    [][\A o \in Owners, id \in Ids :
         calling' = [what |-> "note", owner |-> o, n |-> id] /\ calling = Nobody
             => id \in notes[o]]_vars

(* When an event has been notified, every notification that was registered    *)
(* when it happened and still is has been told, whatever the delegates      *)
(* registered and removed meanwhile (notification_ids).                     *)
EveryoneTold ==
    event.on /\ event.left = {} => event.start \cap notes[event.owner] \subseteq event.told

(* A completion that is done is delivered, or dropped with the platform       *)
(* (tick).                                                                 *)
DoneIsDelivered ==
    \A r \in Results : (\E o \in Owners : r \in Due(o)) ~> freed[r] = 1
=============================================================================
