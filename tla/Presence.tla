------------------------------ MODULE Presence ------------------------------
(***************************************************************************)
(* sdk_presence (src/interfaces/presence.cpp): each peer keeps its own     *)
(* presence, tells every peer it knows of a change, and holds what the     *)
(* others last told it.  A key derives one account, so a peer stands for   *)
(* its account.  A presence is its status and the keys of its records; the *)
(* other fields, and the values of the records, go the same way.           *)
(***************************************************************************)
EXTENDS MeshLink, FiniteSets, SequencesExt

CONSTANTS
    Statuses,       \* the status codes a game passes to SetStatus
    Known,          \* the codes EOS_Presence_EStatus names
    Online,         \* the one a presence starts with
    Keys,           \* keys of data records
    MaxKeys,        \* max_data_keys
    None            \* no presence, no change

ASSUME PresenceAssumption ==
    /\ Online \in Known
    /\ None \notin Statuses \cup Known
    /\ MaxKeys \in Nat
    /\ IsFiniteSet(Keys)

VARIABLES
    mine,           \* presences_: of the own account
    draft,          \* modifications_: the one the game of p works on, if any
    proved,         \* peer_epic_: the peers whose account is known
    held,           \* presences_: of the accounts of others
    queries,        \* pending_queries_: what is known of the answer about an account
    seen            \* history: what the game of p was last notified of

presenceVars == <<mine, draft, proved, held, queries, seen>>

Presences == [status : Statuses \cup Known, keys : SUBSET Keys]
NoPresence == [status |-> None, keys |-> {}]

(* A set_data or delete_data call names at most max_data_keys of them; one     *)
(* that names none changes nothing.                                         *)
Batches == {batch \in SUBSET Keys \ {{}} : Cardinality(batch) <= MaxKeys}
NoDraft == [open |-> FALSE, status |-> None, deleted |-> {}, set |-> {}]

(* seed_myself                                                             *)
Seed == [status |-> Online, keys |-> {}]

PresenceInit ==
    /\ mine = [p \in Peers |-> Seed]
    /\ draft = [p \in Peers |-> NoDraft]
    /\ proved = [p \in Peers |-> {}]
    /\ held = [p \in Peers |-> [q \in Peers |-> NoPresence]]
    /\ queries = [p \in Peers |-> [q \in Peers |-> "none"]]
    /\ seen = [p \in Peers |-> [q \in Peers |-> NoPresence]]

(* presence_within_caps: what a peer does not throw away.                     *)
WithinCaps(presence) == presence.status \in Known /\ Cardinality(presence.keys) <= MaxKeys

(* The message with which p tells of its presence.                            *)
Telling(presence) == [type |-> "presence", body |-> presence]

(* broadcast_my_presence, or a request, to everyone p knows; w is the wire     *)
(* before.                                                                 *)
ToAll(w, p, m) ==
    [pq \in Pairs |-> IF pq[1] = p THEN Posted(w, p, pq[2], <<m>>)[pq] ELSE w[pq]]

-----------------------------------------------------------------------------
(* The calls of the game.                                                   *)

CreatePresenceModification(p) ==
    /\ ~draft[p].open
    /\ draft' = [draft EXCEPT ![p] = [NoDraft EXCEPT !.open = TRUE]]
    /\ UNCHANGED <<mine, proved, held, queries, seen>>

(* modification_set_status takes any number for a status.                     *)
ModificationSetStatus(p, status) ==
    /\ draft[p].open
    /\ draft' = [draft EXCEPT ![p].status = status]
    /\ UNCHANGED <<mine, proved, held, queries, seen>>

ModificationSetData(p, batch) ==
    /\ draft[p].open
    /\ draft' = [draft EXCEPT ![p].set = @ \cup batch]
    /\ UNCHANGED <<mine, proved, held, queries, seen>>

ModificationDeleteData(p, batch) ==
    /\ draft[p].open
    /\ draft' = [draft EXCEPT ![p].deleted = @ \cup batch]
    /\ UNCHANGED <<mine, proved, held, queries, seen>>

ModificationRelease(p) ==
    /\ draft[p].open
    /\ draft' = [draft EXCEPT ![p] = NoDraft]
    /\ UNCHANGED <<mine, proved, held, queries, seen>>

(* Broken: what is not staged is blanked.                                    *)
MergedBlanks(presence, d) ==
    [status |-> d.status, keys |-> (presence.keys \ d.deleted) \cup d.set]

(* The presence with the staged changes, whatever order they were staged in:  *)
(* what is deleted goes before what is set comes.                           *)
Merged(presence, d) ==
    [status |-> IF d.status = None THEN presence.status ELSE d.status,
     keys |-> (presence.keys \ d.deleted) \cup d.set]

(* Broken: the merge may overflow.                                            *)
SetPresenceUnchecked(p) ==
    /\ draft[p].open
    /\ mine' = [mine EXCEPT ![p] = Merged(mine[p], draft[p])]
    /\ wire' = ToAll(wire, p, Telling(Merged(mine[p], draft[p])))
    /\ UNCHANGED <<draft, proved, held, queries, seen>>

(* set_presence: more records than allowed are LimitExceeded and change       *)
(* nothing; otherwise everyone is told.  The draft stays.                   *)
SetPresence(p) ==
    LET merged == Merged(mine[p], draft[p])
    IN  /\ draft[p].open
        /\ IF Cardinality(merged.keys) > MaxKeys
           THEN UNCHANGED <<mine, wire>>
           ELSE /\ mine' = [mine EXCEPT ![p] = merged]
                /\ wire' = ToAll(wire, p, Telling(merged))
        /\ UNCHANGED <<draft, proved, held, queries, seen>>

HasPresence(p, t) == t = p \/ held[p][t] # NoPresence

(* query_presence: what is held is the answer; otherwise everyone is asked.   *)
(* A query about an account that is already waited for shares its fate.       *)
QueryPresence(p, t) ==
    /\ queries[p][t] = "none"
    /\ IF HasPresence(p, t)
       THEN queries' = [queries EXCEPT ![p][t] = "found"] /\ UNCHANGED wire
       ELSE /\ queries' = [queries EXCEPT ![p][t] = "asked"]
            /\ wire' = ToAll(wire, p, [type |-> "who", body |-> t])
    /\ UNCHANGED <<mine, draft, proved, held, seen>>

-----------------------------------------------------------------------------
(* The tick: a query that is answered is reported, and one whose deadline is  *)
(* over is NotFound.                                                       *)

QueryAnswered(p, t) ==
    /\ queries[p][t] = "found"
    /\ queries' = [queries EXCEPT ![p][t] = "none"]
    /\ UNCHANGED <<mine, draft, proved, held, seen>>

QueryTimedOut(p, t) ==
    /\ queries[p][t] = "asked"
    /\ queries' = [queries EXCEPT ![p][t] = "none"]
    /\ UNCHANGED <<mine, draft, proved, held, seen>>

-----------------------------------------------------------------------------
(* What the mesh tells.                                                     *)

PresenceOnMet(p, q) ==
    /\ proved' = [proved EXCEPT ![p] = @ \cup {q}]
    /\ UNCHANGED <<mine, draft, held, queries, seen>>

(* Broken: a peer that leaves may still speak for its account.                *)
PresenceLeftProved(p, q) ==
    /\ held' = [held EXCEPT ![p][q] = NoPresence]
    /\ UNCHANGED <<proved, mine, draft, queries, seen>>

(* A peer that leaves takes its presence with it; the game is not told.       *)
PresenceOnLeft(p, q) ==
    /\ proved' = [proved EXCEPT ![p] = @ \ {q}]
    /\ held' = [held EXCEPT ![p][q] = NoPresence]
    /\ UNCHANGED <<mine, draft, queries, seen>>

(* Broken: a change of the records alone is no change.                        *)
PresenceEqualByStatus(a, b) == a.status = b.status

PresenceEqual(a, b) == a = b

(* presence_info: the game is notified of a change, and whoever asked has an  *)
(* answer.                                                                 *)
OnPresenceInfo(p, q, presence) ==
    IF WithinCaps(presence) /\ q \in proved[p]
    THEN /\ held' = [held EXCEPT ![p][q] = presence]
         /\ seen' = [seen EXCEPT ![p][q] =
                       IF held[p][q] # NoPresence /\ PresenceEqual(held[p][q], presence)
                       THEN @ ELSE presence]
         /\ queries' = [queries EXCEPT ![p][q] = IF @ = "asked" THEN "found" ELSE @]
         /\ UNCHANGED <<mine, draft, proved>>
    ELSE UNCHANGED presenceVars

(* What p sends to q on a message of q: presence_request, of which only the   *)
(* owner of the account takes notice.                                       *)
AnswerTo(p, m) ==
    IF m.type = "who" /\ m.body = p THEN <<Telling(mine[p])>> ELSE <<>>

PresenceOnMessage(p, q, m) ==
    IF m.type = "presence" THEN OnPresenceInfo(p, q, m.body) ELSE UNCHANGED presenceVars

PresenceRestart(p) ==
    /\ mine' = [mine EXCEPT ![p] = Seed]
    /\ draft' = [draft EXCEPT ![p] = NoDraft]
    /\ proved' = [proved EXCEPT ![p] = {}]
    /\ held' = [held EXCEPT ![p] = [q \in Peers |-> NoPresence]]
    /\ queries' = [queries EXCEPT ![p] = [q \in Peers |-> "none"]]
    /\ seen' = [seen EXCEPT ![p] = [q \in Peers |-> NoPresence]]
=============================================================================
