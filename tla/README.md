# EOS Reimagined: verification project

EOS Reimagined is a drop-in replacement for the Epic Online Services SDK on a
local network: a game links against the C API, and the copies of the library in
the running games find each other, prove who they are and carry lobbies,
sessions, presence and packets between them without a server. This directory
holds TLA+ models of its source, the TLC runs that check them, and TLAPS proofs
about them. Paths below are relative to the repository.

## 1. The system

### Parts, their state and their operations

| part | source | state | operations |
|---|---|---|---|
| message router | `src/net/message_router.*` | profile, sockets, `peers_`, `handshaking_`, `dialing_`, listeners | start, stop, send, and on every tick: advertise, accept, dial, shake hands, drain, dispatch, expire |
| peer channel | `src/net/peer_channel.*` | Noise handshake, stream keys, datagram counter and replay window | read_handshake, seal, unseal, seal_datagram, open_datagram |
| secure channel | `src/net/secure_channel.*` | symmetric state, cipher counters | the three handshake messages, encrypt, decrypt, split |
| wire format | `src/net/wire.*`, `src/common/byte_buffer.*` | none | serialize, deserialize |
| callback engine | `src/core/callback_manager.*` | frames, queued completions, notifications | add, remove, tick, clear |
| platform, runtime | `src/core/platform.*`, `runtime.*` | the live platform, its interfaces | create, tick, release, destroy |
| P2P | `src/interfaces/p2p.*` | connections by peer and socket, held packets, receive queue, events | send, receive, accept, close, clear, limits, notifications |
| lobbies | `src/interfaces/lobby.*` | lobbies hosted and joined, members, attributes, pending requests | create, join, leave, kick, promote, update, search, invite |
| sessions | `src/interfaces/sessions.*` | sessions hosted and joined, registered players | create, join, start, end, register, search |
| presence | `src/interfaces/presence.*` | own presence, copies of the others', drafts, queries | draft, set, query, notifications |
| connect | `src/interfaces/connect.*` | login, roster of product users | login, logout, announce |
| friends, user info | `src/interfaces/friends.*`, `userinfo.*` | who is a friend, names | list, updates, invites, queries by id and by name |
| auth, UI | `src/interfaces/auth.*`, `ui.*` | a login flag; settings | requests answered at once |
| identity, configuration | `src/core/identity.*`, `config*.cpp` | profile key, settings | load, merge, save |
| tracer | `src/core/tracer.*`, `trace_*.cpp` | the gate, a sink with its buffer and files | record, write, flush, rotate, start, stop |
| flat API | `src/flat` | none | one trampoline per exported function |
| operating system layer | `src/platform` | none | sockets, paths, entropy, network interfaces |

### How they interact

`sdk_platform::tick` is the only scheduler: it lets the router run
(`message_router::cb_run_frame`) and then the callback engine
(`callback_manager::tick`). The router dispatches every envelope, and the
`peer_connected` and `peer_disconnected` events, to the interfaces registered
for its type, synchronously and one after the other. An interface answers by
`network_.send` (synchronous: a send that fails drops the peer and dispatches
the loss at once, inside whatever is running), by queueing a completion, or by
queueing an event it fires as a notification on its next frame. Delegates of the
game run from within the tick and may call anything, release included. Between
machines there are only datagrams (announcements in the clear, sealed game
packets) and one TCP stream per pair of peers. The tracer alone is entered by
many threads at once: they number a record without a lock and write it under
the lock of the sink; there is no thread of its own.

### What is hard

* Both ends of a connection learn of its making and of its loss at different
  times, and the stream between them still holds messages when they do.
* A peer can restart under another profile at the same address; announcements
  are unauthenticated and may be stale.
* Requests and answers carry nothing that ties them together, and a request
  can be closed and made again meanwhile.
* The network repeats, loses and reorders datagrams; the replay window is a
  64-bit word with shifts and a counter with an end.
* Callbacks change the very tables that are being walked.
* A send can fail in the middle of a handler.
* Threads meet in the trace sink between the numbering of a record, its writing
  and the telling of a failure, and a stop can come between any two of these.

`PROJECT.json` lists each at its line under `hazards`, with the properties that
cover it or a note why none does.

### What makes each part correct

* Router: an id in the table is the id its connection proved; two routers agree
  on one connection; the interfaces' rosters follow the table; nothing is
  forgotten or displaced.
* Datagrams: never twice, never refused when merely late, never two under one
  nonce.
* P2P: both sides agree on what is open; the game is told the truth; order of
  reliable packets; limits; no request waits for ever.
* Secure channel: who is established knows whom it speaks to and shares its
  keys; no key meets a number twice.
* Callback engine: every completion freed once and delivered in order; a
  notification told exactly while it is registered.
* Lobbies, sessions: one owner everybody agrees on; rosters that converge; every
  request completed once.
* Connect, friends, user info, presence: what the game is shown follows the
  mesh, in every interface alike; a change of presence reaches whoever is
  connected; who introduced itself is known.
* Tracer: a log without holes that says what it dropped; bounded on disk; a
  failure told once.

## 2. Modules

```
DatagramService  <-- refined by --  DatagramChannel  <-- PeerChannelProofs
TraceLog         <-- refined by --  TraceSink  <-- CoreProofs
SecureChannel    <-- MCSecureChannel, PeerChannelProofs
MeshLink  <-- extended by --  P2P    <-- MCP2P, P2PProofs
          <-- extended by --  Lobby  <-- MCLobby, LobbyProofs
          <-- extended by --  Sessions  <-- MCSessions, SessionsProofs
          <-- extended by --  Connect  <-- Friends  <-- Social
          <-- extended by --  Presence              <-- Social
          <-- MeshLinkProofs, the lemmas the proofs above share
Social           <-- MCSocial, SocialProofs
MeshRouter       <-- MeshRouterProofs
CallbackManager  <-- CoreProofs
```

A definition beginning "Broken" in its comment is a faulty variant of the
definition after it. No specification uses one; each shows, put in the place of
the right one, that a property would notice the fault.

### DatagramChannel, DatagramService (`src/net/peer_channel.cpp`)

`udp_seq` is `udp_seq_`; `highest` and `seen` are the replay window, the bitmap
as the set of ages whose bit is set; `network` is every datagram sealed so far,
since any may arrive any number of times or never; `handed` counts deliveries.
`Seal` refuses at the end of the counter, `Open` and `Refuse` are
`open_datagram` on an authentic datagram, `OpenDamaged` on one that does not
authenticate. `Aged` is the shift with the code's guard against shifting by the
width. `DatagramService` has neither window nor counter and says what the pair
promises.

### MeshLink, P2P (`src/interfaces/p2p.cpp`)

`MeshLink` is the mesh as an interface sees it: who has adopted whom (`up`), who
has finished its half of a handshake only (`accepting`), what is in each stream
(`wire`), what flies as datagrams (`air`), and what a router has read but
dispatches only after it has reported the sender's loss (`late`, the order of
`message_router::drain_peers`). `P2P` adds `sdk_p2p` at every peer: `conn` and
`delayed` are `connections_`, `received` the receive queue, `events` and
`firing` the events before and during the tick that fires them. Each API call,
each kind of message and each step of the tick is an action. `heard` and `got`
are history: what the game was last told and the newest reliable packet it read.
The calls happen between ticks and inside callbacks, never while the router
dispatches, which is single-threaded. `Nth` and `Keep` are what is left of a
queue when some of it goes, its order kept (`flush_packets` erases in place).

### MeshRouter (`src/net/message_router.cpp`)

Every node runs a router under a profile `ident`. A connection is a slot with
two ends; an end is in `dialing_`, in the backlog of the listener, in
`handshaking_` waiting for the next of three messages, or in `peers_`. What the
handshake proves of the far end is `id` of the other role; what the announcement
promised is `expected`. `view` is what each interface has been told by
`peer_connected` and `peer_disconnected`. A node can stop, with or without a
word, and start under another profile. `AdoptPeerSendFails` is the send that
fails between a peer's adoption and the announcement of it; it breaks one
property (below), so `cut` remembers the adoptions it has cut short, and
`RostersFollowTable` says that nothing else leaves a lost peer on a roster.

### SecureChannel (`src/net/secure_channel.cpp`, `peer_channel.cpp`)

The two ends of one connection, and the connections after it. `end` is the
symmetric state of an end, with its counters; a handshake message is the sequence
of its pieces, written and read token by token from `Pattern`. Cryptography is
symbolic: a hash is what was hashed, a shared secret the set of the two keys, a
sealed piece opens under its key, number and associated data only. `Damage` alters
any piece on the wire. What is abstracted: lengths (the length of a frame, which
is its associated data in the code, travels with the frame), the end of the 64-bit
number (`DatagramChannel` has the one a peer can get near to), wiping of keys.
`sealed` is history. What is said in a frame is one of `Data`; the run has two, which
`MCSecureChannel` declares interchangeable, since nothing looks at them.

### Connect, Friends, Presence, Social (`connect.cpp`, `friends.cpp`, `userinfo.cpp`, `presence.cpp`)

One module per interface, `Friends` with the part of `sdk_userinfo` that reads the
same table; `Social` puts them on one mesh, where every event is dispatched to
each of them before the next. A key derives one account, so a peer stands for its
account. `roster` is who is known by name, `friends` and `users` who is met,
`proved` whose account presence knows, `mine` and `held` the own presence and the
copies of the others'. A presence is its status and the keys of its records: the
other fields travel with them. `draft` is a modification being made. Every message
of the two protocols, the calls of the games, the frames that fire notifications,
both deadlines and the crash and return of a machine are actions. `toldStatus`,
`shown` and `seen` are history, what the game was last told; `introduced` is
history too: who was logged in when it met whom, as only these announce
themselves.

### Lobby (`src/interfaces/lobby.cpp`)

One lobby among all peers; lobbies share nothing but the streams. `entry` is
what `lobbies_` holds of it at each peer: no entry, or `joining`, `joined` or
`hosting` with a copy of the roster and the settings. `details` is the copy a
game holds to join with, which ages from the moment the host answered the
search. `pending` is `pending_joins_` in the order in which an answer looks
through it (a map keyed by pointers, so any order). Every call, every kind of
message, both ways of losing a peer, the deadline of a join and its completion
are actions. The attributes of a member are the set of the updates its game has
made, which tells a lost update from a kept one.

The protocol does not survive everything, and the properties say exactly what:
`astray` is history and becomes true when a word about the lobby is lost on whom
it concerned. That is: it was sent to somebody who is no longer in the mesh, or
who does not heed it because ownership has passed on meanwhile; it belongs to an
earlier stay of the same peer (a join begun while another is unanswered or
anything of the stay before is under way, an admission nobody waits for, a
deadline that passes while the answer is under way); the host promoted itself, or
gave the lobby up while a member's leave or update was on its way to it; or a
machine went away while anything was under way. `Undisturbed` excludes these and
broken connections between live peers, which leave two halves that both go on.
The list is longer than the first runs asked for: the proof of `Agreement` failed
at words of an earlier stay and at words read by a host that had given the lobby
up and got it back, and larger instances then showed both.
`HostOwns` and `JoiningIsPending` hold without it.

What the model shows to go wrong once `astray` holds, each reachable by legal
calls: a newcomer whose host is lost takes itself for a member of a lobby that
never admitted it; a host that promotes itself stops hosting; an heir that has
left meanwhile is handed the lobby and refuses it silently; a kick that crosses
the member's leaving and rejoining closes the new stay; a join by id during a
handover is admitted by nobody or by the wrong host; the two halves of a broken
connection both host. An update that is not a member's last may be undone by a
broadcast which crosses it and sent back to the host with the next one, so
`LatestUpdateKept` is about the last.

### Sessions (`src/interfaces/sessions.cpp`)

One session among all peers. A session is created once and has one host for
life: it is not handed on, so it ends when its host destroys it. `entry` is
`sessions_` at each peer, by the name the game chose; the wire knows the id only
and `ById` is `find_by_id`, the first entry in the order of the names. `found` is
the details a game copied out of a search, which it may join with at any later
time, its own session included. `search` is a search object with the peers it
still awaits, `pending` is `pending_joins_` as in `Lobby`. Every call that
changes a session, every kind of message, the loss of a peer, both deadlines and
the completions are actions; a call that seats or unseats names one player at a
time.

A game may write to any entry it has, whoever hosts the session, and members
heed nobody but the host: `wrote` remembers the copies that differ from the
host's word for this reason. `byHand` are the players whose seat a game gave or
took at the host, or who gave up their own: they are told nothing, or not
everything. `astray` becomes true when the host seats a player that has given up
(a deadline passes while the answer is under way), when a join belongs to an
earlier stay, and when a member leaves whose own copy does not list the host, so
that the host is not told. `twice` are the peers that held the session under two
names.

What the model shows beside the properties, each reachable by legal calls: an
entry under a second name stays in `joining` for ever, because the answer is
applied to the first; a host that tries to join its own session under an earlier
name answers everybody that it hosts nothing; a game that seats players
(`register_players`) may go past `max_players`, and the members then refuse what
the host holds; a host that unseats itself may not seat anyone again; a player
that was lost returns to a member's roster with a broadcast that was under way,
and stays there until the next. A search that is released in flight never
completes (`search_release` forgets the link by which `run_callbacks` would find
that it is gone); completions belong to `CallbackManager`, so no property here
says so.

### CallbackManager (`src/core/callback_manager.cpp`)

A completion is its number in the order of queueing; it is in `queue`, then in
`ready` (collected by the tick), then with its delegate, then freed. `phase`
says what `tick` is doing, `todo` is the snapshot of `run_frames`, `event` the
walk over `notification_ids` that an interface makes with `find_notification`
before each call. A delegate (`calling`) may do anything a game may: `Call` is
enabled while it runs, `Release` included. Ticks nested in a delegate are left
out: a game that calls `EOS_Platform_Tick` from a callback is outside the API's
contract.

### TraceSink, TraceLog (`src/core/trace_sink.cpp`, `tracer.cpp`)

Threads that record (`doing`) share a sink. A record passes the gate (`Begin`),
takes its number (`NextEnvelope`), is written (`Write`), and whoever leaves the
sink tells of a failure it finds there (`DeliverPending`): four steps, between
which any other thread may do any of its own. What happens under the lock is one
step, computed by operators on the sink that yield every outcome the disk allows:
a write that leaves a part, a remove or rename that fails at any of the files.
`files` are `trace.jsonl` and its numbered predecessors. A line is its number, its
size and what it says was dropped. `TraceLog` has neither files nor buffer: a log
that grows at its end and loses whole records at its start.

## 3. Runs

Bounds are constants of the modules, named there.

| run | question | bounds, and why they are enough |
|---|---|---|
| `datagramchannel` | late is welcome, no nonce twice, refinement of `DatagramService` | window of 4, counter to 9: jumps shorter than, equal to and longer than the window, twice over, and the end of the counter |
| `p2p` | games informed, queue, order, limits, agreement | 2 peers, 1 socket, 2 packets (an order needs two); one disturbance (`MaxTrouble`) out of a close or clear, an unsolicited accept, a break of the mesh and a limit of one packet, at every moment |
| `p2p_settle` | a request settles | peers that meet late, one break, asking only peers in the mesh (`AskOffline`) |
| `meshrouter` | authentic, rosters, nothing forgotten, convergence | 2 machines, 3 profiles (so that a restart can take a new one), 2 connections at a time, 1 restart, 1 failure, 1 sealed frame a direction |
| `callbackmanager` | every completion accounted for, told while registered, silent after, delivered | 3 completions, 3 notifications, 2 owners, 1 event: a delegate can register, remove and leave one behind |
| `lobby` | one host, agreement, latest update, joins that end | 3 peers, in the lobby together, two of them, or nobody; any three of a creation, two joins, two departures, a kick, two handovers, two updates, a timeout, a crash, a break (`AnyThree`), with a search beside them; rooms of 2 and 3, so that one is full |
| `sessions` | joins that end, searches that are answered, the host's word, who has a seat | 3 peers and 2 names, one host and one member in the session or nobody; any three of a creation, two joins, two departures, two writes, two changes of seats, a search, a timeout, a crash, a break (`AnyThree`); rooms of 2 and 3, so that one is full, open and closed to late joins |
| `social` | presence current, readers agree, the game catches up, who introduced itself is known | 2 peers; any six of two logins or logouts, three steps on a draft, a set, a query, a timeout, two meetings, a break, a crash (`Few`); statuses the receivers can name; 2 keys of records where 1 is allowed, so that the cap bites |
| `tracesink` | bounded on disk, a log without holes, a failure told once | 2 threads, a cap of 4 bytes over lines of 1 and 3 and the sink's own of 2, so that files fill exactly, nearly and not at all; 2 rotated files and 6 numbers, enough to rotate until one is dropped |
| `securechannel` | both ends authentic, no key with a number twice | 2 prologues, 2 different things to say, 2 connections one after the other, 1 frame and 1 datagram an end in each, 1 piece damaged |

`p2p`, `lobby`, `sessions` and `social` bound the number of disturbances, not where
they fall: each may come before, between or after any two messages. `lobby` was also explored by
random simulation from both initial lobbies with nine of these together (four
joins, four updates, three handovers) without a further violation, and
`sessions` with ten (four each of joins, departures, writes and searches); that
shows nothing beyond itself and is no run.

The runs of `P2P`, `CallbackManager`, `Lobby`, `Sessions`, `Social`, `TraceSink` and
`SecureChannel` do not check deadlock: when the bounds are used up and every
message is read, or after the platform is released or the trace is stopped,
nothing has to happen. `DatagramChannel` and `MeshRouter` can always go on and
are checked for it.

### Where the code and its documentation disagree

| run | said | shown |
|---|---|---|
| `lobby_heirs` | every member elects the same heir from the same roster (`lobby.cpp:1663`) | the rosters differ while somebody joins: two members elect each other and nobody hosts |
| `social_late` | a known peer is one we have met on the mesh (`connect.h:70`) | `login` announces itself to nobody: two platforms that meet before their users log in never know each other, and joins between them are refused |

Others the models reach have no run of their own. Each is seen by checking the
property named, with the other constants as in the run of the module:

* a connection is only open once both sides have agreed (`p2p.h:115`): a response
  answers whichever request is pending, so after ask, close, ask again the first
  response opens the second connection (`OpenIsMutual`, with one close);
* a peer that went away takes its connections with it (`p2p.cpp:877`):
  `drain_peers` dispatches what it read after it reported the loss
  (`RequesterPresent`);
* a request may not vanish (`p2p.h:165`): one to a peer not met yet does, and is
  never repeated (`RequestSettles`, with `AskOffline` TRUE);
* interfaces learn that a peer left (`message_router.cpp:423`): an announcement
  that fails reports the loss before the arrival; `RostersFollowTable` holds for
  all others because `cut` names these;
* a status no receiver can name is set without a word, and from then on the
  others keep the presence before (`PresenceCurrent`, with `Statuses` beyond
  `Known`; `presence.cpp:63-65` says a sane peer never sends one);
* an answer read before its sender was dropped puts the sender back on the roster
  of connect (`connect.cpp:390`), where it stays: `ReadersAgree` is therefore about
  every interface but connect.

The passing runs show what holds beside these: connections are mutual while no
game closes and the mesh holds (`MutualUndisturbed`), requests to peers in the
mesh settle, the interfaces' rosters follow the table but for the adoptions that
a failed send cut short, lobbies agree unless a word was lost, and who was logged
in when it met a peer is known to it (`IntroducedIsKnown`).

Two more were met while reading, and have no run: sending with
`bDisableAutoAcceptConnection` unset accepts only a connection nobody has asked
for yet (`p2p.cpp:294` against `eos_p2p_types.h:100`), and notifications are
fired under the lock that `callback_manager.h:57-59` says is released before
delegates run.

### Fairness

* `MeshRouter!FairSpec`: a running router ticks, so it announces itself, answers
  announcements, carries on its handshakes, reads its streams and notices
  silence, each weakly fair. No failure, stop or start is ever due.
* `P2P!FairSpec`: the tick, the delivery of what is in a stream, the end of an
  ended stream and the two halves of a meeting are weakly fair, because the tick
  does them. The other game answers a request it was told of: the notification
  asks it to, and a game that does not is the only reason left for a request to
  wait.
* `CallbackManager!FairSpec`: the game ticks and its delegates return.
* `TraceSink!TraceSpec`: a thread that has begun a record, or the stop, goes on with
  it; nobody has to begin one.

## 4. Proofs

`PeerChannelProofs` proves every property of both parts of a peer channel. Of the
datagram channel: for every window width and every end of the counter. The inductive invariant is
`IInv`: the types, the exactness of the bitmap (`WindowExact`), at most one
delivery each, and that what was sealed is below the counter and what was
delivered was sealed (`Provenance`). `WindowExact` is what makes the others
inductive: without it the bitmap says nothing about what was delivered.
`AcceptsOnlyNew` and `RememberExact` carry the argument about the shift; the
refinement of `DatagramService` and the action property `NonceFresh` follow from
the invariant. The only assumption is `ChannelAssumption`: the width is positive.

Of the secure channel: `Authentic` and `NeverReused`, for any prologues, any data,
any number of connections one after the other, of frames and of damaged messages.
`SecureIInv` says that a connection is in one of five stages (`Unsaid`, `Dialled`,
`Answered`, `Half`, `Settled`), and a stage gives both ends to the last field and
what can lie on the wire, each piece as it was written or damaged. The ends are
given by their transcripts (`Heard0` to `Heard3`) and the secrets mixed so far
(`Mixed1` to `Mixed3`), in which the initiator's ephemeral is a parameter: a
damaged first message gives the responder another one. That is why a session with
a damaged greeting, or between ends with different prologues, goes no further than
`Answered`: the first sealed piece opens only under a transcript that is the same
from its first element on (`ReadSecond`). `WriteFirst` to `WriteThird` and
`ReadFirst` to `ReadThird` compute the three messages token by token, for every
value. For `NeverReused` the stage is not enough, since `sealed` remembers all
sessions: `Accounted` adds that every key holds the responder's ephemeral of the
session it is from, none of a session to come, and that of this session only the
pieces of the handshake and the numbers the ends have counted are used up. The
proof names sequences of up to three elements (`One`, `Two`, `Three`, `Add`) and
hides what they are, because the provers lose their way in transcripts when they
see the tuples.

`CoreProofs` proves every safety property of the callback engine for
any set of owners and any number of completions, notifications and events. Its
`IInv` adds to the checked invariants: completions in hand have been queued
(`Numbered`), only one place holds each (`OneHolder`), none in hand was fired
(`Unfired`), the phase tells what the rest of the state can be (`Phased`), what
was collected and is due comes before what is still queued (`DueAhead`), and the
walk over an event's notifications has told or will tell whoever is left
(`Telling`). `Accounted` is not inductive without `OneHolder` and `Unfired`;
`InOrder` needs `DueAhead`; `RemovedStaySilent` needs `Phased`.

`CoreProofs` also proves both safety properties of the tracer, for any threads, sizes of
lines, caps and numbers of rotated files: `DiskBounded`, and that `TraceSink`
implements `TraceLog`. The size of a file and the log its files make are recursive
functions. No induction theorem of the library can be used on them; what is
needed is proved from the well-foundedness of the numbers: what holds first and is
passed on holds to the end (`Upwards`), such functions exist (`Recursion`) and are
one (`SumsUnique`, `JoinsUnique`). From these follow what a line adds to a file
(`BytesAppend`) and what each change of the files does to the log: `KeptMore` and
`KeptLess` for what is written, `KeptRenamed` for files that move up, which changes
nothing, `KeptDropped` for the oldest. An operator on the sink then has one lemma that says
what comes of a sink that works (`Working`: it is bounded and knows the size of every
file): it works on and the log grew by what it may (`Grew`), or it has failed and
a part is left (`Broke`). `Bounded` alone is not inductive: that no file passes the cap
rests on `current` being the size of the live file and the buffer together, and
that nothing is kept too many on `sizes` naming every file there is. `TraceInv` adds the gate
and that one thread at most is stopping, without which a trace could be closed twice.
The assumption is `TraceAssumption`: the cap holds at least one line of the sink's own.

`MeshRouterProofs` proves every safety property of the router for any number of
nodes, ids, interfaces and connections, and any number of failures and restarts.
Its `IInv` adds three facts to the checked invariants. A connection in use is
between two different nodes, each end in a state of its own role, and a dialler
that has adopted the other end has adopted the id it was after (`Formed`); only
a running router has open ends (`OnlyRunning`); an announcement tells of another
node than it is sent to (`AdvertsOK`), which is why nobody connects to itself.
`PeersAuthentic` and `NoneForgotten` are each other's converse and are carried
together: an adoption and a drop change one end and one entry at once
(`AdoptPeerOK`, `DropPeerOK`), and every other step leaves adopted ends alone
(`Keeps`, `SameTable`). `OneAttempt` needs both: a dialled connection that is
established has its entry, under the id announced, so that no new announcement
of that id is dialled. The assumption is `MeshAssumption`.

`LobbyProofs` proves, for any peers, rooms and bounds, the types of `Lobby`, that
a host owns its lobby and sits in it (`HostOwns`) and that a join under way is
waited for (`JoiningIsPending`), whatever goes astray. `IInv` is needed for three
things. What is in the streams and what was read too late is well-formed, and
every broadcast names an owner that is on its roster (`SeatedInfos`), because the
receiver becomes host with whatever roster it is handed. An owner has a seat also
where it hosts no more or has not been admitted yet (`EntryOK`): a handover can
make a host of it. And an update that is remembered was made (`HistoryOK`).
`OnPeerDisconnected` and `OnInfos` are the steps with the argument in them: the
heir is one of those who stay (`HeirStays`), and only the owner's word is heeded.
The assumption is `LobbyAssumption`: ids are numbers, so that the smallest of a
set exists, `None` is none of them, a lobby formed at the start has an owner on its
roster, and at most one is created.

That there is one host, that all agree in the end and that no last update is lost
(`OneHost`, `Agreement`, `LatestUpdateKept`) needs what is under way, and the second
half of the module is about that. The invariant is `Steadfast`: while nothing has
gone astray, `Firm` holds. It has four ideas.

* It speaks of what everyone holds once it has noticed that its owner is gone
  (`Views`, `AfterLoss`). Members learn of a loss one after the other and elect the
  heir each for itself; in this view they have all done so already, and noticing
  changes nothing (`OwnerGoneFirm`).
* One peer speaks for the lobby (`Single`): the host, or who is about to read that it
  is the owner now, never both. What it says is what it holds or is about to be told.
* Whoever is in the lobby follows a course (`Trail`): the words it has yet to read,
  from whatever peers, in the order in which it heeds them, each naming the sender of
  the next. At the end of it the member is up to date or told to go (`Follows`).
  Nothing needs to hold in between, and that is what makes a broadcast that crosses
  another, a handover or a departure harmless.
* Who has a seat is in, has a leave or an admission under way, or is gone
  (`Seats`); and the last update of a member is on the roster or the last of its
  updates under way, behind the request if it is still asking (`Kept`, `Asked`).

`Calm` says of the mesh that one machine at a time is gone and nothing else is under
way then, as `astray` demands. `HostSays` carries every member's course over a word of the
host, `GoodNames` over its naming a successor, `HeededFirm` over a word that is read,
and `VanishHost` over the loss of the host; `FirmInit` and one lemma per handler, down
to `StepFirm`, make of these that `Firm` stays. `AtRest` reads the three
properties off when no line has anything left. TLC checks
the three properties themselves (`lobby`) and not `Steadfast`, whose courses are
functions of unbounded length.

`SessionsProofs` proves every property of `Sessions` for any peers, names, settings
and bounds. Everything anyone holds,
found or reads of the session names its owner: `IInv` says so with a set `O` of
at most one peer (`Typed`), empty until the session is created, which is the one
step that gives another `O`. A member's session is somebody else's only because
of it: the host's word may replace the whole copy (`OnInfosOK`). Joins need that
who has kept to one name holds the session once (`JoinsOK`), so that the entry a
verdict, a deadline or a destruction is looked up for is the one that is joining.
`AskedWillAnswer` is inductive over these. Streams between two peers that still
have each other only lose what is read from their head (`AskedKept`), a question
is answered in the step that reads it, and an answer strikes its sender off the
list (`DeliverOK`). The assumption is `SessionsAssumption`: ids and names are
numbers, `None` is neither a peer nor settings, a session formed at the start has
its owner on its roster, and at most one is created.

The two properties of a settled session need what is still on its way. For
`HostsWord` (`WordsOK`): of the settings a host holds, the last word under way to a
member on its roster says just these (`LastSays`), and if none is under way and the
host has no request of the member before it, the member's copy does (`WordsAgree`).
`LateApart` says why a word read too late is harmless: it is from somebody the
reader has lost. `SeatsAgree` rests on `SeatsOK`, which speaks of the owner and of
peers that kept the connection and whose game did nothing by hand (`Fair`). Between
these two there is at most one request or one verdict, never both; while the
session lasts, a peer whose request or leave has been read has a seat exactly if it
is in or the verdict before it grants one; once it has ended, whoever is in has the
destruction before it (`SeatOf`). The session begins with no word about it between
peers that are connected (`QuietBefore`). One lemma per handler, from `EndSeats` to
`DestroyedSeats`, follows the one pair of streams and the two copies it changes, and
`SeatKept` says what leaves a seat as it was.

`SocialProofs` proves every property of `Social` for any peers, statuses, keys and
bounds. Its `IInv` is one part per module: the streams carry well-formed messages
(`LinkOK`); what was told and what is still to be told gives the login
(`ConnectOK`) and the friends (`FriendsOK`); `PresenceOK` the types and that a copy
is only held of a proved account; `FollowMesh` that friends, users and proved
accounts are those in the mesh; `NamesOK` that who was introduced is on the roster
or about to be. `CurrentOK` is a second invariant above it: between two peers that
are connected the last word of each is what it holds now. It assumes that games
set statuses with a name (`Statuses \subseteq Known`), and the theorem says so;
the others do not.

`P2PProofs` proves, for any peers, sockets, limits and bounds, that the game is
informed, that what it can read belongs to an open connection, that limits are
respected and that connections are mutual while nothing is closed and the mesh
holds. `IInv` has the streams (`LinkOK`), the counters (`SpentOK`) and one predicate
of what a peer holds (`PeersOK`): what is held implies an entry that is not open,
what is queued implies one that is, and the last of what the game was told, or will
be by the events fired or queued, fits the state (`NewsOK`). `Told` is this last
word of a sequence of events, and `ToldMore` and `ToldFirst` say what queueing and
firing do to it. `MutualUndisturbed` needs an invariant of its own, `CalmOK`, which
holds as long as nothing was closed and the mesh has not broken: nobody takes back
what it has sent (`Backed`), so a message under way says something of its sender
now, and an open connection is open at the other end or has a response under way
to it (`Agreed`). `CalmMove` proves that it survives every step that advances one
connection and posts what its sender stands by, and each action is shown to be such
a step. The assumption is `PeersAssumption`: the sets are finite.

That reliable packets are read in order rests on a third invariant, `OrderOK`: for
each connection the numbers grow along one line (`Line`), from what was read over
the queue, what was read late, the stream and what is held to what is still to be
given. `Within` says this of one stretch of the line, and `Drawn` that what is
left of a stretch are some of its numbers in their order. `StepOrdered` splits a
step into what a peer sends (`SendsWell`) and what it reads (`ReceivesWell`), so
that each action has only these two to show; what is cleared on a close or a loss
leaves gaps and no disorder.

`MeshLinkProofs` holds what the proofs over `MeshLink` need of the connections:
sending, reading in time and late, dropping a peer and vanishing keep streams
well-formed and leave the streams of others alone. It also has what is wanted of
sequences and of the smallest of a set of numbers (`LeastOf`, by well-founded
induction).

Some theorems state properties no run checks any more, since another says more:
the types and the exact window of the datagram channel, `NoReplay`, `OneAttempt`
and `NotDisplaced` of the router, the types and the order of the callback engine.

Every invariant the passing runs check is a theorem, and so are their action
properties and refinements. Model-checked only: liveness, which is out of the prover's
reach (`RequestSettles`, `Converges`, `DoneIsDelivered`, `FailureToldOnce`), and the
disagreements.

## 5. What is not modelled

`PROJECT.json` names every component. Most of the repository by size has no
behaviour to model: the headers of the C API are types and declarations, the files
of `src/flat` pass each call to the method of an interface or, in
`eos_stubs_flat.cpp`, answer "not implemented" for the interfaces that do not exist.
Auth and UI complete every request at once from constants, the integrated platform
is a container, identity and configuration are read once when a platform is made.
Beyond these: cryptography itself (symbolic in `SecureChannel`, taken as proved by
`ProvedId` in `MeshRouter`), encodings, the operating system, and the registry of
platforms. In the modelled components: payloads, channels and sizes of
packets (one packet is one unit of a limit), NAT and relay settings, trace
records, the size of an outbox (that one is full is a failure of `ExpirePeer`, due
at any time), sandbox and game filters of the router. A send that fails inside a
handler is modelled in `MeshRouter` for adoption only; `P2P` and `Lobby` learn of
the loss afterwards, as they do when the socket still takes the bytes. In `Lobby`:
invites and RTC rooms, the matching of searches, the handles of modifications and
details, and what members are notified of. In `Sessions`: more than one session,
several players in one call, what a search compares beyond who may be found and
whom it is aimed at, the age of a staged modification (any settings may be written
at any time), invitations, which the code answers with "not implemented". All
peers of a mesh play the same game, because the handshake binds it, so the check
of the game in a search never fails. `Lobby` and `Sessions` take whoever is met
for known (`is_known_peer`), which is what `Social` shows to hold of peers that
were logged in when they met. In `Social`: rich text and join info, limits of
strings, mappings of external accounts. In `TraceSink`: what a record says, and
the order of lines: a number is taken before the lock, so two lines may be
swapped, and only the numbers are promised to grow.

## 6. Plan

What is left, in this order, each with its properties and mutants in the run of
the component it extends:

1. The send that fails inside a handler in `P2P`.
2. Invites and RTC rooms in `Lobby`; a second session in `Sessions`.
3. The registry of platforms, with create, release and nested ticks.
4. Pure models: precedence of configuration sources, comparison of attributes in
   searches, checked against reference definitions.
