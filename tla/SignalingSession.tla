-------------------------- MODULE SignalingSession --------------------------
(***************************************************************************)
(* The session core of the MediaServo signaling server                     *)
(* (mediaservo-server/src/signaling.rs, room.rs, roles.rs): what one       *)
(* WebSocket connection does to the server's shared tables from the        *)
(* moment its RoomJoin has been authenticated until its last cleanup.      *)
(*                                                                         *)
(* Every connection is served by a tokio task of its own on a              *)
(* multi-threaded runtime.  The shared tables are DashMaps and one mutex,  *)
(* so a step below is one critical section (one table call, or a run of    *)
(* calls no other task can tell apart) and steps of different tasks        *)
(* interleave freely, also between two calls without an await.             *)
(*                                                                         *)
(* A peer id is named by the connection that minted it (a fresh UUID); a   *)
(* re-attaching connection adopts the peer id in the ticket it burns.  A   *)
(* ticket's nonce is 32 random bytes drawn per issue, so it is identified  *)
(* with the issue number `seq' of the ticket.                              *)
(***************************************************************************)
EXTENDS Naturals, FiniteSets

CONSTANTS
    Conns,          \* WebSocket connections, each used once
    Devices,        \* vehicles: SessionIdentity::Device
    Accounts,       \* cockpit accounts: SessionIdentity::Account
    Legacy,         \* the identity of a PSK session: SessionIdentity::Legacy
    Rooms,          \* room ids
    AudioRooms,     \* the rooms is_audio_room accepts
    Access,         \* <<account, device>> pairs can_access_vehicle accepts
    Controllers,    \* accounts whose role has can_control
    Requests,       \* RoomJoin requests the clients may send
    Cap,            \* RESUME_GLOBAL_CAP
    None            \* absent value (Option::None)

Identities == Devices \cup Accounts \cup {Legacy}
Roles      == {"Host", "Remote", "Consumer"}

ASSUME ConnsFinite    == IsFiniteSet(Conns)
ASSUME CapAssumption  == Cap \in Nat \ {0}
ASSUME NoneAssumption == None \notin Conns \cup Devices \cup Nat
\* identity_key folds the three kinds of identity into one string space
ASSUME IdentitiesApart == /\ Devices \cap Accounts = {}
                          /\ Legacy \notin Devices \cup Accounts
                          /\ Devices \cap Conns = {}
\* v3: negotiated >= PROTOCOL_MIN_RESUME, the server's highest dialect
Request == [id : Identities, role : Roles, room : Rooms, v3 : BOOLEAN]
ASSUME RequestsAssumption == Requests \subseteq Request

VARIABLES
    phase,             \* where the connection's task stands
    req,               \* the authenticated RoomJoin it serves (fixed at Init)
    peer,              \* its peer id, fresh or adopted
    resumed_from,      \* the nonce whose ticket it burned, or None
    job,               \* the disconnect_session its task is running or sleeping on
    resume_table,      \* the tickets held
    resume_seq,        \* the next ticket's issue number
    host,              \* RoomManager: the host slot of each room
    remote,            \* RoomManager: the remote slot
    consumers,         \* RoomManager: the consumer list
    device_bindings,   \* peer id -> authenticated device
    room_owners,       \* room -> vehicle that owns it
    status_registry,   \* rooms with a stored StatusReport
    producers,         \* live SFU media producers with their registered owner
    displaced,         \* history: peers whose slot a takeover or an admin took
    abandoned          \* history: peers whose ticket was lost while retained

connVars == <<phase, req, peer, resumed_from, job>>
roomVars == <<host, remote, consumers>>
regVars  == <<device_bindings, room_owners, status_registry, producers>>
tickVars == <<resume_table, resume_seq>>
histVars == <<displaced, abandoned>>
vars     == <<connVars, roomVars, regVars, tickVars, histVars>>

Phases == {"idle", "takeover", "gate", "join", "bind", "ticket", "live", "ended"}
Stages == {"none", "held", "reclaim", "leave", "teardown"}

Ticket   == [id : Devices, room : Rooms, peer : Conns, seq : Nat]
Job      == [stage : Stages, peer : Conns, room : Rooms, seq : Nat, gone : BOOLEAN]
Producer == [room : Rooms, owner : Devices \cup Conns]

TypeOK ==
    /\ phase \in [Conns -> Phases]
    /\ req \in [Conns -> Request]
    /\ peer \in [Conns -> Conns]
    /\ resumed_from \in [Conns -> Nat \cup {None}]
    /\ job \in [Conns -> Job]
    /\ resume_table \subseteq Ticket
    /\ resume_seq \in Nat
    /\ host \in [Rooms -> Conns \cup {None}]
    /\ remote \in [Rooms -> Conns \cup {None}]
    /\ consumers \in [Rooms -> SUBSET Conns]
    /\ device_bindings \in [Conns -> Devices \cup {None}]
    /\ room_owners \in [Rooms -> Devices \cup {None}]
    /\ status_registry \subseteq Rooms
    /\ producers \subseteq Producer
    /\ displaced \subseteq Conns
    /\ abandoned \subseteq Conns

-----------------------------------------------------------------------------
(* RoomManager (room.rs) and the registries, read side. *)

Members(r) == consumers[r] \cup ({host[r], remote[r]} \ {None})

RoomExists(r) == Members(r) # {}

room_has_producers(P, r) == \E pr \in P : pr.room = r

\* should_teardown and should_deferred_cleanup are the same conjunction.
TeardownInverted(gone, alive) == gone /\ alive
should_teardown(gone, alive)  == gone /\ ~alive

-----------------------------------------------------------------------------
(* roles.rs: the authorization matrix, as far as the session core asks it. *)

can_control(id) == id \in Accounts => id \in Controllers

host_join_denied(id) == id \in Accounts

\* The denial of join_vehicle_room for a room with a registered owner.
join_vehicle_room(id, owner) ==
    \/ id \in Devices /\ owner # id
    \/ id \in Accounts /\ <<id, owner>> \notin Access

can_produce(id, r) == id \in Accounts => r \in AudioRooms

\* The G3 RoomJoin gate: the three early returns with code 4031.
JoinDenied(q) ==
    \/ q.role = "Host" /\ host_join_denied(q.id)
    \/ q.role = "Remote" /\ ~can_control(q.id)
    \/ room_owners[q.room] # None /\ join_vehicle_room(q.id, room_owners[q.room])

-----------------------------------------------------------------------------
(* The ticket table. *)

HeldFor(id, r) == {t \in resume_table : t.id = id /\ t.room = r}

\* A matched ticket is taken out of the table under the lock that matched it.
KeepOnUse(t) == resume_table
Burn(t)      == resume_table \ {t}

\* prune_resume: one ticket is inserted per call, so its loop evicts at most
\* one entry, the one with the lowest seq.
Oldest(T)       == CHOOSE t \in T : \A u \in T : t.seq <= u.seq
NoPrune(T)      == T
prune_resume(T) == IF Cardinality(T) > Cap THEN T \ {Oldest(T)} ELSE T

\* resumed_from.is_some()
Resumed(c) == resumed_from[c] # None

\* The job that starts disconnect_session(p, r) at once.
StartDisconnect(p, r) ==
    [stage |-> "reclaim", peer |-> p, room |-> r, seq |-> 0, gone |-> FALSE]

Init ==
    /\ phase = [c \in Conns |-> "idle"]
    /\ req \in [Conns -> Requests]
    /\ peer = [c \in Conns |-> c]
    /\ resumed_from = [c \in Conns |-> None]
    /\ job = [c \in Conns |-> [stage |-> "none", peer |-> c, room |-> req[c].room,
                               seq |-> 0, gone |-> FALSE]]
    /\ resume_table = {}
    /\ resume_seq = 0
    /\ host = [r \in Rooms |-> None]
    /\ remote = [r \in Rooms |-> None]
    /\ consumers = [r \in Rooms |-> {}]
    /\ device_bindings = [p \in Conns |-> None]
    /\ room_owners = [r \in Rooms |-> None]
    /\ status_registry = {}
    /\ producers = {}
    /\ displaced = {}
    /\ abandoned = {}

-----------------------------------------------------------------------------
(* handle_socket, after authentication: adjudicating the ticket.  The two  *)
(* critical sections (burn on hit, clear on takeover) are one step: a      *)
(* nonce that missed in the first can never appear in the second.          *)

\* The claimed nonce matches the ticket held for this (identity, room): it is
\* burned and the connection adopts the retained peer id.
ResumeHit(c, nonce) ==
    /\ phase[c] = "idle"
    /\ req[c].v3
    /\ \E t \in HeldFor(req[c].id, req[c].room) :
          /\ t.seq = nonce
          /\ resume_table' = Burn(t)
          /\ peer' = [peer EXCEPT ![c] = t.peer]
    /\ resumed_from' = [resumed_from EXCEPT ![c] = nonce]
    /\ phase' = [phase EXCEPT ![c] = "gate"]
    /\ UNCHANGED <<req, job, resume_seq, roomVars, regVars, histVars>>

\* No (valid) claim although a ticket is held: a full join takes over, clearing
\* the old peer before it goes on.
TakeOver(c) ==
    /\ phase[c] = "idle"
    /\ \E t \in HeldFor(req[c].id, req[c].room) :
          /\ resume_table' = Burn(t)
          /\ job' = [job EXCEPT ![c] = StartDisconnect(t.peer, req[c].room)]
          /\ displaced' = displaced \cup {t.peer}
    /\ phase' = [phase EXCEPT ![c] = "takeover"]
    /\ UNCHANGED <<req, peer, resumed_from, resume_seq, roomVars, regVars, abandoned>>

\* No ticket is held for this (identity, room); any claim misses.
FullJoin(c) ==
    /\ phase[c] = "idle"
    /\ HeldFor(req[c].id, req[c].room) = {}
    /\ phase' = [phase EXCEPT ![c] = "gate"]
    /\ UNCHANGED <<req, peer, resumed_from, job, tickVars, roomVars, regVars, histVars>>

(* The G3 gate.  A refused connection returns at once, without a cleanup:  *)
(* if it had burned a ticket, nobody is left to clean the retained peer.   *)
Gate(c) ==
    /\ phase[c] = "gate"
    /\ IF JoinDenied(req[c])
       THEN /\ phase' = [phase EXCEPT ![c] = "ended"]
            /\ abandoned' = IF Resumed(c) THEN abandoned \cup {peer[c]} ELSE abandoned
       ELSE /\ phase' = [phase EXCEPT ![c] = "join"]
            /\ UNCHANGED abandoned
    /\ UNCHANGED <<req, peer, resumed_from, job, tickVars, roomVars, regVars, displaced>>

\* A re-attaching session keeps the retained membership and skips join_room.
SkipJoin(c) ==
    /\ phase[c] = "join"
    /\ Resumed(c)
    /\ phase' = [phase EXCEPT ![c] = "ticket"]
    /\ UNCHANGED <<req, peer, resumed_from, job, tickVars, roomVars, regVars, histVars>>

\* join_room on an occupied host slot: RoomFull, code 4002, return.
RoomFull(c) ==
    /\ phase[c] = "join"
    /\ ~Resumed(c)
    /\ req[c].role = "Host"
    /\ host[req[c].room] # None
    /\ phase' = [phase EXCEPT ![c] = "ended"]
    /\ UNCHANGED <<req, peer, resumed_from, job, tickVars, roomVars, regVars, histVars>>

\* join_room: a Remote takes the remote slot only when it creates the room.
join_room(c) ==
    LET r == req[c].room
        p == peer[c]
    IN  /\ phase[c] = "join"
        /\ ~Resumed(c)
        /\ \/ /\ req[c].role = "Host"
              /\ host[r] = None
              /\ host' = [host EXCEPT ![r] = p]
              /\ UNCHANGED <<remote, consumers>>
           \/ /\ req[c].role = "Remote"
              /\ ~RoomExists(r)
              /\ remote' = [remote EXCEPT ![r] = p]
              /\ UNCHANGED <<host, consumers>>
           \/ /\ \/ req[c].role = "Consumer"
                 \/ req[c].role = "Remote" /\ RoomExists(r)
              /\ consumers' = [consumers EXCEPT ![r] = @ \cup {p}]
              /\ UNCHANGED <<host, remote>>
        /\ phase' = [phase EXCEPT ![c] =
                        IF req[c].id \in Devices THEN "bind" ELSE "ticket"]
        /\ UNCHANGED <<req, peer, resumed_from, job, tickVars, regVars, histVars>>

\* A device session binds its identity and registers the room's owner.
Bind(c) ==
    /\ phase[c] = "bind"
    /\ req[c].id \in Devices
    /\ device_bindings' = [device_bindings EXCEPT ![peer[c]] = req[c].id]
    /\ room_owners' = [room_owners EXCEPT ![req[c].room] = req[c].id]
    /\ phase' = [phase EXCEPT ![c] = "ticket"]
    /\ UNCHANGED <<req, peer, resumed_from, job, tickVars, roomVars, status_registry,
                   producers, histVars>>

\* The tickets left after a ticket is issued to c: one per (identity, room),
\* at most Cap in all.
TableAfterIssue(c) ==
    prune_resume((resume_table \ HeldFor(req[c].id, req[c].room))
                 \cup {[id |-> req[c].id, room |-> req[c].room,
                        peer |-> peer[c], seq |-> resume_seq]})

\* A vehicle's host session gets a one-shot ticket; the relay loop starts.
IssueTicket(c) ==
    /\ phase[c] = "ticket"
    /\ req[c].role = "Host"
    /\ req[c].id \in Devices
    /\ req[c].v3
    /\ resume_table' = TableAfterIssue(c)
    /\ resume_seq' = resume_seq + 1
    /\ abandoned' = abandoned \cup
          {t.peer : t \in {u \in resume_table \ TableAfterIssue(c) :
              \E x \in Conns : job[x].stage = "held" /\ job[x].seq = u.seq}}
    /\ phase' = [phase EXCEPT ![c] = "live"]
    /\ UNCHANGED <<req, peer, resumed_from, job, roomVars, regVars, displaced>>

NoTicket(c) ==
    /\ phase[c] = "ticket"
    /\ ~(req[c].role = "Host" /\ req[c].id \in Devices /\ req[c].v3)
    /\ phase' = [phase EXCEPT ![c] = "live"]
    /\ UNCHANGED <<req, peer, resumed_from, job, tickVars, roomVars, regVars, histVars>>

-----------------------------------------------------------------------------
(* The relay loop: the messages that touch the session tables. *)

\* producer_owners: the bound device, or the session when there is none.
OwnerKey(p) == IF device_bindings[p] # None THEN device_bindings[p] ELSE p

\* Produce: the target room is the message's, not the session's.
Produce(c, r) ==
    /\ phase[c] = "live"
    /\ can_produce(req[c].id, r)
    /\ producers' = producers \cup {[room |-> r, owner |-> OwnerKey(peer[c])]}
    /\ UNCHANGED <<connVars, tickVars, roomVars, device_bindings, room_owners,
                   status_registry, histVars>>

\* announce_producers_closed: rooms R had producers closed and P are left.
\* Where the room has dispersed and no producer is left, the registries go.
DeferredCleanup(R, P) ==
    LET dead == {r \in R : should_teardown(~RoomExists(r), room_has_producers(P, r))}
    IN  /\ room_owners' = [r \in Rooms |-> IF r \in dead THEN None ELSE room_owners[r]]
        /\ status_registry' = status_registry \ dead

\* DownstreamGone: only a session with a device binding may report; the
\* producer of the dead downstream in that room is closed and announced.
DownstreamGone(c, r) ==
    LET d    == device_bindings[peer[c]]
        left == producers \ {[room |-> r, owner |-> d]}
    IN  /\ phase[c] = "live"
        /\ d # None
        /\ [room |-> r, owner |-> d] \in producers
        /\ producers' = left
        /\ DeferredCleanup({r}, left)
        /\ UNCHANGED <<connVars, tickVars, roomVars, device_bindings, histVars>>

\* StatusReport: Device identity or Host role.
StatusReport(c) ==
    /\ phase[c] = "live"
    /\ req[c].id \in Devices \/ req[c].role = "Host"
    /\ status_registry' = status_registry \cup {req[c].room}
    /\ UNCHANGED <<connVars, tickVars, roomVars, device_bindings, room_owners,
                   producers, histVars>>

-----------------------------------------------------------------------------
(* The end of a session and disconnect_session. *)

\* The ticket that makes the end of c's relay loop enter the retention window.
AnyRetained(c)    == HeldFor(req[c].id, req[c].room)
RetainedTicket(c) == {t \in HeldFor(req[c].id, req[c].room) : t.peer = peer[c]}

\* The relay loop breaks (Close, read error, RoomLeave, shutdown, or the
\* heartbeat's verdict).  With an unconsumed ticket of this peer the cleanup
\* is left to a delayed task, else disconnect_session runs at once.
End(c) ==
    /\ phase[c] = "live"
    /\ phase' = [phase EXCEPT ![c] = "ended"]
    /\ \/ /\ RetainedTicket(c) = {}
          /\ job' = [job EXCEPT ![c] = StartDisconnect(peer[c], req[c].room)]
       \/ \E t \in RetainedTicket(c) :
             job' = [job EXCEPT ![c] = [StartDisconnect(peer[c], req[c].room)
                                          EXCEPT !.stage = "held", !.seq = t.seq]]
    /\ UNCHANGED <<req, peer, resumed_from, tickVars, roomVars, regVars, histVars>>

\* The ticket the delayed task noted, if it is still in the table.
NotedOffByOne(c) == {t \in HeldFor(req[c].id, req[c].room) : t.seq = job[c].seq + 1}
NotedTicket(c)   == {t \in HeldFor(req[c].id, req[c].room) : t.seq = job[c].seq}

\* The delayed task wakes: it removes that ticket and cleans up, or idles.
HoldExpire(c) ==
    /\ job[c].stage = "held"
    /\ resume_table' = resume_table \ NotedTicket(c)
    /\ job' = [job EXCEPT ![c] = [@ EXCEPT !.stage =
                  IF NotedTicket(c) # {} THEN "reclaim" ELSE "none"]]
    /\ UNCHANGED <<phase, req, peer, resumed_from, resume_seq, roomVars, regVars,
                   histVars>>

\* The producers of a session and all the producers of the device it is bound
\* to, whatever session made them.
OwnedByDevice(p) == {pr \in producers : pr.owner = device_bindings[p]}
OwnedBy(p)       == {pr \in producers : pr.owner \in {p, device_bindings[p]}}

\* disconnect_session, SFU part: those producers are closed and announced.
Reclaim(c) ==
    LET closed == OwnedBy(job[c].peer)
    IN  /\ job[c].stage = "reclaim"
        /\ job' = [job EXCEPT ![c] = [@ EXCEPT !.stage = "leave"]]
        /\ producers' = producers \ closed
        /\ DeferredCleanup({pr.room : pr \in closed}, producers \ closed)
        /\ UNCHANGED <<phase, req, peer, resumed_from, tickVars, roomVars,
                       device_bindings, histVars>>

\* leave_room, with disconnect_consumers when it was the host that left.
LeaveKeepsRemote(p, r) ==
    /\ host' = [host EXCEPT ![r] = IF @ = p THEN None ELSE @]
    /\ consumers' = [consumers EXCEPT ![r] = IF host[r] = p THEN {} ELSE @ \ {p}]
    /\ UNCHANGED remote
LeaveAnyHost(p, r) ==
    /\ host' = [host EXCEPT ![r] = None]
    /\ remote' = [remote EXCEPT ![r] = IF @ = p THEN None ELSE @]
    /\ consumers' = [consumers EXCEPT ![r] = IF host[r] = p THEN {} ELSE @ \ {p}]
leave_room(p, r) ==
    /\ host' = [host EXCEPT ![r] = IF @ = p THEN None ELSE @]
    /\ remote' = [remote EXCEPT ![r] = IF @ = p THEN None ELSE @]
    /\ consumers' = [consumers EXCEPT ![r] = IF host[r] = p THEN {} ELSE @ \ {p}]

\* The peer leaves its room and loses its binding.  room_removed is what
\* leave_room saw, before the consumers of a leaving host were dropped.
Leave(c) ==
    LET p == job[c].peer
        r == job[c].room
    IN  /\ job[c].stage = "leave"
        /\ leave_room(p, r)
        /\ device_bindings' = [device_bindings EXCEPT ![p] = None]
        /\ job' = [job EXCEPT ![c] = [@ EXCEPT !.stage = "teardown",
                                               !.gone = Members(r) \ {p} = {}]]
        /\ UNCHANGED <<phase, req, peer, resumed_from, tickVars, room_owners,
                       status_registry, producers, histVars>>

\* The tail: the registries of a dispersed room without producers are
\* dropped.  A takeover goes on to the gate.
Teardown(c) ==
    LET r    == job[c].room
        dead == should_teardown(job[c].gone, room_has_producers(producers, r))
    IN  /\ job[c].stage = "teardown"
        /\ room_owners' = [room_owners EXCEPT ![r] = IF dead THEN None ELSE @]
        /\ status_registry' = IF dead THEN status_registry \ {r} ELSE status_registry
        /\ job' = [job EXCEPT ![c] = [@ EXCEPT !.stage = "none"]]
        /\ phase' = [phase EXCEPT ![c] = IF @ = "takeover" THEN "gate" ELSE @]
        /\ UNCHANGED <<req, peer, resumed_from, tickVars, roomVars, device_bindings,
                       producers, histVars>>

-----------------------------------------------------------------------------
(* admin.rs: the two REST operations that edit rooms behind the sessions.  *)

\* DELETE of a peer: leave_room in the rooms that list it, nothing else.
kick_peer(p) ==
    /\ \E r \in Rooms : p \in Members(r)
    /\ host' = [r \in Rooms |-> IF host[r] = p THEN None ELSE host[r]]
    /\ remote' = [r \in Rooms |-> IF remote[r] = p THEN None ELSE remote[r]]
    /\ consumers' = [r \in Rooms |-> consumers[r] \ {p}]
    /\ displaced' = displaced \cup {p}
    /\ UNCHANGED <<connVars, tickVars, regVars, abandoned>>

\* DELETE of a room: its entry is dropped, its sessions are not told.
remove_room(r) ==
    /\ RoomExists(r)
    /\ host' = [host EXCEPT ![r] = None]
    /\ remote' = [remote EXCEPT ![r] = None]
    /\ consumers' = [consumers EXCEPT ![r] = {}]
    /\ displaced' = displaced \cup Members(r)
    /\ UNCHANGED <<connVars, tickVars, regVars, abandoned>>

-----------------------------------------------------------------------------

\* What the server's own tasks do once a RoomJoin or an end has reached them.
TaskStep(c) ==
    \/ Gate(c) \/ SkipJoin(c) \/ RoomFull(c) \/ join_room(c) \/ Bind(c)
    \/ IssueTicket(c) \/ NoTicket(c)
    \/ HoldExpire(c) \/ Reclaim(c) \/ Leave(c) \/ Teardown(c)

\* What clients do.
ClientStep(c) ==
    \/ \E nonce \in 0..resume_seq : ResumeHit(c, nonce)
    \/ TakeOver(c) \/ FullJoin(c) \/ End(c) \/ StatusReport(c)
    \/ \E r \in Rooms : Produce(c, r) \/ DownstreamGone(c, r)

AdminStep == \/ \E p \in Conns : kick_peer(p)
             \/ \E r \in Rooms : remove_room(r)

Next == \/ \E c \in Conns : TaskStep(c) \/ ClientStep(c)
        \/ AdminStep

Spec == Init /\ [][Next]_vars

\* tokio runs every task that is ready, and a sleep ends.
FairSpec == Spec /\ \A c \in Conns : WF_vars(TaskStep(c))

-----------------------------------------------------------------------------
(* Who answers for a peer id: a task that serves it ...                    *)
Carries(c, p) ==
    /\ peer[c] = p
    /\ \/ phase[c] \in {"bind", "ticket", "live"}
       \/ Resumed(c) /\ phase[c] \in {"gate", "join"}

\* ... or a disconnect_session that is still to run in full ...
WillReclaim(c, p) ==
    /\ job[c].peer = p
    /\ \/ job[c].stage = "reclaim"
       \/ job[c].stage = "held" /\ \E t \in resume_table : t.seq = job[c].seq

Keeps(c, p) == Carries(c, p) \/ WillReclaim(c, p)

\* ... or one that has yet to leave the room.
Leaving(c, p) == job[c].stage = "leave" /\ job[c].peer = p

Answers(c, p) == Keeps(c, p) \/ Leaving(c, p)

\* No slot and no binding outlives its session: whoever sits in a room, and
\* whoever is bound to a device, is served by a task or will be cleared by a
\* cleanup that is certain to run, through every interleaving of retention,
\* re-attach, takeover, rotation and admin kicks.  The one exception the code
\* has is a retained peer whose ticket was evicted, overwritten or burned by a
\* re-attach the gate then refused.
MemberAccounted ==
    /\ \A r \in Rooms, p \in Conns :
          p \in Members(r) =>
             p \in abandoned \/ \E c \in Conns : req[c].room = r /\ Answers(c, p)
    /\ \A p \in Conns :
          device_bindings[p] # None => p \in abandoned \/ \E c \in Conns : Answers(c, p)

\* "Double insurance, no leak" (announce_producers_closed, PIT-183): a room's
\* owner and status survive only while the room has members or producers, or
\* while a session or a cleanup of that room is still to come that will run the
\* teardown check again.
RegistryAccounted ==
    \A r \in Rooms :
        (room_owners[r] # None \/ r \in status_registry) =>
            \/ RoomExists(r)
            \/ room_has_producers(producers, r)
            \/ \E c \in Conns :
                  /\ req[c].room = r
                  /\ \/ \E p \in Conns : Answers(c, p)
                     \/ job[c].stage = "teardown" /\ job[c].gone
            \/ \E p \in abandoned : req[p].room = r

\* S4': a producer registered under a session key (a cockpit's, or that of a
\* vehicle session that lost its binding) is reclaimed when the session goes.
SessionProducersAccounted ==
    \A pr \in producers :
        pr.owner \in Conns =>
            pr.owner \in abandoned \/ \E c \in Conns : Keeps(c, pr.owner)

\* A re-attach nonce is good for one re-attach, also while tickets are rotated,
\* evicted and taken over (burn on use, resume_e2e test 2).
NonceOneShot ==
    \A c, x \in Conns : c # x /\ Resumed(c) => resumed_from[c] # resumed_from[x]

\* The table holds at most RESUME_GLOBAL_CAP tickets, one per (identity, room),
\* at every step.
TicketsBounded ==
    /\ Cardinality(resume_table) <= Cap
    /\ \A t, u \in resume_table : t.id = u.id /\ t.room = u.room => t = u

\* A host session whose peer id nobody re-attached to keeps its slot until it
\* ends, a newer session of the same vehicle takes over, or an admin removes it:
\* no stale cleanup of an earlier session ever reaches it.
SoleHostKeepsSlot ==
    \A c \in Conns :
        /\ phase[c] = "live"
        /\ req[c].role = "Host"
        /\ peer[c] \notin displaced
        /\ \A x \in Conns \ {c} : peer[x] # peer[c]
        => host[req[c].room] = peer[c]

\* Whoever is retained or left over is eventually cleared, taken up again, or
\* lost to an eviction: a vehicle's slot does not stay blocked by a dead session.
DeadMemberCleared ==
    \A p \in Conns, r \in Rooms :
        (p \in Members(r) /\ \A c \in Conns : ~Carries(c, p)) ~>
            (p \notin Members(r) \/ p \in abandoned \/ \E c \in Conns : Carries(c, p))

-----------------------------------------------------------------------------
(* The inductive strengthening of the invariants above. *)

\* The program counter and the cleanup job of one task agree, and everything
\* a task touches belongs to the room its connection joined.
TaskControl(c) ==
    /\ phase[c] = "idle" => resumed_from[c] = None /\ peer[c] = c
    /\ phase[c] = "takeover" => resumed_from[c] = None
    /\ job[c].stage # "none" => phase[c] \in {"takeover", "ended"}
    /\ phase[c] = "takeover" => job[c].stage \notin {"none", "held"}
    /\ job[c].room = req[c].room
    /\ req[job[c].peer].room = req[c].room
    /\ req[peer[c]].room = req[c].room

ControlInv == \A c \in Conns : TaskControl(c)

\* Issue numbers identify tickets; a noted number is the noting task's ticket
\* or no ticket any more; a burned number never comes back.
TicketInv ==
    /\ \A t \in resume_table :
          /\ t.seq < resume_seq
          /\ req[t.peer].room = t.room
          /\ \A u \in resume_table : t.seq = u.seq => t = u
          /\ \A c \in Conns : t.seq # resumed_from[c]
    /\ \A c \in Conns :
          /\ Resumed(c) => resumed_from[c] < resume_seq
          /\ job[c].stage = "held" =>
                /\ job[c].seq < resume_seq
                /\ \A t \in resume_table : t.seq = job[c].seq =>
                      t.id = req[c].id /\ t.room = req[c].room /\ t.peer = job[c].peer

\* A peer sits only in the room its first connection joined.
MembersHome ==
    \A r \in Rooms : \A p \in Members(r) : req[p].room = r

IInv ==
    /\ TypeOK
    /\ ControlInv
    /\ TicketInv
    /\ MembersHome
    /\ MemberAccounted
    /\ SessionProducersAccounted
    /\ RegistryAccounted

-----------------------------------------------------------------------------
(* What comments and tests say, which the code does not keep. *)

\* "a hit re-attach = the entry is burn-on-use, the delayed task idles": a
\* delayed cleanup that can still fire never concerns a session that is served.
DelayedTaskIdles ==
    \A c, x \in Conns :
        /\ job[c].stage = "held"
        /\ \E t \in resume_table : t.seq = job[c].seq
        => ~(phase[x] = "live" /\ peer[x] = job[c].peer)

\* "a resume takeover = membership still within the retention window, not yet
\* deleted, so skip join": a vehicle host that skipped join_room holds its slot.
ReattachHasMembership ==
    \A c \in Conns :
        /\ phase[c] = "ticket"
        /\ Resumed(c)
        /\ req[c].role = "Host"
        /\ peer[c] \notin displaced
        => host[req[c].room] = peer[c]

\* Clearing the old peer on takeover is "the self-healing path of one-shot
\* ticket loss": no member is left behind whose ticket is lost.
NoMemberLeftBehind ==
    \A r \in Rooms : \A p \in Members(r) :
        p \in abandoned => \E c \in Conns : Answers(c, p)

=============================================================================
