----------------------------- MODULE SfuManager -----------------------------
(***************************************************************************)
(* The server's SFU registry: SfuManager of                                *)
(* src/crates/mediaservo-server/src/sfu.rs and the handlers of             *)
(* signaling.rs that call it.  The registry is one sharded DashMap from    *)
(* room to (router, peers); a peer holds its transports, producers and     *)
(* consumers, and dropping a handle closes the entity in the mediasoup     *)
(* worker.                                                                 *)
(*                                                                         *)
(* The server's tasks call the manager concurrently.  Every access to the  *)
(* map takes the room's shard lock; where the code keeps the guard across  *)
(* an await (produce, consume, connect, the statistics list) the guard is  *)
(* part of the state.  The lock is a thread lock: a task that finds it     *)
(* taken blocks its tokio worker thread, of which there are Workers.       *)
(*                                                                         *)
(* One model task serves requests one after the other; peer ids are the    *)
(* self-reported ones, shared by whoever reports them.  Labels, RTP and    *)
(* SCTP parameters, statistics and the broadcasts are left out.            *)
(***************************************************************************)
EXTENDS Naturals, FiniteSets

CONSTANTS
    Tasks,      \* the server's tasks that call the manager
    Rooms, Peers,
    Owners,     \* keys of producer_owners: devices and session fallbacks
    Devices,    \* the keys that are device ids
    Workers,    \* tokio worker threads
    MaxReq,     \* bound: requests in a behaviour
    Ops,        \* the requests the tasks make
    NoTask

ASSUME ThreadsAssumption == Workers \in Nat \ {0} /\ MaxReq \in Nat
ASSUME TaskAssumption == NoTask \notin Tasks
ASSUME NamesAssumption == Rooms # {} /\ Peers # {} /\ Owners # {} /\ Devices \subseteq Owners
ASSUME OpsAssumption == Ops \subseteq {"caps", "send", "recv", "produce", "consume", "connect",
                                       "gone", "leave", "stats"}

VARIABLES
    router,     \* room -> router id, 0 when the room is not in the map
    peers,      \* room -> peers with an SfuPeer entry
    transports, \* stored send and recv transports
    producers,  \* stored media and data producers
    consumers,  \* stored media and data consumers
    owners,     \* set of <<producer id, owner key>>: producer_owners
    job, pc,    \* each task's request and the point it has reached
    holder,     \* room -> task holding the write guard across an await
    readers,    \* room -> tasks holding a read guard across an await
    blocked,    \* tasks whose worker thread waits for a shard lock
    nextId, served

registry == <<router, peers, transports, producers, consumers>>
locks == <<holder, readers>>
vars == <<registry, owners, job, pc, locks, blocked, nextId, served>>

Kinds == {"media", "data"}
AllOps == {"caps", "send", "recv", "produce", "consume", "connect", "gone", "leave", "stats"}

Ids == Nat \ {0}

\* A stored entity: a transport runs on a router, the others on a transport.
Transport == [id : Ids, room : Rooms, peer : Peers, dir : {"send", "recv"}, router : Ids]
Producer == [id : Ids, room : Rooms, peer : Peers, kind : Kinds, on : Transport]
Consumer == [id : Ids, room : Rooms, peer : Peers, kind : Kinds, on : Transport, of : Producer]

IdsOf(S) == {x.id : x \in S}
NotIn(S, r) == {x \in S : x.room # r}
NotOf(S, r, p) == {x \in S : ~ (x.room = r /\ x.peer = p)}

-----------------------------------------------------------------------------
(* The shard lock and the worker threads.                                  *)

Iterating == {"global", "emptied", "pass1", "pass2", "stats"}
Writing == {"creating", "store", "find", "attach", "gone", "global", "emptied",
            "pass1", "pass2", "teardown"}
Reading == {"router", "lookup", "check", "stats"}

\* The shard a task's next step accesses; iterations visit the shards in a fixed order.
Shard(t) == IF pc[t] \in Iterating THEN CHOOSE r \in job[t].todo : TRUE ELSE job[t].room

Available(t) ==
    /\ pc[t] \in Writing \cup Reading => holder[Shard(t)] = NoTask
    /\ pc[t] \in Writing => readers[Shard(t)] = {}

\* A task runs on a worker thread: its own when it is blocked, else a free one.
Runs(t) == t \in blocked \/ Cardinality(blocked) < Workers

\* A task reaches `at` and can go on; its thread is its own again.
Step(t, at) ==
    /\ pc[t] = at
    /\ Runs(t)
    /\ Available(t)
    /\ blocked' = blocked \ {t}

\* A task finds the shard locked: the thread waits.
Block(t) ==
    /\ t \notin blocked
    /\ Runs(t)
    /\ ~ Available(t)
    /\ blocked' = blocked \cup {t}
    /\ UNCHANGED <<registry, owners, job, pc, locks, nextId, served>>

-----------------------------------------------------------------------------
(* A request arrives at an idle task.                                      *)

FirstStep(op) ==
    CASE op \in {"caps", "send", "recv"} -> "router"
      [] op \in {"produce", "connect"} -> "find"
      [] op = "consume" -> "lookup"
      [] op = "gone" -> "gone"
      [] op = "leave" -> "global"
      [] op = "stats" -> "stats"

\* op, room, peer, kind and key are the request; the rest is what the handler remembers.
Request(op, r, p, k, o) ==
    [op |-> op, room |-> r, peer |-> p, kind |-> k, key |-> o, router |-> 0,
     on |-> {}, of |-> {}, ids |-> {}, emptied |-> {}, todo |-> Rooms]

NoJob == Request("caps", CHOOSE r \in Rooms : TRUE, CHOOSE p \in Peers : TRUE, "media",
                 CHOOSE o \in Owners : TRUE)

\* The handler goes on to `at` with what it remembers, or has answered.
Resume(t, at, j) ==
    /\ pc' = [pc EXCEPT ![t] = at]
    /\ job' = [job EXCEPT ![t] = IF at = "idle" THEN NoJob ELSE j]

Goto(t, at) == Resume(t, at, job[t])
Done(t) == Resume(t, "idle", NoJob)

Begin(t) ==
    /\ pc[t] = "idle" /\ t \notin blocked /\ Runs(t)
    /\ served < MaxReq
    /\ served' = served + 1
    /\ \E op \in Ops, r \in Rooms, p \in Peers, k \in Kinds, o \in Owners :
          /\ op = "gone" => o \in Devices
          /\ op \notin {"produce", "consume"} => k = NoJob.kind
          /\ op \notin {"produce", "gone", "leave"} => o = NoJob.key
          /\ op \in {"caps", "stats"} => p = NoJob.peer
          /\ Resume(t, FirstStep(op), Request(op, r, p, k, o))
    /\ UNCHANGED <<registry, owners, locks, blocked, nextId>>

-----------------------------------------------------------------------------
(* ensure_router and create_webrtc_transport.                              *)

\* A capabilities request is answered as soon as the room has a router.
AfterRouter(t) == IF job[t].op = "caps" THEN "idle" ELSE "opening"

\* The room's router is looked up without keeping the guard.
FindRouter(t) ==
    /\ Step(t, "router")
    /\ IF router[job[t].room] # 0
       THEN Resume(t, AfterRouter(t), [job[t] EXCEPT !.router = router[job[t].room]])
       ELSE Goto(t, "creating")
    /\ UNCHANGED <<registry, owners, locks, nextId, served>>

\* The worker has created a router: insert replaces whatever entry the room has by now.
ensure_router(t) ==
    /\ Step(t, "creating")
    /\ LET r == job[t].room IN
       /\ router' = [router EXCEPT ![r] = nextId]
       /\ peers' = [peers EXCEPT ![r] = {}]
       /\ transports' = NotIn(transports, r)
       /\ producers' = NotIn(producers, r)
       /\ consumers' = NotIn(consumers, r)
    /\ nextId' = nextId + 1
    /\ Resume(t, AfterRouter(t), [job[t] EXCEPT !.router = nextId])
    /\ UNCHANGED <<owners, locks, served>>

\* The worker has created the transport on the router the task holds.
OpenTransport(t) ==
    /\ Step(t, "opening")
    /\ Goto(t, "store")
    /\ UNCHANGED <<registry, owners, locks, nextId, served>>

\* The worker refuses, or the 5 s timeout drops the request at one of its awaits.
CreateFails(t) ==
    /\ pc[t] \in {"creating", "opening"} /\ t \notin blocked /\ Runs(t)
    /\ Done(t)
    /\ UNCHANGED <<registry, owners, locks, blocked, nextId, served>>

\* The transport is stored under the peer; without a room it is dropped, and yet answered.
create_webrtc_transport(t) ==
    /\ Step(t, "store")
    /\ LET j == job[t] IN
       IF router[j.room] # 0
       THEN /\ peers' = [peers EXCEPT ![j.room] = @ \cup {j.peer}]
            /\ transports' = transports \cup
                  {[id |-> nextId, room |-> j.room, peer |-> j.peer, dir |-> j.op, router |-> j.router]}
            /\ nextId' = nextId + 1
       ELSE UNCHANGED <<peers, transports, nextId>>
    /\ Done(t)
    /\ UNCHANGED <<router, producers, consumers, owners, locks, served>>

-----------------------------------------------------------------------------
(* create_producer, create_data_producer, connect_transport: the write     *)
(* guard of the room is kept across the worker's answer.                   *)

Usable(t, dirs) == {x \in transports : x.room = job[t].room /\ x.peer = job[t].peer /\ x.dir \in dirs}

\* Mutant: the guard is dropped before the worker is awaited.
UseTransportUnguarded(t, at, dirs, next) ==
    /\ Step(t, at)
    /\ IF Usable(t, dirs) = {}
       THEN Done(t)
       ELSE \E x \in Usable(t, dirs) : Resume(t, next, [job[t] EXCEPT !.on = {x}])
    /\ UNCHANGED <<registry, owners, locks, nextId, served>>

\* The transport named in the request, or the last one, is found and the guard kept.
UseTransport(t, at, dirs, next) ==
    /\ Step(t, at)
    /\ IF Usable(t, dirs) = {}
       THEN Done(t) /\ UNCHANGED locks
       ELSE /\ \E x \in Usable(t, dirs) : Resume(t, next, [job[t] EXCEPT !.on = {x}])
            /\ holder' = [holder EXCEPT ![job[t].room] = t]
            /\ UNCHANGED readers
    /\ UNCHANGED <<registry, owners, nextId, served>>

FindTransport(t) ==
    \/ job[t].op = "produce" /\ UseTransport(t, "find", {"send"}, "producing")
    \/ job[t].op = "connect" /\ UseTransport(t, "find", {"send", "recv"}, "connecting")

Unlock(t) ==
    /\ holder' = [holder EXCEPT ![job[t].room] = NoTask]
    /\ UNCHANGED readers

create_producer(t) ==
    /\ Step(t, "producing")
    /\ \E x \in job[t].on :
          producers' = producers \cup
             {[id |-> nextId, room |-> job[t].room, peer |-> job[t].peer, kind |-> job[t].kind, on |-> x]}
    /\ nextId' = nextId + 1
    /\ Unlock(t)
    /\ Resume(t, "own", [job[t] EXCEPT !.ids = {nextId}])
    /\ UNCHANGED <<router, peers, transports, consumers, owners, served>>

\* producer_owners is written after the guard is released.
RegisterOwner(t) ==
    /\ Step(t, "own")
    /\ owners' = owners \cup {<<i, job[t].key>> : i \in job[t].ids}
    /\ Done(t)
    /\ UNCHANGED <<registry, locks, nextId, served>>

\* Mutant: the map is read again while the room's write guard is still held.
connect_transport_reentrant(t) ==
    /\ holder[job[t].room] = NoTask
    /\ Step(t, "connecting")
    /\ Unlock(t)
    /\ Done(t)
    /\ UNCHANGED <<registry, owners, nextId, served>>

\* The transport is connected, or the worker refuses; the guard is dropped either way.
connect_transport(t) ==
    /\ Step(t, "connecting")
    /\ Unlock(t)
    /\ Done(t)
    /\ UNCHANGED <<registry, owners, nextId, served>>

\* The worker refuses: the guard is dropped with the error.
WorkerRefuses(t) ==
    /\ \E at \in {"producing", "consuming"} : Step(t, at)
    /\ Unlock(t)
    /\ Done(t)
    /\ UNCHANGED <<registry, owners, nextId, served>>

-----------------------------------------------------------------------------
(* create_consumer, create_data_consumer.                                  *)

\* The producer is looked up under a read guard that is released.
FindProducer(t) ==
    /\ Step(t, "lookup")
    /\ LET found == {x \in producers : x.room = job[t].room /\ x.kind = job[t].kind} IN
       IF found = {}
       THEN Done(t)
       ELSE \E x \in found : Resume(t, "attach", [job[t] EXCEPT !.of = {x}])
    /\ UNCHANGED <<registry, owners, locks, nextId, served>>

FindRecvTransport(t) == UseTransport(t, "attach", {"recv"}, "consuming")

\* The worker knows the producer only while it lives, and only on the same router.
create_consumer(t) ==
    /\ Step(t, "consuming")
    /\ \E x \in job[t].on, y \in job[t].of :
          /\ y \in producers /\ y.on.router = x.router
          /\ consumers' = consumers \cup
                {[id |-> nextId, room |-> job[t].room, peer |-> job[t].peer, kind |-> job[t].kind,
                  on |-> x, of |-> y]}
    /\ nextId' = nextId + 1
    /\ Unlock(t)
    /\ Done(t)
    /\ UNCHANGED <<router, peers, transports, producers, owners, served>>

-----------------------------------------------------------------------------
(* Removal of a peer: DownstreamGone (one room) and the disconnect of a    *)
(* session (all rooms, one shard after the other).                         *)

ClosedMedia(r, p) == IdsOf({x \in producers : x.room = r /\ x.peer = p /\ x.kind = "media"})

DropPeer(r, p) ==
    /\ peers' = [peers EXCEPT ![r] = @ \ {p}]
    /\ transports' = NotOf(transports, r, p)
    /\ producers' = NotOf(producers, r, p)
    /\ consumers' = NotOf(consumers, r, p)

\* The rooms a removal leaves empty are removed after their guards were released.
AfterRemoval(empty) == IF empty = {} THEN "announce" ELSE "emptied"

remove_peer_in_room(t) ==
    /\ Step(t, "gone")
    /\ LET j == job[t]
           empty == IF peers[j.room] = {j.peer} THEN {j.room} ELSE {} IN
       /\ DropPeer(j.room, j.peer)
       /\ Resume(t, AfterRemoval(empty), [j EXCEPT !.ids = ClosedMedia(j.room, j.peer), !.todo = empty])
    /\ UNCHANGED <<router, owners, locks, nextId, served>>

remove_peer_global(t) ==
    /\ Step(t, "global")
    /\ LET j == job[t]  r == Shard(t)
           empty == IF peers[r] = {j.peer} THEN j.emptied \cup {r} ELSE j.emptied
           rest == j.todo \ {r} IN
       /\ DropPeer(r, j.peer)
       /\ Resume(t, IF rest = {} THEN AfterRemoval(empty) ELSE "global",
                 [j EXCEPT !.ids = @ \cup ClosedMedia(r, j.peer),
                           !.emptied = empty,
                           !.todo = IF rest = {} THEN empty ELSE rest])
    /\ UNCHANGED <<router, owners, locks, nextId, served>>

\* remove_room drops the entry, whatever it holds by now.
remove_room(r) ==
    /\ router' = [router EXCEPT ![r] = 0]
    /\ peers' = [peers EXCEPT ![r] = {}]
    /\ transports' = NotIn(transports, r)
    /\ producers' = NotIn(producers, r)
    /\ consumers' = NotIn(consumers, r)

RemoveEmptied(t) ==
    /\ Step(t, "emptied")
    /\ remove_room(Shard(t))
    /\ LET rest == job[t].todo \ {Shard(t)} IN
       Resume(t, AfterRemoval(rest), [job[t] EXCEPT !.todo = rest])
    /\ UNCHANGED <<owners, locks, nextId, served>>

\* The announced media producers leave producer_owners when a device reported them.
announce_producers_closed(t) ==
    /\ Step(t, "announce")
    /\ owners' = IF job[t].key \in Devices THEN {e \in owners : e[1] \notin job[t].ids} ELSE owners
    /\ Goto(t, IF job[t].op = "leave" THEN "snapshot" ELSE "idle")
    /\ UNCHANGED <<registry, locks, nextId, served>>

-----------------------------------------------------------------------------
(* The rest of disconnect_session: the session's or the device's producers *)
(* are reclaimed by id in two passes, then the room is torn down.          *)

OwnedBy(o) == {e[1] : e \in {x \in owners : x[2] = o}}

Snapshot(t) ==
    /\ Step(t, "snapshot")
    /\ LET mine == OwnedBy(job[t].key) IN
       Resume(t, IF mine = {} THEN "check" ELSE "pass1", [job[t] EXCEPT !.ids = mine, !.todo = Rooms])
    /\ UNCHANGED <<registry, owners, locks, nextId, served>>

\* First pass: the producers with these ids are dropped, room after room.
remove_producers_by_ids(t) ==
    /\ Step(t, "pass1")
    /\ LET r == Shard(t)  rest == job[t].todo \ {r} IN
       /\ producers' = {x \in producers : ~ (x.room = r /\ x.id \in job[t].ids)}
       /\ Resume(t, IF rest = {} THEN "pass2" ELSE "pass1",
                 [job[t] EXCEPT !.todo = IF rest = {} THEN Rooms ELSE rest])
    /\ UNCHANGED <<router, peers, transports, consumers, owners, locks, nextId, served>>

\* Second pass: the data consumers bound to the dead data producers are dropped.
ReapDataConsumers(t) ==
    /\ Step(t, "pass2")
    /\ LET r == Shard(t)  rest == job[t].todo \ {r} IN
       /\ consumers' = {x \in consumers :
                          ~ (x.room = r /\ x.kind = "data" /\ x.of.id \in job[t].ids)}
       /\ Resume(t, IF rest = {} THEN "disown" ELSE "pass2", [job[t] EXCEPT !.todo = rest])
    /\ UNCHANGED <<router, peers, transports, producers, owners, locks, nextId, served>>

\* Mutant: the owner's entries of now are removed, not those of the snapshot.
DisownByKey(t) ==
    /\ Step(t, "disown")
    /\ owners' = {e \in owners : e[2] # job[t].key}
    /\ Goto(t, "check")
    /\ UNCHANGED <<registry, locks, nextId, served>>

Disown(t) ==
    /\ Step(t, "disown")
    /\ owners' = {e \in owners : e[1] \notin job[t].ids}
    /\ Goto(t, "check")
    /\ UNCHANGED <<registry, locks, nextId, served>>

room_has_producers(r) == \E x \in producers : x.room = r /\ x.kind = "media"

\* should_teardown: the room's WS membership is empty (or is not) and it has no producers.
CheckTeardown(t) ==
    /\ Step(t, "check")
    /\ \E room_removed \in BOOLEAN :
          Goto(t, IF room_removed /\ ~ room_has_producers(job[t].room) THEN "teardown" ELSE "idle")
    /\ UNCHANGED <<registry, owners, locks, nextId, served>>

Teardown(t) ==
    /\ Step(t, "teardown")
    /\ remove_room(job[t].room)
    /\ Done(t)
    /\ UNCHANGED <<owners, locks, nextId, served>>

-----------------------------------------------------------------------------
(* list_stream_stats keeps each shard's read guard while it asks the       *)
(* worker for the statistics.                                              *)

EnterStats(t) ==
    /\ Step(t, "stats")
    /\ readers' = [readers EXCEPT ![Shard(t)] = @ \cup {t}]
    /\ Resume(t, "reading", [job[t] EXCEPT !.room = Shard(t), !.todo = @ \ {Shard(t)}])
    /\ UNCHANGED <<registry, owners, holder, nextId, served>>

list_stream_stats(t) ==
    /\ Step(t, "reading")
    /\ readers' = [readers EXCEPT ![job[t].room] = @ \ {t}]
    /\ Goto(t, IF job[t].todo = {} THEN "idle" ELSE "stats")
    /\ UNCHANGED <<registry, owners, holder, nextId, served>>

-----------------------------------------------------------------------------
Serve(t) ==
    \/ FindRouter(t) \/ ensure_router(t) \/ OpenTransport(t) \/ CreateFails(t)
    \/ create_webrtc_transport(t)
    \/ FindTransport(t) \/ create_producer(t) \/ RegisterOwner(t) \/ connect_transport(t)
    \/ WorkerRefuses(t)
    \/ FindProducer(t) \/ FindRecvTransport(t) \/ create_consumer(t)
    \/ remove_peer_in_room(t) \/ remove_peer_global(t) \/ RemoveEmptied(t)
    \/ announce_producers_closed(t)
    \/ Snapshot(t) \/ remove_producers_by_ids(t) \/ ReapDataConsumers(t) \/ Disown(t)
    \/ CheckTeardown(t) \/ Teardown(t)
    \/ EnterStats(t) \/ list_stream_stats(t)

Init ==
    /\ router = [r \in Rooms |-> 0]
    /\ peers = [r \in Rooms |-> {}]
    /\ transports = {} /\ producers = {} /\ consumers = {} /\ owners = {}
    /\ job = [t \in Tasks |-> NoJob]
    /\ pc = [t \in Tasks |-> "idle"]
    /\ holder = [r \in Rooms |-> NoTask]
    /\ readers = [r \in Rooms |-> {}]
    /\ blocked = {}
    /\ nextId = 1
    /\ served = 0

Next == \E t \in Tasks : Begin(t) \/ Block(t) \/ Serve(t)

Spec == Init /\ [][Next]_vars

\* Tokio polls a woken task when a worker thread is free, the worker answers
\* every request, and a released shard lock is handed to a waiting thread.
Fairness == \A t \in Tasks : WF_vars(Serve(t))
FairSpec == Spec /\ Fairness
-----------------------------------------------------------------------------
Points == {"idle", "router", "creating", "opening", "store", "find", "producing", "connecting",
           "own", "lookup", "attach", "consuming", "gone", "global", "emptied", "announce",
           "snapshot", "pass1", "pass2", "disown", "check", "teardown", "stats", "reading"}

Job == [op : AllOps, room : Rooms, peer : Peers, kind : Kinds, key : Owners, router : Nat,
        on : SUBSET Transport, of : SUBSET Producer, ids : SUBSET Ids,
        emptied : SUBSET Rooms, todo : SUBSET Rooms]

\* The registry, the owner table, the requests and the guards of sfu.rs keep their types.
TypeOK ==
    /\ router \in [Rooms -> Nat]
    /\ peers \in [Rooms -> SUBSET Peers]
    /\ transports \subseteq Transport
    /\ producers \subseteq Producer
    /\ consumers \subseteq Consumer
    /\ owners \subseteq Ids \X Owners
    /\ job \in [Tasks -> Job]
    /\ pc \in [Tasks -> Points]
    /\ holder \in [Rooms -> Tasks \cup {NoTask}]
    /\ readers \in [Rooms -> SUBSET Tasks]
    /\ blocked \subseteq Tasks
    /\ nextId \in Ids
    /\ served \in 0 .. MaxReq

\* A stored producer or consumer hangs on a transport that is stored under the same peer,
\* although the worker creates it during an await of create_producer or create_consumer and
\* peers and rooms are removed meanwhile by other tasks: the guard kept across the await
\* is what makes this true.
NoDanglingStream ==
    \A x \in producers \cup consumers :
        /\ x.on \in transports
        /\ x.on.room = x.room /\ x.on.peer = x.peer
        /\ x.peer \in peers[x.room]

\* A producer in the registry is in producer_owners, or its handler is about to put it
\* there: disconnect_session reclaims by owner, so a producer without an owner would
\* outlive its session although reclaims and announcements race with the registration.
LiveProducerOwned ==
    \A x \in producers :
        \/ \E o \in Owners : <<x.id, o>> \in owners
        \/ \E t \in Tasks : pc[t] = "own" /\ x.id \in job[t].ids

\* A data consumer whose data producer is gone is being reaped: remove_producers_by_ids
\* calls orphans the root cause of the `StreamId reserved` consumption ceiling.
NoOrphanDataConsumer ==
    \A c \in consumers :
        c.kind = "data" =>
            \/ c.of \in producers
            \/ \E t \in Tasks : pc[t] \in {"pass1", "pass2"} /\ c.of.id \in job[t].ids

\* All transports of a room run on the room's one router (SfuRoom), so that every
\* producer of the room can be consumed by every peer of it.
OneRouterPerRoom == \A x \in transports : x.router = router[x.room]

\* Every request to the SFU manager ends, by success, error or timeout, although guards
\* are kept across awaits and the shard lock blocks whole worker threads.
RequestsEnd == \A t \in Tasks : pc[t] # "idle" ~> pc[t] = "idle"
=============================================================================
