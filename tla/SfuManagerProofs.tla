-------------------------- MODULE SfuManagerProofs --------------------------
(***************************************************************************)
(* Proofs about SfuManager for any number of tasks, rooms, peers, owners   *)
(* and worker threads.  The argument behind NoDanglingStream: a task that  *)
(* awaits the worker holds the write guard of its room (Guarded), every    *)
(* step that changes a room's entry finds the guard free, so nobody else   *)
(* touches the room whose transport the awaited entity will hang on.       *)
(***************************************************************************)
EXTENDS SfuManager, TLAPS

Awaiting == {"producing", "consuming", "connecting"}

\* What a handler remembers fits the point it has reached.
TaskOK(u) ==
    /\ pc[u] \in {"router", "creating"} => job[u].op \in {"caps", "send", "recv"}
    /\ pc[u] \in {"opening", "store"} => job[u].op \in {"send", "recv"} /\ job[u].router \in Ids
    /\ pc[u] \in Iterating => job[u].todo # {}

\* A task that awaits the worker holds the guard, and its transport is registered.
Guarded(u) ==
    pc[u] \in Awaiting =>
        /\ holder[job[u].room] = u
        /\ \A x \in job[u].on : x \in transports /\ x.room = job[u].room /\ x.peer = job[u].peer

Placed == \A x \in transports : x.peer \in peers[x.room]

IInv == TypeOK /\ (\A u \in Tasks : TaskOK(u) /\ Guarded(u)) /\ Placed /\ NoDanglingStream

-----------------------------------------------------------------------------
\* The idle job of Request is well typed.
LEMMA NoJobType == NoJob \in Job
<1>1. /\ (CHOOSE r \in Rooms : TRUE) \in Rooms
      /\ (CHOOSE p \in Peers : TRUE) \in Peers
      /\ (CHOOSE o \in Owners : TRUE) \in Owners
  BY NamesAssumption
<1> QED BY <1>1 DEF NoJob, Request, Job, AllOps, Kinds

\* Resume of sfu.rs's handlers changes the point and the memory of one task only.
LEMMA ResumeFrame ==
  ASSUME TypeOK, NEW t \in Tasks, NEW at \in Points, NEW j \in Job, Resume(t, at, j)
  PROVE  /\ pc' \in [Tasks -> Points] /\ job' \in [Tasks -> Job]
         /\ pc'[t] = at
         /\ at # "idle" => job'[t] = j
         /\ \A u \in Tasks : u # t => pc'[u] = pc[u] /\ job'[u] = job[u]
BY NoJobType DEF TypeOK, Resume

\* A step of t that leaves alone the guards the others hold, and the transports of the
\* rooms they hold them on, leaves alone what those guards protect.
LEMMA OthersGuarded ==
  ASSUME TypeOK, NEW t \in Tasks, NEW u \in Tasks, u # t, Guarded(u),
         pc'[u] = pc[u], job'[u] = job[u],
         \A q \in Rooms : holder[q] \in Tasks \ {t} =>
             holder'[q] = holder[q] /\ (\A x \in transports : x.room = q => x \in transports')
  PROVE  Guarded(u)'
<1> SUFFICES ASSUME pc[u] \in Awaiting PROVE Guarded(u)'
  BY DEF Guarded
<1>1. job[u].room \in Rooms
  BY DEF TypeOK, Job
<1> QED BY <1>1 DEF Guarded

\* The shard a step accesses is a room.
LEMMA ShardIsRoom ==
  ASSUME TypeOK, NEW t \in Tasks, TaskOK(t)
  PROVE  /\ Shard(t) \in Rooms
         /\ pc[t] \in Iterating => Shard(t) \in job[t].todo
<1>1. CASE pc[t] \in Iterating
  <2>1. job[t].todo # {} /\ job[t].todo \subseteq Rooms
    BY <1>1 DEF TaskOK, TypeOK, Job
  <2> QED BY <1>1, <2>1 DEF Shard
<1>2. CASE pc[t] \notin Iterating
  BY <1>2 DEF Shard, TypeOK, Job
<1> QED BY <1>1, <1>2

\* The guards are free and no stream exists when the server starts.
LEMMA InitIInv == Init => IInv
<1> SUFFICES ASSUME Init PROVE IInv
  OBVIOUS
<1>1. TypeOK
  BY NoJobType, ThreadsAssumption DEF Init, TypeOK, Points, Ids, Transport, Producer, Consumer
<1>2. \A u \in Tasks : TaskOK(u) /\ Guarded(u)
  BY DEF Init, TaskOK, Guarded, Awaiting, Iterating
<1>3. Placed /\ NoDanglingStream
  BY DEF Init, Placed, NoDanglingStream
<1> QED BY <1>1, <1>2, <1>3 DEF IInv

-----------------------------------------------------------------------------
(* One step of one task.  Every action of a handler is a Resume, so its    *)
(* proof gives the pieces that lemma Assemble puts together.               *)

LockFrame(t) ==
    \A q \in Rooms : holder[q] \in Tasks \ {t} =>
        holder'[q] = holder[q] /\ (\A x \in transports : x.room = q => x \in transports')

RegistryType ==
    /\ router \in [Rooms -> Nat] /\ peers \in [Rooms -> SUBSET Peers]
    /\ transports \subseteq Transport /\ producers \subseteq Producer /\ consumers \subseteq Consumer

RestType ==
    /\ owners \subseteq Ids \X Owners
    /\ holder \in [Rooms -> Tasks \cup {NoTask}] /\ readers \in [Rooms -> SUBSET Tasks]
    /\ blocked \subseteq Tasks /\ nextId \in Ids /\ served \in 0 .. MaxReq

\* What Resume must be given for the task it resumes.
JobFits(at, j) ==
    /\ at \in {"router", "creating"} => j.op \in {"caps", "send", "recv"}
    /\ at \in {"opening", "store"} => j.op \in {"send", "recv"} /\ j.router \in Ids
    /\ at \in Iterating => j.todo # {}

GuardFits(t, at, j) ==
    at \in Awaiting =>
        /\ holder'[j.room] = t
        /\ \A x \in j.on : x \in transports' /\ x.room = j.room /\ x.peer = j.peer

\* The pieces of a handler step of signaling.rs and sfu.rs give the invariant after it.
LEMMA Assemble ==
  ASSUME IInv, NEW t \in Tasks, NEW at \in Points, NEW j \in Job, Resume(t, at, j),
         JobFits(at, j), GuardFits(t, at, j), LockFrame(t),
         RegistryType', RestType', Placed', NoDanglingStream'
  PROVE  IInv'
<1>1. /\ pc' \in [Tasks -> Points] /\ job' \in [Tasks -> Job]
      /\ pc'[t] = at
      /\ at # "idle" => job'[t] = j
      /\ \A u \in Tasks : u # t => pc'[u] = pc[u] /\ job'[u] = job[u]
  BY ResumeFrame DEF IInv
<1>2. TypeOK'
  BY <1>1 DEF TypeOK, RegistryType, RestType
<1>3. TaskOK(t)' /\ Guarded(t)'
  BY <1>1 DEF TaskOK, Guarded, JobFits, GuardFits, Iterating, Awaiting
<1>4. ASSUME NEW u \in Tasks, u # t PROVE TaskOK(u)' /\ Guarded(u)'
  <2>1. TaskOK(u)'
    BY <1>1, <1>4 DEF IInv, TaskOK
  <2>2. Guarded(u)'
    BY <1>1, <1>4, OthersGuarded DEF IInv, LockFrame
  <2> QED BY <2>1, <2>2
<1> QED BY <1>2, <1>3, <1>4 DEF IInv

\* A step that leaves the registry, the guards and the owners alone.
LEMMA AssembleQuiet ==
  ASSUME IInv, NEW t \in Tasks, NEW at \in Points, NEW j \in Job, Resume(t, at, j),
         JobFits(at, j), at \notin Awaiting,
         UNCHANGED <<registry, holder, nextId>>, readers' \in [Rooms -> SUBSET Tasks],
         owners' \subseteq Ids \X Owners, blocked' \subseteq Tasks, served' \in 0 .. MaxReq
  PROVE  IInv'
<1>1. RegistryType' /\ RestType'
  BY DEF IInv, TypeOK, RegistryType, RestType, registry
<1>2. Placed' /\ NoDanglingStream'
  BY DEF IInv, Placed, NoDanglingStream, registry
<1>3. LockFrame(t) /\ GuardFits(t, at, j)
  BY DEF LockFrame, GuardFits, registry
<1> QED BY <1>1, <1>2, <1>3, Assemble

-----------------------------------------------------------------------------
\* Facts every handler step of sfu.rs starts from.
LEMMA StepFacts ==
  ASSUME IInv, NEW t \in Tasks, NEW at \in Points, Step(t, at)
  PROVE  /\ pc[t] = at /\ job[t] \in Job /\ TaskOK(t) /\ Guarded(t)
         /\ blocked' \subseteq Tasks
         /\ Shard(t) \in Rooms
         /\ at \in Iterating => Shard(t) \in job[t].todo
         /\ at \in Writing \cup Reading => holder[Shard(t)] = NoTask
         /\ at \notin Iterating => Shard(t) = job[t].room
BY ShardIsRoom DEF IInv, TypeOK, Step, Available, Shard

\* A new request reaches the manager.
LEMMA BeginKeeps == ASSUME IInv, NEW t \in Tasks, Begin(t) PROVE IInv'
<1>1. PICK op \in Ops, r \in Rooms, p \in Peers, k \in Kinds, o \in Owners :
         Resume(t, FirstStep(op), Request(op, r, p, k, o))
  BY DEF Begin
<1>2. op \in AllOps
  BY OpsAssumption DEF AllOps
<1>3. Request(op, r, p, k, o) \in Job
  BY <1>2 DEF Request, Job
<1>4. FirstStep(op) \in Points /\ FirstStep(op) \notin Awaiting /\ JobFits(FirstStep(op), Request(op, r, p, k, o))
  BY <1>2, NamesAssumption DEF FirstStep, AllOps, Points, Awaiting, JobFits, Request, Iterating
<1>5. /\ UNCHANGED <<registry, holder, nextId>> /\ readers' = readers /\ owners' = owners
      /\ blocked' = blocked /\ served' \in 0 .. MaxReq
  BY ThreadsAssumption DEF Begin, locks, IInv, TypeOK
<1> QED BY <1>1, <1>3, <1>4, <1>5, AssembleQuiet DEF IInv, TypeOK

\* ensure_router: the lookup.
LEMMA FindRouterKeeps == ASSUME IInv, NEW t \in Tasks, FindRouter(t) PROVE IInv'
<1> DEFINE j == [job[t] EXCEPT !.router = router[job[t].room]]
<1>1. /\ pc[t] = "router" /\ job[t] \in Job /\ TaskOK(t) /\ blocked' \subseteq Tasks
  BY StepFacts DEF FindRouter, Points
<1>2. UNCHANGED <<registry, holder, nextId>> /\ readers' \in [Rooms -> SUBSET Tasks]
      /\ owners' \subseteq Ids \X Owners /\ served' \in 0 .. MaxReq
  BY DEF FindRouter, locks, IInv, TypeOK
<1>3. CASE router[job[t].room] # 0
  <2>1. j \in Job /\ AfterRouter(t) \in Points /\ AfterRouter(t) \notin Awaiting
    BY <1>1 DEF Job, AfterRouter, Points, Awaiting, IInv, TypeOK
  <2>2. JobFits(AfterRouter(t), j)
    BY <1>1, <1>3 DEF JobFits, AfterRouter, TaskOK, Job, Ids, IInv, TypeOK, Iterating
  <2> QED BY <1>1, <1>2, <1>3, <2>1, <2>2, AssembleQuiet DEF FindRouter
<1>4. CASE router[job[t].room] = 0
  <2>1. JobFits("creating", job[t]) /\ "creating" \in Points /\ "creating" \notin Awaiting
    BY <1>1 DEF JobFits, TaskOK, Points, Awaiting, Iterating
  <2> QED BY <1>1, <1>2, <1>4, <2>1, AssembleQuiet DEF FindRouter, Goto
<1> QED BY <1>3, <1>4

\* Dropping the entry of a room whose guard is free keeps the registry well formed
\* (the insert of ensure_router, remove_room).
LEMMA DropRoomKeeps ==
  ASSUME IInv, NEW t \in Tasks, NEW r \in Rooms, holder[r] = NoTask, holder' = holder,
         router' \in [Rooms -> Nat],
         peers' = [peers EXCEPT ![r] = {}],
         transports' = NotIn(transports, r),
         producers' = NotIn(producers, r),
         consumers' = NotIn(consumers, r)
  PROVE  RegistryType' /\ Placed' /\ NoDanglingStream' /\ LockFrame(t)
<1>1. RegistryType'
  BY DEF IInv, TypeOK, RegistryType, NotIn
<1>2. Placed'
  BY DEF IInv, TypeOK, Placed, NotIn, Transport
<1>3. NoDanglingStream'
  BY DEF IInv, TypeOK, NoDanglingStream, NotIn, Producer, Consumer, Transport
<1>4. LockFrame(t)
  BY TaskAssumption DEF LockFrame, NotIn
<1> QED BY <1>1, <1>2, <1>3, <1>4

\* ensure_router: the insert.
LEMMA EnsureRouterKeeps == ASSUME IInv, NEW t \in Tasks, ensure_router(t) PROVE IInv'
<1> DEFINE j == [job[t] EXCEPT !.router = nextId]
<1>1. /\ pc[t] = "creating" /\ job[t] \in Job /\ TaskOK(t) /\ blocked' \subseteq Tasks
      /\ holder[job[t].room] = NoTask /\ job[t].room \in Rooms
  BY StepFacts DEF ensure_router, Points, Writing, Iterating
<1>2. nextId \in Nat /\ nextId \in Ids /\ nextId + 1 \in Ids
  BY DEF IInv, TypeOK, Ids
<1>3. RegistryType' /\ Placed' /\ NoDanglingStream' /\ LockFrame(t)
  <2>1. holder' = holder /\ router' \in [Rooms -> Nat]
    BY <1>2 DEF ensure_router, locks, IInv, TypeOK
  <2> QED BY <1>1, <2>1, DropRoomKeeps DEF ensure_router
<1>4. RestType'
  BY <1>1, <1>2 DEF ensure_router, RestType, IInv, TypeOK, locks
<1>5. j \in Job /\ AfterRouter(t) \in Points /\ AfterRouter(t) \notin Awaiting
  BY <1>1, <1>2 DEF Job, AfterRouter, Points, Awaiting
<1>6. JobFits(AfterRouter(t), j) /\ GuardFits(t, AfterRouter(t), j)
  BY <1>1, <1>2, <1>5 DEF JobFits, GuardFits, AfterRouter, TaskOK, Job, Iterating
<1> QED BY <1>3, <1>4, <1>5, <1>6, Assemble DEF ensure_router

\* create_webrtc_transport: the transport is opened, or the request fails or times out.
LEMMA OpenKeeps ==
  ASSUME IInv, NEW t \in Tasks, OpenTransport(t) \/ CreateFails(t)
  PROVE  IInv'
<1>1. UNCHANGED <<registry, holder, nextId>> /\ readers' \in [Rooms -> SUBSET Tasks]
      /\ owners' \subseteq Ids \X Owners /\ served' \in 0 .. MaxReq
  BY DEF OpenTransport, CreateFails, locks, IInv, TypeOK
<1>2. CASE OpenTransport(t)
  <2>1. pc[t] = "opening" /\ job[t] \in Job /\ TaskOK(t) /\ blocked' \subseteq Tasks
    BY <1>2, StepFacts DEF OpenTransport, Points
  <2>2. JobFits("store", job[t]) /\ "store" \in Points /\ "store" \notin Awaiting
    BY <2>1 DEF JobFits, TaskOK, Points, Awaiting, Iterating
  <2> QED BY <1>1, <1>2, <2>1, <2>2, AssembleQuiet DEF OpenTransport, Goto
<1>3. CASE CreateFails(t)
  <2>1. JobFits("idle", NoJob) /\ "idle" \in Points /\ "idle" \notin Awaiting
    BY DEF JobFits, Points, Awaiting, Iterating
  <2>2. blocked' \subseteq Tasks
    BY <1>3 DEF CreateFails, IInv, TypeOK
  <2> QED BY <1>1, <1>3, <2>1, <2>2, NoJobType, AssembleQuiet DEF CreateFails, Done
<1> QED BY <1>2, <1>3

\* create_webrtc_transport: the transport is stored.
LEMMA StoreKeeps == ASSUME IInv, NEW t \in Tasks, create_webrtc_transport(t) PROVE IInv'
<1>1. /\ pc[t] = "store" /\ job[t] \in Job /\ TaskOK(t) /\ blocked' \subseteq Tasks
      /\ job[t].room \in Rooms /\ job[t].peer \in Peers
  BY StepFacts DEF create_webrtc_transport, Points, Job
<1>2. nextId \in Ids /\ nextId + 1 \in Ids
  BY DEF IInv, TypeOK, Ids
<1> DEFINE x == [id |-> nextId, room |-> job[t].room, peer |-> job[t].peer, dir |-> job[t].op,
                 router |-> job[t].router]
<1>3. x \in Transport
  BY <1>1, <1>2 DEF TaskOK, Transport
<1>4. /\ router' = router /\ producers' = producers /\ consumers' = consumers
      /\ owners' = owners /\ holder' = holder /\ readers' = readers /\ served' = served
  BY DEF create_webrtc_transport, locks
<1>5. \/ /\ peers' = [peers EXCEPT ![job[t].room] = @ \cup {job[t].peer}]
         /\ transports' = transports \cup {x} /\ nextId' = nextId + 1
      \/ peers' = peers /\ transports' = transports /\ nextId' = nextId
  BY DEF create_webrtc_transport
<1>6. RegistryType' /\ RestType'
  BY <1>1, <1>2, <1>3, <1>4, <1>5 DEF RegistryType, RestType, IInv, TypeOK
<1>7. Placed'
  BY <1>1, <1>3, <1>4, <1>5 DEF Placed, IInv, TypeOK, Transport
<1>8. NoDanglingStream'
  BY <1>1, <1>4, <1>5 DEF NoDanglingStream, IInv, TypeOK, Producer, Consumer
<1>9. LockFrame(t)
  BY <1>4, <1>5 DEF LockFrame
<1>10. JobFits("idle", NoJob) /\ "idle" \in Points /\ GuardFits(t, "idle", NoJob)
  BY DEF JobFits, GuardFits, Points, Awaiting, Iterating
<1> QED BY <1>6, <1>7, <1>8, <1>9, <1>10, NoJobType, Assemble DEF create_webrtc_transport, Done

-----------------------------------------------------------------------------
\* The idle point fits every task.
LEMMA IdleFits ==
  ASSUME NEW t \in Tasks
  PROVE  /\ JobFits("idle", NoJob) /\ GuardFits(t, "idle", NoJob)
         /\ "idle" \in Points /\ "idle" \notin Awaiting
BY DEF JobFits, GuardFits, Points, Awaiting, Iterating

\* create_producer, connect_transport, create_consumer: the guard is taken.
LEMMA UseTransportKeeps ==
  ASSUME IInv, NEW t \in Tasks, NEW at \in {"find", "attach"}, NEW dirs, NEW next \in Awaiting,
         UseTransport(t, at, dirs, next)
  PROVE  IInv'
<1>1. /\ pc[t] = at /\ job[t] \in Job /\ blocked' \subseteq Tasks
      /\ holder[job[t].room] = NoTask /\ job[t].room \in Rooms
  BY StepFacts DEF UseTransport, Points, Writing, Iterating
<1>2. /\ UNCHANGED registry /\ owners' = owners /\ nextId' = nextId /\ served' = served
  BY DEF UseTransport
<1>3. CASE Usable(t, dirs) = {}
  <2>1. UNCHANGED <<registry, holder, nextId>> /\ readers' \in [Rooms -> SUBSET Tasks]
        /\ owners' \subseteq Ids \X Owners /\ served' \in 0 .. MaxReq
    BY <1>2, <1>3 DEF UseTransport, locks, IInv, TypeOK
  <2> QED BY <1>1, <1>3, <2>1, IdleFits, NoJobType, AssembleQuiet DEF UseTransport, Done
<1>4. CASE Usable(t, dirs) # {}
  <2>1. PICK x \in Usable(t, dirs) : Resume(t, next, [job[t] EXCEPT !.on = {x}])
    BY <1>4 DEF UseTransport
  <2> DEFINE j == [job[t] EXCEPT !.on = {x}]
  <2>2. x \in transports /\ x \in Transport /\ x.room = job[t].room /\ x.peer = job[t].peer
    BY <2>1 DEF Usable, IInv, TypeOK
  <2>3. j \in Job /\ next \in Points
    BY <1>1, <2>2 DEF Job, Awaiting, Points
  <2>4. holder' = [holder EXCEPT ![job[t].room] = t] /\ readers' = readers
    BY <1>4 DEF UseTransport
  <2>5. JobFits(next, j)
    BY DEF JobFits, Awaiting, Iterating
  <2>6. j.room = job[t].room /\ j.peer = job[t].peer /\ j.on = {x}
    BY <1>1 DEF Job
  <2>7. GuardFits(t, next, j)
    BY <1>1, <1>2, <2>2, <2>4, <2>6 DEF GuardFits, registry, IInv, TypeOK
  <2>8. LockFrame(t)
    BY <1>1, <1>2, <2>4, TaskAssumption DEF LockFrame, registry, IInv, TypeOK
  <2>9. RegistryType' /\ RestType' /\ Placed' /\ NoDanglingStream'
    BY <1>1, <1>2, <2>4 DEF RegistryType, RestType, Placed, NoDanglingStream, registry, IInv, TypeOK
  <2> QED BY <2>1, <2>3, <2>5, <2>7, <2>8, <2>9, Assemble
<1> QED BY <1>3, <1>4

\* A task that looks a transport up for its await takes the guard with it.
LEMMA FindTransportKeeps ==
  ASSUME IInv, NEW t \in Tasks, FindTransport(t) \/ FindRecvTransport(t)
  PROVE  IInv'
<1>1. /\ "producing" \in Awaiting /\ "connecting" \in Awaiting /\ "consuming" \in Awaiting
  BY DEF Awaiting
<1> QED BY <1>1, UseTransportKeeps DEF FindTransport, FindRecvTransport

\* The guard of the room is released by its holder.
LEMMA UnlockFrame ==
  ASSUME IInv, NEW t \in Tasks, pc[t] \in Awaiting, Unlock(t),
         \A x \in transports : x \in transports'
  PROVE  /\ LockFrame(t)
         /\ holder' \in [Rooms -> Tasks \cup {NoTask}]
         /\ readers' \in [Rooms -> SUBSET Tasks]
<1>1. holder[job[t].room] = t /\ job[t].room \in Rooms
  BY DEF IInv, Guarded, TypeOK, Job
<1> QED BY <1>1 DEF Unlock, LockFrame, IInv, TypeOK

\* create_producer, create_data_producer: the worker has answered.
LEMMA CreateProducerKeeps == ASSUME IInv, NEW t \in Tasks, create_producer(t) PROVE IInv'
<1>1. /\ pc[t] = "producing" /\ job[t] \in Job /\ Guarded(t) /\ blocked' \subseteq Tasks
      /\ pc[t] \in Awaiting
  BY StepFacts DEF create_producer, Points, Awaiting
<1>2. nextId \in Ids /\ nextId + 1 \in Ids
  BY DEF IInv, TypeOK, Ids
<1>3. PICK x \in job[t].on : producers' = producers \cup
        {[id |-> nextId, room |-> job[t].room, peer |-> job[t].peer, kind |-> job[t].kind, on |-> x]}
  BY DEF create_producer
<1> DEFINE y == [id |-> nextId, room |-> job[t].room, peer |-> job[t].peer, kind |-> job[t].kind, on |-> x]
           j == [job[t] EXCEPT !.ids = {nextId}]
<1>4. x \in transports /\ x.room = job[t].room /\ x.peer = job[t].peer /\ x \in Transport
  BY <1>1 DEF Guarded, IInv, TypeOK
<1>5. y \in Producer
  BY <1>1, <1>2, <1>4 DEF Producer, Job
<1>6. /\ router' = router /\ peers' = peers /\ transports' = transports /\ consumers' = consumers
      /\ owners' = owners /\ served' = served /\ nextId' = nextId + 1
  BY DEF create_producer
<1>7. LockFrame(t) /\ holder' \in [Rooms -> Tasks \cup {NoTask}] /\ readers' \in [Rooms -> SUBSET Tasks]
  BY <1>1, <1>6, UnlockFrame DEF create_producer
<1>8. RegistryType' /\ RestType'
  BY <1>1, <1>2, <1>3, <1>5, <1>6, <1>7 DEF RegistryType, RestType, IInv, TypeOK
<1>9. Placed'
  BY <1>6 DEF Placed, IInv
<1>10. x.peer \in peers[x.room]
  BY <1>4 DEF IInv, Placed
<1>11. NoDanglingStream'
  BY <1>3, <1>4, <1>6, <1>10 DEF NoDanglingStream, IInv
<1>12. j \in Job /\ "own" \in Points /\ JobFits("own", j) /\ GuardFits(t, "own", j)
  BY <1>1, <1>2 DEF Job, Points, JobFits, GuardFits, Awaiting, Iterating
<1> QED BY <1>7, <1>8, <1>9, <1>11, <1>12, Assemble DEF create_producer

\* create_consumer, create_data_consumer: the worker has answered.
LEMMA CreateConsumerKeeps == ASSUME IInv, NEW t \in Tasks, create_consumer(t) PROVE IInv'
<1>1. /\ pc[t] = "consuming" /\ job[t] \in Job /\ Guarded(t) /\ blocked' \subseteq Tasks
      /\ pc[t] \in Awaiting
  BY StepFacts DEF create_consumer, Points, Awaiting
<1>2. nextId \in Ids /\ nextId + 1 \in Ids
  BY DEF IInv, TypeOK, Ids
<1>3. PICK x \in job[t].on, y \in job[t].of : consumers' = consumers \cup
        {[id |-> nextId, room |-> job[t].room, peer |-> job[t].peer, kind |-> job[t].kind,
          on |-> x, of |-> y]}
  BY DEF create_consumer
<1>4. x \in transports /\ x.room = job[t].room /\ x.peer = job[t].peer /\ x \in Transport /\ y \in Producer
  BY <1>1 DEF Guarded, IInv, TypeOK, Job
<1>5. [id |-> nextId, room |-> job[t].room, peer |-> job[t].peer, kind |-> job[t].kind,
       on |-> x, of |-> y] \in Consumer
  BY <1>1, <1>2, <1>4 DEF Consumer, Job
<1>6. /\ router' = router /\ peers' = peers /\ transports' = transports /\ producers' = producers
      /\ owners' = owners /\ served' = served /\ nextId' = nextId + 1
  BY DEF create_consumer
<1>7. LockFrame(t) /\ holder' \in [Rooms -> Tasks \cup {NoTask}] /\ readers' \in [Rooms -> SUBSET Tasks]
  BY <1>1, <1>6, UnlockFrame DEF create_consumer
<1>8. RegistryType' /\ RestType'
  BY <1>1, <1>2, <1>3, <1>5, <1>6, <1>7 DEF RegistryType, RestType, IInv, TypeOK
<1>9. Placed'
  BY <1>6 DEF Placed, IInv
<1>10. x.peer \in peers[x.room]
  BY <1>4 DEF IInv, Placed
<1>11. NoDanglingStream'
  BY <1>3, <1>4, <1>6, <1>10 DEF NoDanglingStream, IInv
<1> QED BY <1>7, <1>8, <1>9, <1>11, IdleFits, NoJobType, Assemble DEF create_consumer, Done

\* The guard is released without a new entity.
LEMMA ReleaseKeeps ==
  ASSUME IInv, NEW t \in Tasks, connect_transport(t) \/ WorkerRefuses(t)
  PROVE  IInv'
<1>1. PICK at \in Awaiting : Step(t, at)
  BY DEF connect_transport, WorkerRefuses, Awaiting
<1>2. pc[t] \in Awaiting /\ blocked' \subseteq Tasks
  BY <1>1, StepFacts DEF Awaiting, Points
<1>3. UNCHANGED <<registry, owners, nextId, served>> /\ Unlock(t) /\ Done(t)
  BY DEF connect_transport, WorkerRefuses
<1>4. LockFrame(t) /\ holder' \in [Rooms -> Tasks \cup {NoTask}] /\ readers' \in [Rooms -> SUBSET Tasks]
  BY <1>2, <1>3, UnlockFrame DEF registry
<1>5. RegistryType' /\ RestType' /\ Placed' /\ NoDanglingStream'
  BY <1>2, <1>3, <1>4 DEF RegistryType, RestType, Placed, NoDanglingStream, registry, IInv, TypeOK
<1> QED BY <1>3, <1>4, <1>5, IdleFits, NoJobType, Assemble DEF Done

-----------------------------------------------------------------------------
\* create_consumer: the producer's lookup.
LEMMA FindProducerKeeps == ASSUME IInv, NEW t \in Tasks, FindProducer(t) PROVE IInv'
<1>1. job[t] \in Job /\ blocked' \subseteq Tasks
  BY StepFacts DEF FindProducer, Points
<1>2. UNCHANGED <<registry, holder, nextId>> /\ readers' \in [Rooms -> SUBSET Tasks]
      /\ owners' \subseteq Ids \X Owners /\ served' \in 0 .. MaxReq
  BY DEF FindProducer, locks, IInv, TypeOK
<1>3. CASE Done(t)
  BY <1>1, <1>2, <1>3, IdleFits, NoJobType, AssembleQuiet DEF Done
<1>4. CASE \E x \in producers : Resume(t, "attach", [job[t] EXCEPT !.of = {x}])
  <2>1. PICK x \in producers : Resume(t, "attach", [job[t] EXCEPT !.of = {x}])
    BY <1>4
  <2>2. [job[t] EXCEPT !.of = {x}] \in Job /\ "attach" \in Points /\ "attach" \notin Awaiting
    BY <1>1 DEF Job, IInv, TypeOK, Points, Awaiting
  <2>3. JobFits("attach", [job[t] EXCEPT !.of = {x}])
    BY DEF JobFits, Iterating
  <2> QED BY <1>1, <1>2, <2>1, <2>2, <2>3, AssembleQuiet
<1> QED BY <1>3, <1>4 DEF FindProducer

\* The steps of the handlers that touch producer_owners or nothing.
LEMMA OwnerStepsKeep ==
  ASSUME IInv, NEW t \in Tasks,
         RegisterOwner(t) \/ announce_producers_closed(t) \/ Disown(t) \/ CheckTeardown(t)
  PROVE  IInv'
<1>1. PICK at \in {"own", "announce", "disown", "check"} : Step(t, at)
  BY DEF RegisterOwner, announce_producers_closed, Disown, CheckTeardown
<1>2. job[t] \in Job /\ blocked' \subseteq Tasks
  BY <1>1, StepFacts DEF Points
<1>3. UNCHANGED <<registry, holder, nextId>> /\ readers' \in [Rooms -> SUBSET Tasks] /\ served' \in 0 .. MaxReq
  BY DEF RegisterOwner, announce_producers_closed, Disown, CheckTeardown, locks, IInv, TypeOK
<1>4. owners' \subseteq Ids \X Owners
  BY <1>2 DEF RegisterOwner, announce_producers_closed, Disown, CheckTeardown, IInv, TypeOK, Job
<1>5. \/ Resume(t, "idle", NoJob)
      \/ \E to \in {"snapshot", "check", "teardown", "idle"} : Resume(t, to, job[t])
  BY DEF RegisterOwner, announce_producers_closed, Disown, CheckTeardown, Goto, Done
<1>6. ASSUME NEW to \in {"snapshot", "check", "teardown", "idle"}
      PROVE  to \in Points /\ to \notin Awaiting /\ JobFits(to, job[t])
  BY DEF Points, Awaiting, JobFits, Iterating
<1> QED BY <1>2, <1>3, <1>4, <1>5, <1>6, IdleFits, NoJobType, AssembleQuiet

\* disconnect_session: the snapshot of the owned producers.
LEMMA SnapshotKeeps == ASSUME IInv, NEW t \in Tasks, Snapshot(t) PROVE IInv'
<1> DEFINE mine == OwnedBy(job[t].key)
           at == IF mine = {} THEN "check" ELSE "pass1"
           j == [job[t] EXCEPT !.ids = mine, !.todo = Rooms]
<1>1. job[t] \in Job /\ blocked' \subseteq Tasks
  BY StepFacts DEF Snapshot, Points
<1>2. UNCHANGED <<registry, holder, nextId>> /\ readers' \in [Rooms -> SUBSET Tasks]
      /\ owners' \subseteq Ids \X Owners /\ served' \in 0 .. MaxReq
  BY DEF Snapshot, locks, IInv, TypeOK
<1>3. mine \subseteq Ids
  BY DEF OwnedBy, IInv, TypeOK
<1>4. j \in Job /\ at \in Points /\ at \notin Awaiting
  BY <1>1, <1>3 DEF Job, Points, Awaiting
<1>5. JobFits(at, j)
  BY <1>1, NamesAssumption DEF JobFits, Job, Iterating
<1>6. Resume(t, at, j)
  BY DEF Snapshot
<1> QED BY <1>1, <1>2, <1>4, <1>5, <1>6, AssembleQuiet

\* list_stream_stats: the read guard is taken, the next shard is visited.
LEMMA StatsKeep ==
  ASSUME IInv, NEW t \in Tasks, EnterStats(t) \/ list_stream_stats(t)
  PROVE  IInv'
<1>1. UNCHANGED <<registry, holder, nextId>>
      /\ owners' \subseteq Ids \X Owners /\ served' \in 0 .. MaxReq
  BY DEF EnterStats, list_stream_stats, IInv, TypeOK
<1>2. CASE EnterStats(t)
  <2>1. job[t] \in Job /\ blocked' \subseteq Tasks /\ Shard(t) \in Rooms
    BY <1>2, StepFacts DEF EnterStats, Points
  <2> DEFINE j == [job[t] EXCEPT !.room = Shard(t), !.todo = @ \ {Shard(t)}]
  <2>2. j \in Job /\ "reading" \in Points /\ "reading" \notin Awaiting /\ JobFits("reading", j)
    BY <2>1 DEF Job, Points, Awaiting, JobFits, Iterating
  <2>3. readers' \in [Rooms -> SUBSET Tasks]
    BY <1>2, <2>1 DEF EnterStats, IInv, TypeOK
  <2> QED BY <1>1, <1>2, <2>1, <2>2, <2>3, AssembleQuiet DEF EnterStats
<1>3. CASE list_stream_stats(t)
  <2>1. job[t] \in Job /\ blocked' \subseteq Tasks
    BY <1>3, StepFacts DEF list_stream_stats, Points
  <2> DEFINE at == IF job[t].todo = {} THEN "idle" ELSE "stats"
  <2>2. at \in Points /\ at \notin Awaiting /\ JobFits(at, job[t])
    BY DEF Points, Awaiting, JobFits, Iterating
  <2>3. readers' \in [Rooms -> SUBSET Tasks]
    BY <1>3, <2>1 DEF list_stream_stats, IInv, TypeOK
  <2>4. Resume(t, at, job[t])
    BY <1>3 DEF list_stream_stats, Goto
  <2> QED BY <1>1, <2>1, <2>2, <2>3, <2>4, AssembleQuiet
<1> QED BY <1>2, <1>3

-----------------------------------------------------------------------------
\* Dropping a peer of a room whose guard is free keeps the registry well formed.
LEMMA DropPeerKeeps ==
  ASSUME IInv, NEW t \in Tasks, NEW r \in Rooms, NEW p \in Peers, holder[r] = NoTask,
         holder' = holder, router' = router, DropPeer(r, p)
  PROVE  RegistryType' /\ Placed' /\ NoDanglingStream' /\ LockFrame(t)
<1>1. RegistryType'
  BY DEF DropPeer, IInv, TypeOK, RegistryType, NotOf
<1>2. Placed'
  BY DEF DropPeer, IInv, TypeOK, Placed, NotOf, Transport
<1>3. NoDanglingStream'
  <2> SUFFICES ASSUME NEW x \in producers' \cup consumers'
               PROVE  /\ x.on \in transports'
                      /\ x.on.room = x.room /\ x.on.peer = x.peer
                      /\ x.peer \in peers'[x.room]
    BY DEF NoDanglingStream
  <2>1. x \in producers \cup consumers /\ ~ (x.room = r /\ x.peer = p)
    BY DEF DropPeer, NotOf
  <2>2. x.on \in transports /\ x.on.room = x.room /\ x.on.peer = x.peer /\ x.peer \in peers[x.room]
    BY <2>1 DEF IInv, NoDanglingStream
  <2>3. x.room \in Rooms
    BY <2>1 DEF IInv, TypeOK, Producer, Consumer
  <2> QED BY <2>1, <2>2, <2>3 DEF DropPeer, NotOf, IInv, TypeOK
<1>4. LockFrame(t)
  BY TaskAssumption DEF DropPeer, LockFrame, NotOf
<1> QED BY <1>1, <1>2, <1>3, <1>4

\* The ids of closed producers are ids.
LEMMA ClosedIds == ASSUME IInv, NEW r, NEW p PROVE ClosedMedia(r, p) \subseteq Ids
BY DEF ClosedMedia, IdsOf, IInv, TypeOK, Producer

\* DownstreamGone: remove_peer_in_room.
LEMMA RemoveInRoomKeeps == ASSUME IInv, NEW t \in Tasks, remove_peer_in_room(t) PROVE IInv'
<1> DEFINE r == job[t].room
           p == job[t].peer
           empty == IF peers[r] = {p} THEN {r} ELSE {}
           j == [job[t] EXCEPT !.ids = ClosedMedia(r, p), !.todo = empty]
<1>1. /\ job[t] \in Job /\ blocked' \subseteq Tasks /\ holder[r] = NoTask /\ r \in Rooms /\ p \in Peers
  BY StepFacts DEF remove_peer_in_room, Points, Writing, Iterating, Job
<1>2. RegistryType' /\ Placed' /\ NoDanglingStream' /\ LockFrame(t)
  BY <1>1, DropPeerKeeps DEF remove_peer_in_room, locks
<1>3. RestType'
  BY <1>1 DEF remove_peer_in_room, RestType, IInv, TypeOK, locks
<1>4. j \in Job /\ AfterRemoval(empty) \in Points
  BY <1>1, ClosedIds DEF Job, AfterRemoval, Points
<1>5. JobFits(AfterRemoval(empty), j) /\ GuardFits(t, AfterRemoval(empty), j)
  BY <1>1 DEF JobFits, GuardFits, AfterRemoval, Job, Iterating, Awaiting
<1>6. Resume(t, AfterRemoval(empty), j)
  BY DEF remove_peer_in_room
<1> QED BY <1>2, <1>3, <1>4, <1>5, <1>6, Assemble

\* disconnect_session: remove_peer_global, one room at a time.
LEMMA RemoveGlobalKeeps == ASSUME IInv, NEW t \in Tasks, remove_peer_global(t) PROVE IInv'
<1> DEFINE r == Shard(t)
           p == job[t].peer
           empty == IF peers[r] = {p} THEN job[t].emptied \cup {r} ELSE job[t].emptied
           rest == job[t].todo \ {r}
           at == IF rest = {} THEN AfterRemoval(empty) ELSE "global"
           j == [job[t] EXCEPT !.ids = @ \cup ClosedMedia(r, p), !.emptied = empty,
                               !.todo = IF rest = {} THEN empty ELSE rest]
<1>1. /\ job[t] \in Job /\ blocked' \subseteq Tasks /\ holder[r] = NoTask /\ r \in Rooms /\ p \in Peers
  BY StepFacts DEF remove_peer_global, Points, Writing, Job
<1>2. RegistryType' /\ Placed' /\ NoDanglingStream' /\ LockFrame(t)
  BY <1>1, DropPeerKeeps DEF remove_peer_global, locks
<1>3. RestType'
  BY <1>1 DEF remove_peer_global, RestType, IInv, TypeOK, locks
<1>4. j \in Job /\ at \in Points
  BY <1>1, ClosedIds DEF Job, AfterRemoval, Points
<1>5. JobFits(at, j) /\ GuardFits(t, at, j)
  BY <1>1 DEF JobFits, GuardFits, AfterRemoval, Job, Iterating, Awaiting
<1>6. Resume(t, at, j)
  BY DEF remove_peer_global
<1> QED BY <1>2, <1>3, <1>4, <1>5, <1>6, Assemble

\* remove_room of an emptied or torn down room.
LEMMA RemoveRoomKeeps ==
  ASSUME IInv, NEW t \in Tasks, RemoveEmptied(t) \/ Teardown(t)
  PROVE  IInv'
<1>1. PICK at \in {"emptied", "teardown"} : Step(t, at)
  BY DEF RemoveEmptied, Teardown
<1>2. /\ job[t] \in Job /\ blocked' \subseteq Tasks /\ Shard(t) \in Rooms /\ holder[Shard(t)] = NoTask
      /\ pc[t] = at
      /\ at = "teardown" => Shard(t) = job[t].room
  BY <1>1, StepFacts DEF Points, Writing, Iterating
<1>3. remove_room(Shard(t)) /\ holder' = holder /\ readers' = readers /\ UNCHANGED <<owners, nextId, served>>
  BY <1>2 DEF RemoveEmptied, Teardown, Step, locks
<1>4. RegistryType' /\ Placed' /\ NoDanglingStream' /\ LockFrame(t)
  <2>1. router' \in [Rooms -> Nat]
    BY <1>2, <1>3 DEF remove_room, IInv, TypeOK
  <2> QED BY <1>2, <1>3, <2>1, DropRoomKeeps DEF remove_room
<1>5. RestType'
  BY <1>2, <1>3 DEF RestType, IInv, TypeOK
<1>6. CASE Teardown(t)
  BY <1>4, <1>5, <1>6, IdleFits, NoJobType, Assemble DEF Teardown, Done
<1>7. CASE RemoveEmptied(t)
  <2> DEFINE rest == job[t].todo \ {Shard(t)}
             j == [job[t] EXCEPT !.todo = rest]
  <2>1. j \in Job /\ AfterRemoval(rest) \in Points
    BY <1>2 DEF Job, AfterRemoval, Points
  <2>2. JobFits(AfterRemoval(rest), j) /\ GuardFits(t, AfterRemoval(rest), j)
    BY <1>2 DEF JobFits, GuardFits, AfterRemoval, Job, Iterating, Awaiting
  <2>3. Resume(t, AfterRemoval(rest), j)
    BY <1>7 DEF RemoveEmptied
  <2> QED BY <1>4, <1>5, <2>1, <2>2, <2>3, Assemble
<1> QED BY <1>6, <1>7

\* remove_producers_by_ids: the two passes.
LEMMA PassesKeep ==
  ASSUME IInv, NEW t \in Tasks, remove_producers_by_ids(t) \/ ReapDataConsumers(t)
  PROVE  IInv'
<1>1. PICK now \in {"pass1", "pass2"} : Step(t, now)
  BY DEF remove_producers_by_ids, ReapDataConsumers
<1>2. job[t] \in Job /\ blocked' \subseteq Tasks /\ Shard(t) \in Rooms
  BY <1>1, StepFacts DEF Points
<1>3. /\ router' = router /\ peers' = peers /\ transports' = transports
      /\ producers' \subseteq producers /\ consumers' \subseteq consumers
      /\ owners' = owners /\ holder' = holder /\ readers' = readers
      /\ nextId' = nextId /\ served' = served
  BY DEF remove_producers_by_ids, ReapDataConsumers, locks
<1>4. RegistryType' /\ RestType' /\ Placed' /\ NoDanglingStream' /\ LockFrame(t)
  BY <1>2, <1>3 DEF RegistryType, RestType, Placed, NoDanglingStream, LockFrame, IInv, TypeOK
<1> DEFINE rest == job[t].todo \ {Shard(t)}
<1>5. CASE remove_producers_by_ids(t)
  <2> DEFINE at == IF rest = {} THEN "pass2" ELSE "pass1"
             j == [job[t] EXCEPT !.todo = IF rest = {} THEN Rooms ELSE rest]
  <2>1. j \in Job /\ at \in Points
    BY <1>2 DEF Job, Points
  <2>2. JobFits(at, j) /\ GuardFits(t, at, j)
    BY <1>2, NamesAssumption DEF JobFits, GuardFits, Job, Iterating, Awaiting
  <2>3. Resume(t, at, j)
    BY <1>5 DEF remove_producers_by_ids
  <2> QED BY <1>4, <2>1, <2>2, <2>3, Assemble
<1>6. CASE ReapDataConsumers(t)
  <2> DEFINE at == IF rest = {} THEN "disown" ELSE "pass2"
             j == [job[t] EXCEPT !.todo = rest]
  <2>1. j \in Job /\ at \in Points
    BY <1>2 DEF Job, Points
  <2>2. JobFits(at, j) /\ GuardFits(t, at, j)
    BY <1>2 DEF JobFits, GuardFits, Job, Iterating, Awaiting
  <2>3. Resume(t, at, j)
    BY <1>6 DEF ReapDataConsumers
  <2> QED BY <1>4, <2>1, <2>2, <2>3, Assemble
<1> QED BY <1>5, <1>6

-----------------------------------------------------------------------------
\* A blocked thread and a stuttering step change nothing the invariant reads.
LEMMA QuietKeeps ==
  ASSUME IInv, UNCHANGED vars \/ \E t \in Tasks : Block(t)
  PROVE  IInv'
<1>1. /\ UNCHANGED <<registry, owners, job, pc, locks, nextId, served>>
      /\ blocked' \subseteq Tasks
  BY DEF vars, Block, IInv, TypeOK
<1> QED BY <1>1 DEF IInv, TypeOK, TaskOK, Guarded, Placed, NoDanglingStream, registry, locks

\* The guard discipline is preserved by every step of every task.
LEMMA NextIInv == IInv /\ [Next]_vars => IInv'
<1> SUFFICES ASSUME IInv, [Next]_vars PROVE IInv'
  OBVIOUS
<1>1. CASE UNCHANGED vars
  BY <1>1, QuietKeeps
<1>2. ASSUME NEW t \in Tasks, Block(t) PROVE IInv'
  BY <1>2, QuietKeeps
<1>3. ASSUME NEW t \in Tasks, Begin(t) PROVE IInv'
  BY <1>3, BeginKeeps
<1>4. ASSUME NEW t \in Tasks, Serve(t) PROVE IInv'
  BY <1>4, FindRouterKeeps, EnsureRouterKeeps, OpenKeeps, StoreKeeps, FindTransportKeeps,
     CreateProducerKeeps, CreateConsumerKeeps, ReleaseKeeps, FindProducerKeeps, OwnerStepsKeep,
     SnapshotKeeps, StatsKeep, RemoveInRoomKeeps, RemoveGlobalKeeps, RemoveRoomKeeps, PassesKeep
     DEF Serve
<1> QED BY <1>1, <1>2, <1>3, <1>4 DEF Next

\* The guard discipline holds in every reachable state: a task that awaits the
\* worker still holds the guard of the room it will write to.
THEOREM Inductive == Spec => []IInv
BY InitIInv, NextIInv, PTL DEF Spec

\* The SFU registry, the owner table, the requests and the guards keep their types.
THEOREM TypeCorrect == Spec => []TypeOK
<1>1. IInv => TypeOK BY DEF IInv
<1> QED BY <1>1, Inductive, PTL

\* Whatever the worker creates during an await of create_producer or create_consumer hangs
\* on a transport that is registered under the same peer, for any number of tasks, rooms,
\* peers and threads.
THEOREM NoDanglingStreamHolds == Spec => []NoDanglingStream
<1>1. IInv => NoDanglingStream BY DEF IInv
<1> QED BY <1>1, Inductive, PTL

-----------------------------------------------------------------------------
(* LiveProducerOwned.  Ids are never reused, and a handler that will       *)
(* remove ids from producer_owners has already removed their producers:    *)
(* that is what the order "drop, then disown" of the code buys.            *)

Fresh ==
    /\ \A x \in producers : x.id < nextId
    /\ \A e \in owners : e[1] < nextId
    /\ \A u \in Tasks : \A i \in job[u].ids : i < nextId

UniqueIds == \A x, y \in producers : x.id = y.id => x = y

IdsGone == {"global", "emptied", "announce", "pass2", "disown"}

IdsFit(at, j) ==
    /\ at \in IdsGone => \A x \in producers : x.id \notin j.ids
    /\ at = "pass1" => \A x \in producers : x.id \in j.ids => x.room \in j.todo

OInv ==
    /\ Fresh
    /\ UniqueIds
    /\ \A u \in Tasks : IdsFit(pc[u], job[u])
    /\ LiveProducerOwned

\* A handler step that creates no producer and disowns none that lives.
LEMMA OwnedAssemble ==
  ASSUME IInv, OInv, NEW t \in Tasks, NEW at \in Points, NEW j \in Job, Resume(t, at, j),
         producers' \subseteq producers,
         nextId' \in Nat, nextId' >= nextId,
         \A i \in j.ids : i < nextId',
         \A e \in owners' : e[1] < nextId',
         \A x \in producers', o \in Owners : <<x.id, o>> \in owners => <<x.id, o>> \in owners',
         pc[t] = "own" => \A x \in producers' : x.id \in job[t].ids =>
                             \E o \in Owners : <<x.id, o>> \in owners',
         at \in IdsGone => \A x \in producers' : x.id \notin j.ids,
         at = "pass1" => \A x \in producers' : x.id \in j.ids => x.room \in j.todo
  PROVE  OInv'
<1>1. /\ pc'[t] = at /\ job'[t] = (IF at = "idle" THEN NoJob ELSE j)
      /\ \A u \in Tasks : u # t => pc'[u] = pc[u] /\ job'[u] = job[u]
  BY DEF Resume, IInv, TypeOK
<1>2. NoJob.ids = {}
  BY DEF NoJob, Request
<1>3. nextId \in Nat /\ (\A u \in Tasks : job[u].ids \subseteq Nat) /\ (\A x \in producers : x.id \in Nat)
  BY DEF IInv, TypeOK, Job, Ids, Producer
<1>4. Fresh'
  <2>1. \A x \in producers' : x.id < nextId'
    BY <1>3 DEF OInv, Fresh
  <2>2. \A u \in Tasks : \A i \in job'[u].ids : i < nextId'
    BY <1>1, <1>2, <1>3 DEF OInv, Fresh
  <2> QED BY <2>1, <2>2 DEF Fresh
<1>5. UniqueIds'
  BY DEF OInv, UniqueIds
<1>6. \A u \in Tasks : IdsFit(pc[u], job[u])'
  BY <1>1, <1>2 DEF OInv, IdsFit, IdsGone
<1>7. LiveProducerOwned'
  <2> SUFFICES ASSUME NEW x \in producers'
               PROVE  \/ \E o \in Owners : <<x.id, o>> \in owners'
                      \/ \E u \in Tasks : pc'[u] = "own" /\ x.id \in job'[u].ids
    BY DEF LiveProducerOwned
  <2>1. \/ \E o \in Owners : <<x.id, o>> \in owners
        \/ \E u \in Tasks : pc[u] = "own" /\ x.id \in job[u].ids
    BY DEF OInv, LiveProducerOwned
  <2> QED BY <1>1, <2>1
<1> QED BY <1>4, <1>5, <1>6, <1>7 DEF OInv

\* What the handlers' steps that leave producers and owners alone have in common.
LEMMA OwnedQuiet ==
  ASSUME IInv, OInv, NEW t \in Tasks, NEW at \in Points, NEW j \in Job, Resume(t, at, j),
         producers' \subseteq producers, owners' = owners,
         nextId' = nextId \/ nextId' = nextId + 1,
         pc[t] # "own", at \notin IdsGone, at # "pass1",
         j.ids = {} \/ j.ids = job[t].ids
  PROVE  OInv'
<1>1. nextId \in Nat /\ nextId' \in Nat /\ nextId' >= nextId
  BY DEF IInv, TypeOK, Ids
<1>2. \A i \in j.ids : i < nextId'
  <2>1. job[t].ids \subseteq Nat
    BY DEF IInv, TypeOK, Job, Ids
  <2> QED BY <1>1, <2>1 DEF OInv, Fresh
<1>3. \A e \in owners' : e[1] < nextId'
  <2>1. \A e \in owners : e[1] \in Nat
    BY DEF IInv, TypeOK, Ids
  <2> QED BY <1>1, <2>1 DEF OInv, Fresh
<1> QED BY <1>1, <1>2, <1>3, OwnedAssemble

\* No producer and no owner entry exists when the server starts.
LEMMA InitOInv == Init => OInv
BY DEF Init, OInv, Fresh, UniqueIds, IdsFit, IdsGone, LiveProducerOwned, NoJob, Request

\* Picking up a request changes no producer and no owner.
LEMMA BeginOwned == ASSUME IInv, OInv, NEW t \in Tasks, Begin(t) PROVE OInv'
<1>1. PICK op \in Ops, r \in Rooms, p \in Peers, k \in Kinds, o \in Owners :
         Resume(t, FirstStep(op), Request(op, r, p, k, o))
  BY DEF Begin
<1> DEFINE j == Request(op, r, p, k, o)
<1>2. op \in AllOps
  BY OpsAssumption DEF AllOps
<1>3. j \in Job /\ j.ids = {} /\ FirstStep(op) \in Points /\ FirstStep(op) # "pass1"
  BY <1>2 DEF Request, Job, FirstStep, AllOps, Points
<1>4. /\ producers' = producers /\ owners' = owners /\ nextId' = nextId /\ pc[t] = "idle"
  BY DEF Begin, registry
<1>5. nextId \in Nat
  BY DEF IInv, TypeOK, Ids
<1> QED BY <1>1, <1>3, <1>4, <1>5, OwnedAssemble DEF OInv, Fresh

\* The steps before a removal or a reclaim, and those that only release something.
LEMMA QuietOwned ==
  ASSUME IInv, OInv, NEW t \in Tasks,
         \/ FindRouter(t) \/ ensure_router(t) \/ OpenTransport(t) \/ CreateFails(t)
         \/ create_webrtc_transport(t) \/ FindTransport(t) \/ FindRecvTransport(t)
         \/ connect_transport(t) \/ WorkerRefuses(t) \/ FindProducer(t) \/ create_consumer(t)
         \/ CheckTeardown(t) \/ Teardown(t) \/ EnterStats(t) \/ list_stream_stats(t)
  PROVE  OInv'
<1>1. job[t] \in Job /\ nextId \in Ids /\ NoJob.ids = {}
  BY DEF IInv, TypeOK, NoJob, Request
<1>2. ASSUME NEW at \in Points, NEW j \in Job, Resume(t, at, j), at \notin IdsGone, at # "pass1",
             j.ids = {} \/ j.ids = job[t].ids, pc[t] # "own",
             producers' \subseteq producers, owners' = owners,
             nextId' = nextId \/ nextId' = nextId + 1
      PROVE OInv'
  BY <1>2, OwnedQuiet
<1>3. ASSUME Done(t), pc[t] # "own", producers' \subseteq producers, owners' = owners,
             nextId' = nextId \/ nextId' = nextId + 1
      PROVE  OInv'
  BY <1>1, <1>2, <1>3, NoJobType DEF Done, Points, IdsGone
<1>4. ASSUME NEW at \in {"idle", "creating", "store", "teardown", "stats"}, Goto(t, at),
             pc[t] # "own", UNCHANGED <<registry, owners, nextId>>
      PROVE  OInv'
  BY <1>1, <1>2, <1>4 DEF Goto, Points, IdsGone, registry
<1>5. CASE FindRouter(t) \/ ensure_router(t)
  <2>1. /\ pc[t] # "own" /\ owners' = owners /\ producers' \subseteq producers
        /\ nextId' = nextId \/ nextId' = nextId + 1
    BY <1>5 DEF FindRouter, ensure_router, Step, registry, NotIn
  <2>2. CASE \E i \in Nat : Resume(t, AfterRouter(t), [job[t] EXCEPT !.router = i])
    <3>1. PICK i \in Nat : Resume(t, AfterRouter(t), [job[t] EXCEPT !.router = i])
      BY <2>2
    <3>2. [job[t] EXCEPT !.router = i] \in Job /\ [job[t] EXCEPT !.router = i].ids = job[t].ids
      BY <1>1 DEF Job
    <3>3. AfterRouter(t) \in Points /\ AfterRouter(t) \notin IdsGone /\ AfterRouter(t) # "pass1"
      BY DEF AfterRouter, Points, IdsGone
    <3> QED BY <1>2, <2>1, <3>1, <3>2, <3>3
  <2>3. CASE FindRouter(t) /\ Goto(t, "creating")
    BY <1>4, <2>1, <2>3 DEF FindRouter
  <2>4. router[job[t].room] \in Nat /\ nextId \in Nat
    BY <1>1 DEF IInv, TypeOK, Job, Ids
  <2> QED BY <1>5, <2>2, <2>3, <2>4 DEF FindRouter, ensure_router
<1>6. CASE OpenTransport(t) \/ CheckTeardown(t) \/ list_stream_stats(t)
  BY <1>4, <1>6 DEF OpenTransport, CheckTeardown, list_stream_stats, Step
<1>7. CASE \/ CreateFails(t) \/ create_webrtc_transport(t) \/ connect_transport(t) \/ WorkerRefuses(t)
           \/ create_consumer(t) \/ Teardown(t)
  <2>1. Done(t) /\ pc[t] # "own" /\ owners' = owners
    BY <1>7 DEF CreateFails, create_webrtc_transport, connect_transport, WorkerRefuses, create_consumer,
                Teardown, Step
  <2>2. producers' \subseteq producers
    BY <1>7 DEF CreateFails, create_webrtc_transport, connect_transport, WorkerRefuses, create_consumer,
                Teardown, registry, remove_room, NotIn
  <2>3. nextId' = nextId \/ nextId' = nextId + 1
    BY <1>7 DEF CreateFails, create_webrtc_transport, connect_transport, WorkerRefuses, create_consumer, Teardown
  <2> QED BY <1>3, <2>1, <2>2, <2>3
<1>8. CASE FindTransport(t) \/ FindRecvTransport(t)
  <2>1. PICK at \in {"find", "attach"}, dirs \in {{"send"}, {"recv"}, {"send", "recv"}}, next \in Awaiting :
           UseTransport(t, at, dirs, next)
    BY <1>8 DEF FindTransport, FindRecvTransport, Awaiting
  <2>2. pc[t] # "own" /\ producers' = producers /\ owners' = owners /\ nextId' = nextId
    BY <2>1 DEF UseTransport, Step, registry
  <2>3. CASE Done(t)
    BY <1>3, <2>2, <2>3
  <2>4. CASE \E x \in Usable(t, dirs) : Resume(t, next, [job[t] EXCEPT !.on = {x}])
    <3>1. PICK x \in Usable(t, dirs) : Resume(t, next, [job[t] EXCEPT !.on = {x}])
      BY <2>4
    <3>2. [job[t] EXCEPT !.on = {x}] \in Job /\ [job[t] EXCEPT !.on = {x}].ids = job[t].ids
      BY <1>1 DEF Job, Usable, IInv, TypeOK
    <3>3. next \in Points /\ next \notin IdsGone /\ next # "pass1"
      BY DEF Awaiting, Points, IdsGone
    <3> QED BY <1>2, <2>2, <3>1, <3>2, <3>3
  <2> QED BY <2>1, <2>3, <2>4 DEF UseTransport
<1>9. CASE FindProducer(t)
  <2>1. pc[t] # "own" /\ producers' = producers /\ owners' = owners /\ nextId' = nextId
    BY <1>9 DEF FindProducer, Step, registry
  <2>2. CASE Done(t)
    BY <1>3, <2>1, <2>2
  <2>3. CASE \E x \in producers : Resume(t, "attach", [job[t] EXCEPT !.of = {x}])
    <3>1. PICK x \in producers : Resume(t, "attach", [job[t] EXCEPT !.of = {x}])
      BY <2>3
    <3>2. [job[t] EXCEPT !.of = {x}] \in Job /\ [job[t] EXCEPT !.of = {x}].ids = job[t].ids
      BY <1>1 DEF Job, IInv, TypeOK
    <3> QED BY <1>2, <2>1, <3>1, <3>2 DEF Points, IdsGone
  <2> QED BY <1>9, <2>2, <2>3 DEF FindProducer
<1>10. CASE EnterStats(t)
  <2> DEFINE j == [job[t] EXCEPT !.room = Shard(t), !.todo = @ \ {Shard(t)}]
  <2>1. pc[t] # "own" /\ producers' = producers /\ owners' = owners /\ nextId' = nextId
    BY <1>10 DEF EnterStats, Step, registry
  <2>2. j \in Job /\ j.ids = job[t].ids
    BY <1>1, <1>10, StepFacts DEF Job, EnterStats, Points
  <2> QED BY <1>2, <1>10, <2>1, <2>2 DEF EnterStats, Points, IdsGone
<1> QED BY <1>5, <1>6, <1>7, <1>8, <1>9, <1>10

\* create_producer stores a producer under an id nobody has seen, and its handler owes the
\* registration.
LEMMA CreateProducerOwned == ASSUME IInv, OInv, NEW t \in Tasks, create_producer(t) PROVE OInv'
<1> DEFINE j == [job[t] EXCEPT !.ids = {nextId}]
<1>1. /\ pc[t] = "producing" /\ job[t] \in Job /\ nextId \in Nat /\ nextId' = nextId + 1
      /\ owners' = owners /\ Resume(t, "own", j)
  BY DEF create_producer, Step, IInv, TypeOK, Ids
<1>2. PICK x \in job[t].on :
         producers' = producers \cup
             {[id |-> nextId, room |-> job[t].room, peer |-> job[t].peer, kind |-> job[t].kind, on |-> x]}
  BY DEF create_producer
<1> DEFINE new == [id |-> nextId, room |-> job[t].room, peer |-> job[t].peer, kind |-> job[t].kind, on |-> x]
<1>3. /\ pc'[t] = "own" /\ job'[t].ids = {nextId}
      /\ \A u \in Tasks : u # t => pc'[u] = pc[u] /\ job'[u] = job[u]
  BY <1>1 DEF Resume, IInv, TypeOK, Job
<1>4. /\ \A u \in Tasks : job[u].ids \subseteq Nat
      /\ \A y \in producers : y.id \in Nat
      /\ \A e \in owners : e[1] \in Nat
  BY DEF IInv, TypeOK, Job, Ids, Producer
<1>5. new.id = nextId
  OBVIOUS
<1>6. Fresh'
  <2>1. \A y \in producers' : y.id < nextId'
    BY <1>1, <1>2, <1>4, <1>5 DEF OInv, Fresh
  <2>2. \A e \in owners' : e[1] < nextId'
    BY <1>1, <1>4 DEF OInv, Fresh
  <2>3. \A u \in Tasks : \A i \in job'[u].ids : i < nextId'
    BY <1>1, <1>3, <1>4 DEF OInv, Fresh
  <2> QED BY <2>1, <2>2, <2>3 DEF Fresh
<1>7. \A y \in producers : y.id # nextId
  BY <1>1, <1>4 DEF OInv, Fresh
<1>8. UniqueIds'
  BY <1>2, <1>5, <1>7 DEF OInv, UniqueIds
<1>9. ASSUME NEW u \in Tasks PROVE IdsFit(pc[u], job[u])'
  <2>1. CASE u = t
    BY <1>3, <2>1 DEF IdsFit, IdsGone
  <2>2. CASE u # t
    <3>1. nextId \notin job[u].ids
      BY <1>1, <1>4 DEF OInv, Fresh
    <3> QED BY <1>2, <1>3, <1>5, <2>2, <3>1 DEF OInv, IdsFit
  <2> QED BY <2>1, <2>2
<1>10. LiveProducerOwned'
  <2> SUFFICES ASSUME NEW y \in producers'
               PROVE  \/ \E o \in Owners : <<y.id, o>> \in owners'
                      \/ \E u \in Tasks : pc'[u] = "own" /\ y.id \in job'[u].ids
    BY DEF LiveProducerOwned
  <2>1. CASE y = new
    BY <1>3, <1>5, <2>1
  <2>2. CASE y \in producers
    <3>1. \/ \E o \in Owners : <<y.id, o>> \in owners
          \/ \E u \in Tasks : pc[u] = "own" /\ y.id \in job[u].ids
      BY <2>2 DEF OInv, LiveProducerOwned
    <3> QED BY <1>1, <1>3, <3>1
  <2> QED BY <1>2, <2>1, <2>2
<1> QED BY <1>6, <1>8, <1>9, <1>10 DEF OInv

\* What a handler remembers is older than every id still to come.
LEMMA OldIds ==
  ASSUME IInv, OInv
  PROVE  /\ nextId \in Nat /\ nextId >= nextId
         /\ \A e \in owners : e[1] < nextId
         /\ \A x \in producers : x.id < nextId
         /\ \A u \in Tasks : job[u] \in Job /\ \A i \in job[u].ids : i < nextId
         /\ NoJob.ids = {} /\ NoJob \in Job
BY NoJobType DEF IInv, TypeOK, Ids, OInv, Fresh, NoJob, Request

\* producer_owners gets the entry the handler owes.
LEMMA RegisterOwned == ASSUME IInv, OInv, NEW t \in Tasks, RegisterOwner(t) PROVE OInv'
<1>1. /\ pc[t] = "own" /\ producers' = producers /\ nextId' = nextId
      /\ owners' = owners \cup {<<i, job[t].key>> : i \in job[t].ids} /\ Resume(t, "idle", NoJob)
  BY DEF RegisterOwner, Step, registry, Done
<1>2. job[t].key \in Owners
  BY OldIds DEF Job
<1>3. \A e \in owners' : e[1] < nextId'
  BY <1>1, OldIds
<1>4. \A x \in producers' : x.id \in job[t].ids => \E o \in Owners : <<x.id, o>> \in owners'
  BY <1>1, <1>2
<1>5. "idle" \in Points /\ "idle" \notin IdsGone
  BY DEF Points, IdsGone
<1> QED BY <1>1, <1>3, <1>4, <1>5, OldIds, OwnedAssemble

\* The steps of a removal and a reclaim, which leave producer_owners alone.
LEMMA DropOwned ==
  ASSUME IInv, OInv, NEW t \in Tasks, NEW at \in Points, NEW j \in Job, Resume(t, at, j),
         producers' \subseteq producers, owners' = owners, nextId' = nextId, pc[t] # "own",
         \A i \in j.ids : i < nextId,
         at \in IdsGone => \A x \in producers' : x.id \notin j.ids,
         at = "pass1" => \A x \in producers' : x.id \in j.ids => x.room \in j.todo
  PROVE  OInv'
BY OldIds, OwnedAssemble

\* The ids that DropPeer closes are old, and no producer that stays has one of them.
LEMMA ClosedGone ==
  ASSUME IInv, OInv, NEW r, NEW p, producers' = NotOf(producers, r, p)
  PROVE  /\ \A i \in ClosedMedia(r, p) : i < nextId
         /\ \A x \in producers' : x.id \notin ClosedMedia(r, p)
BY OldIds DEF ClosedMedia, IdsOf, NotOf, OInv, UniqueIds

\* remove_peer in one room drops the producers whose ids it will announce.
LEMMA RemoveInRoomOwned == ASSUME IInv, OInv, NEW t \in Tasks, remove_peer_in_room(t) PROVE OInv'
<1> DEFINE empty == IF peers[job[t].room] = {job[t].peer} THEN {job[t].room} ELSE {}
           closed == ClosedMedia(job[t].room, job[t].peer)
           j == [job[t] EXCEPT !.ids = closed, !.todo = empty]
<1>1. /\ pc[t] # "own" /\ producers' = NotOf(producers, job[t].room, job[t].peer)
      /\ owners' = owners /\ nextId' = nextId /\ Resume(t, AfterRemoval(empty), j)
  BY DEF remove_peer_in_room, Step, DropPeer
<1>2. job[t].room \in Rooms /\ job[t] \in Job
  BY OldIds DEF Job
<1>3. j \in Job /\ j.ids = closed
  BY <1>2, ClosedIds DEF Job
<1>4. AfterRemoval(empty) \in Points /\ AfterRemoval(empty) # "pass1"
  BY DEF AfterRemoval, Points
<1>5. (\A i \in j.ids : i < nextId) /\ (\A x \in producers' : x.id \notin j.ids)
  BY <1>1, <1>3, ClosedGone
<1>6. producers' \subseteq producers
  BY <1>1 DEF NotOf
<1> HIDE DEF j, empty
<1> QED BY <1>1, <1>3, <1>4, <1>5, <1>6, DropOwned

\* remove_peer over all rooms drops the producers whose ids it will announce.
LEMMA RemoveGlobalOwned == ASSUME IInv, OInv, NEW t \in Tasks, remove_peer_global(t) PROVE OInv'
<1> DEFINE r == Shard(t)
           empty == IF peers[r] = {job[t].peer} THEN job[t].emptied \cup {r} ELSE job[t].emptied
           rest == job[t].todo \ {r}
           closed == ClosedMedia(r, job[t].peer)
           at == IF rest = {} THEN AfterRemoval(empty) ELSE "global"
           j == [job[t] EXCEPT !.ids = @ \cup closed, !.emptied = empty,
                               !.todo = IF rest = {} THEN empty ELSE rest]
<1>1. /\ pc[t] = "global" /\ producers' = NotOf(producers, r, job[t].peer)
      /\ owners' = owners /\ nextId' = nextId /\ Resume(t, at, j)
  BY DEF remove_peer_global, Step, DropPeer
<1>2. r \in Rooms /\ job[t] \in Job
  BY StepFacts DEF remove_peer_global, Points
<1>3. j \in Job /\ j.ids = job[t].ids \cup closed
  BY <1>2, ClosedIds DEF Job
<1>4. at \in Points /\ at # "pass1"
  BY DEF AfterRemoval, Points
<1>5. producers' \subseteq producers
  BY <1>1 DEF NotOf
<1>6. \A x \in producers : x.id \notin job[t].ids
  BY <1>1 DEF OInv, IdsFit, IdsGone
<1>7. (\A i \in closed : i < nextId) /\ (\A x \in producers' : x.id \notin closed)
  BY <1>1, ClosedGone
<1>8. (\A i \in j.ids : i < nextId) /\ (\A x \in producers' : x.id \notin j.ids)
  BY <1>3, <1>5, <1>6, <1>7, OldIds
<1> HIDE DEF j, at
<1> QED BY <1>1, <1>3, <1>4, <1>5, <1>8, DropOwned

\* Removing an emptied room only shrinks the set of live producers.
LEMMA RemoveEmptiedOwned == ASSUME IInv, OInv, NEW t \in Tasks, RemoveEmptied(t) PROVE OInv'
<1> DEFINE rest == job[t].todo \ {Shard(t)}
           j == [job[t] EXCEPT !.todo = rest]
<1>1. /\ pc[t] = "emptied" /\ producers' \subseteq producers
      /\ owners' = owners /\ nextId' = nextId /\ Resume(t, AfterRemoval(rest), j)
  BY DEF RemoveEmptied, Step, remove_room, NotIn
<1>2. j \in Job /\ j.ids = job[t].ids
  BY OldIds DEF Job
<1>3. AfterRemoval(rest) \in Points /\ AfterRemoval(rest) # "pass1"
  BY DEF AfterRemoval, Points
<1>4. \A x \in producers : x.id \notin job[t].ids
  BY <1>1 DEF OInv, IdsFit, IdsGone
<1> HIDE DEF j, rest
<1> QED BY <1>1, <1>2, <1>3, <1>4, OldIds, DropOwned

\* Ids leave producer_owners only when no producer has them any more.
LEMMA DisownOwned ==
  ASSUME IInv, OInv, NEW t \in Tasks, announce_producers_closed(t) \/ Disown(t)
  PROVE  OInv'
<1>1. /\ pc[t] \in {"announce", "disown"} /\ producers' = producers /\ nextId' = nextId
      /\ owners' \subseteq owners
      /\ \A e \in owners : e[1] \notin job[t].ids => e \in owners'
      /\ \E at \in {"snapshot", "idle", "check"} : Resume(t, at, job[t])
  BY DEF announce_producers_closed, Disown, Step, registry, Goto
<1>2. PICK at \in {"snapshot", "idle", "check"} : Resume(t, at, job[t])
  BY <1>1
<1>3. \A x \in producers : x.id \notin job[t].ids
  BY <1>1 DEF OInv, IdsFit, IdsGone
<1>4. \A x \in producers', o \in Owners : <<x.id, o>> \in owners => <<x.id, o>> \in owners'
  BY <1>1, <1>3
<1>5. at \in Points /\ at \notin IdsGone /\ at # "pass1"
  BY DEF Points, IdsGone
<1>6. \A e \in owners' : e[1] < nextId'
  BY <1>1, OldIds
<1> QED BY <1>1, <1>2, <1>4, <1>5, <1>6, OldIds, OwnedAssemble

\* The ids a reclaim works from were given out before: none can be reused.
LEMMA SnapshotOwned == ASSUME IInv, OInv, NEW t \in Tasks, Snapshot(t) PROVE OInv'
<1> DEFINE mine == OwnedBy(job[t].key)
           at == IF mine = {} THEN "check" ELSE "pass1"
           j == [job[t] EXCEPT !.ids = mine, !.todo = Rooms]
<1>1. /\ pc[t] # "own" /\ producers' = producers
      /\ owners' = owners /\ nextId' = nextId /\ Resume(t, at, j)
  BY DEF Snapshot, Step, registry
<1>2. mine \subseteq Ids /\ \A i \in mine : i < nextId
  BY OldIds DEF OwnedBy, IInv, TypeOK
<1>3. j \in Job /\ j.ids = mine /\ j.todo = Rooms
  BY <1>2, OldIds DEF Job
<1>4. at \in Points /\ at \notin IdsGone
  BY DEF Points, IdsGone
<1>5. \A x \in producers : x.room \in Rooms
  BY DEF IInv, TypeOK, Producer
<1> HIDE DEF j, at, mine
<1> QED BY <1>1, <1>2, <1>3, <1>4, <1>5, DropOwned

\* The first pass has dropped the producers of the rooms it has left.
LEMMA PassesOwned ==
  ASSUME IInv, OInv, NEW t \in Tasks, remove_producers_by_ids(t) \/ ReapDataConsumers(t)
  PROVE  OInv'
<1> DEFINE r == Shard(t)
           rest == job[t].todo \ {r}
<1>1. CASE remove_producers_by_ids(t)
  <2> DEFINE at == IF rest = {} THEN "pass2" ELSE "pass1"
             j == [job[t] EXCEPT !.todo = IF rest = {} THEN Rooms ELSE rest]
  <2>1. /\ pc[t] = "pass1" /\ owners' = owners /\ nextId' = nextId /\ Resume(t, at, j)
        /\ producers' = {x \in producers : ~ (x.room = r /\ x.id \in job[t].ids)}
    BY <1>1 DEF remove_producers_by_ids, Step
  <2>2. j \in Job /\ j.ids = job[t].ids /\ (rest # {} => j.todo = rest)
    BY OldIds DEF Job
  <2>3. \A x \in producers : x.id \in job[t].ids => x.room \in job[t].todo
    BY <2>1 DEF OInv, IdsFit
  <2>4. \A x \in producers' : x.id \in j.ids => x.room \in rest
    BY <2>1, <2>2, <2>3
  <2>5. at \in Points
    BY DEF Points
  <2>6. /\ at \in IdsGone => \A x \in producers' : x.id \notin j.ids
        /\ at = "pass1" => \A x \in producers' : x.id \in j.ids => x.room \in j.todo
    BY <2>2, <2>4 DEF IdsGone
  <2>7. producers' \subseteq producers
    BY <2>1
  <2> HIDE DEF j, at
  <2> QED BY <2>1, <2>2, <2>5, <2>6, <2>7, OldIds, DropOwned
<1>2. CASE ReapDataConsumers(t)
  <2> DEFINE at == IF rest = {} THEN "disown" ELSE "pass2"
             j == [job[t] EXCEPT !.todo = rest]
  <2>1. /\ pc[t] = "pass2" /\ owners' = owners /\ nextId' = nextId /\ Resume(t, at, j)
        /\ producers' = producers
    BY <1>2 DEF ReapDataConsumers, Step
  <2>2. j \in Job /\ j.ids = job[t].ids
    BY OldIds DEF Job
  <2>3. \A x \in producers : x.id \notin job[t].ids
    BY <2>1 DEF OInv, IdsFit, IdsGone
  <2>4. at \in Points /\ at # "pass1"
    BY DEF Points
  <2> HIDE DEF j, at
  <2> QED BY <2>1, <2>2, <2>3, <2>4, OldIds, DropOwned
<1> QED BY <1>1, <1>2

\* Ownership is preserved by every step of every task.
LEMMA NextOInv == IInv /\ OInv /\ [Next]_vars => OInv'
<1> SUFFICES ASSUME IInv, OInv, [Next]_vars PROVE OInv'
  OBVIOUS
<1>1. ASSUME producers' = producers, owners' = owners, job' = job, pc' = pc, nextId' = nextId
      PROVE  OInv'
  BY <1>1 DEF OInv, Fresh, UniqueIds, IdsFit, LiveProducerOwned
<1>2. CASE UNCHANGED vars
  BY <1>1, <1>2 DEF vars, registry
<1>3. ASSUME NEW t \in Tasks, Block(t) PROVE OInv'
  BY <1>1, <1>3 DEF Block, registry
<1>4. ASSUME NEW t \in Tasks, Begin(t) PROVE OInv'
  BY <1>4, BeginOwned
<1>5. ASSUME NEW t \in Tasks, Serve(t) PROVE OInv'
  BY <1>5, QuietOwned, CreateProducerOwned, RegisterOwned, RemoveInRoomOwned, RemoveGlobalOwned,
     RemoveEmptiedOwned, DisownOwned, SnapshotOwned, PassesOwned DEF Serve
<1> QED BY <1>2, <1>3, <1>4, <1>5 DEF Next

\* No producer of the registry is without an owner in producer_owners, except while its own
\* handler is about to register it, whatever removals, reclaims and announcements race with it.
THEOREM LiveProducerOwnedHolds == Spec => []LiveProducerOwned
<1>1. OInv => LiveProducerOwned BY DEF OInv
<1> QED BY <1>1, Inductive, InitOInv, NextOInv, PTL DEF Spec
=============================================================================
