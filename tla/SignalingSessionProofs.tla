----------------------- MODULE SignalingSessionProofs -----------------------
(***************************************************************************)
(* Proofs about SignalingSession, for every set of connections, devices,   *)
(* rooms and requests and every ticket capacity.                           *)
(***************************************************************************)
EXTENDS SignalingSession, FiniteSetTheorems, WellFoundedInduction, TLAPS

USE NoneAssumption DEF connVars, roomVars, regVars, tickVars, histVars

\* Case split used by every step proof: a step is one of the actions below.
LEMMA NextCases ==
    ASSUME Next
    PROVE  \/ \E c \in Conns :
                 \/ \E n \in Nat : ResumeHit(c, n)
                 \/ TakeOver(c) \/ FullJoin(c) \/ Gate(c) \/ SkipJoin(c) \/ RoomFull(c)
                 \/ join_room(c) \/ Bind(c) \/ IssueTicket(c) \/ NoTicket(c) \/ End(c)
                 \/ HoldExpire(c) \/ Reclaim(c) \/ Leave(c) \/ Teardown(c)
                 \/ StatusReport(c)
                 \/ \E r \in Rooms : Produce(c, r) \/ DownstreamGone(c, r)
           \/ \E p \in Conns : kick_peer(p)
           \/ \E r \in Rooms : remove_room(r)
BY DEF Next, TaskStep, ClientStep, AdminStep

\* Updating the fields of a cleanup job gives a cleanup job.
LEMMA JobUpdates ==
    /\ \A j \in Job, s \in Stages : [j EXCEPT !.stage = s] \in Job
    /\ \A j \in Job, s \in Stages, n \in Nat : [j EXCEPT !.stage = s, !.seq = n] \in Job
    /\ \A j \in Job, s \in Stages, b \in BOOLEAN : [j EXCEPT !.stage = s, !.gone = b] \in Job
    /\ \A p \in Conns, r \in Rooms : StartDisconnect(p, r) \in Job
BY DEF Job, StartDisconnect, Stages

\* The tables hold only what the types in TypeOK allow.
LEMMA TypeStep == TypeOK /\ [Next]_vars => TypeOK'
<1> SUFFICES ASSUME TypeOK, [Next]_vars PROVE TypeOK'
    OBVIOUS
<1>1. CASE UNCHANGED vars
    BY <1>1 DEF TypeOK, vars
<1>2. ASSUME NEW c \in Conns, NEW n \in Nat, ResumeHit(c, n) PROVE TypeOK'
    BY <1>2 DEF ResumeHit, TypeOK, HeldFor, Ticket, Burn, Phases
<1>3. ASSUME NEW c \in Conns, TakeOver(c) PROVE TypeOK'
    BY <1>3 DEF TakeOver, TypeOK, HeldFor, Ticket, Burn, StartDisconnect, Job, Stages, Phases, Request
<1>4. ASSUME NEW c \in Conns, FullJoin(c) PROVE TypeOK'
    BY <1>4 DEF FullJoin, TypeOK, Phases
<1>5. ASSUME NEW c \in Conns, Gate(c) PROVE TypeOK'
    BY <1>5 DEF Gate, TypeOK, Phases
<1>6. ASSUME NEW c \in Conns, SkipJoin(c) \/ RoomFull(c) \/ NoTicket(c) PROVE TypeOK'
    BY <1>6 DEF SkipJoin, RoomFull, NoTicket, TypeOK, Phases
<1>7. ASSUME NEW c \in Conns, join_room(c) PROVE TypeOK'
    <2> DEFINE r == req[c].room
    <2>1. /\ r \in Rooms /\ peer[c] \in Conns
          /\ phase' \in [Conns -> Phases]
          /\ UNCHANGED <<req, peer, resumed_from, job, tickVars, regVars, histVars>>
        BY <1>7 DEF join_room, TypeOK, Phases, Request
    <2>2. /\ host' \in [Rooms -> Conns \cup {None}]
          /\ remote' \in [Rooms -> Conns \cup {None}]
        BY <1>7, <2>1 DEF join_room, TypeOK
    <2>3. consumers' \in [Rooms -> SUBSET Conns]
        BY <1>7, <2>1 DEF join_room, TypeOK
    <2> QED
        BY <2>1, <2>2, <2>3 DEF TypeOK
<1>8. ASSUME NEW c \in Conns, Bind(c) PROVE TypeOK'
    BY <1>8 DEF Bind, TypeOK, Phases, Request
<1>9. ASSUME NEW c \in Conns, IssueTicket(c) PROVE TypeOK'
    <2>1. TableAfterIssue(c) \subseteq Ticket
        BY <1>9 DEF IssueTicket, TableAfterIssue, prune_resume, HeldFor, TypeOK, Ticket, Request
    <2>2. abandoned' \subseteq Conns
        BY <1>9 DEF IssueTicket, TypeOK, Ticket
    <2> QED
        BY <1>9, <2>1, <2>2 DEF IssueTicket, TypeOK, Phases
<1>10. ASSUME NEW c \in Conns, NEW r \in Rooms, Produce(c, r) PROVE TypeOK'
    BY <1>10 DEF Produce, OwnerKey, TypeOK, Producer
<1>11. ASSUME NEW c \in Conns, NEW r \in Rooms, DownstreamGone(c, r) PROVE TypeOK'
    BY <1>11 DEF DownstreamGone, DeferredCleanup, TypeOK
<1>12. ASSUME NEW c \in Conns, StatusReport(c) PROVE TypeOK'
    BY <1>12 DEF StatusReport, TypeOK, Request
<1>13. ASSUME NEW c \in Conns, End(c) PROVE TypeOK'
    <2>1. \A t \in RetainedTicket(c) : t.seq \in Nat
        BY DEF RetainedTicket, HeldFor, TypeOK, Ticket
    <2>2. peer[c] \in Conns /\ req[c].room \in Rooms /\ "held" \in Stages
        BY DEF TypeOK, Request, Stages
    <2> DEFINE j == StartDisconnect(peer[c], req[c].room)
    <2>3. job' \in [Conns -> Job]
        <3>1. j \in Job
            BY <2>2, JobUpdates
        <3>2. \A t \in RetainedTicket(c) : [j EXCEPT !.stage = "held", !.seq = t.seq] \in Job
            BY <2>1, <2>2, <3>1, JobUpdates
        <3>3. \E x \in Job : job' = [job EXCEPT ![c] = x]
            BY <1>13, <3>1, <3>2 DEF End
        <3> HIDE DEF j
        <3> QED
            BY <3>3 DEF TypeOK
    <2> QED
        BY <1>13, <2>3 DEF End, TypeOK, Phases
<1>14. ASSUME NEW c \in Conns, HoldExpire(c) PROVE TypeOK'
    <2>1. job' \in [Conns -> Job]
        BY <1>14, JobUpdates DEF HoldExpire, TypeOK, Stages
    <2> QED
        BY <1>14, <2>1 DEF HoldExpire, TypeOK
<1>15. ASSUME NEW c \in Conns, Reclaim(c) PROVE TypeOK'
    <2>1. job' \in [Conns -> Job]
        BY <1>15, JobUpdates DEF Reclaim, TypeOK, Stages
    <2> QED
        BY <1>15, <2>1 DEF Reclaim, DeferredCleanup, TypeOK
<1>16. ASSUME NEW c \in Conns, Leave(c) PROVE TypeOK'
    <2>1. /\ host' \in [Rooms -> Conns \cup {None}]
          /\ remote' \in [Rooms -> Conns \cup {None}]
          /\ consumers' \in [Rooms -> SUBSET Conns]
        BY <1>16 DEF Leave, leave_room, TypeOK, Job
    <2>2. device_bindings' \in [Conns -> Devices \cup {None}]
        BY <1>16 DEF Leave, TypeOK, Job
    <2>3. job' \in [Conns -> Job]
        <3>1. (Members(job[c].room) \ {job[c].peer} = {}) \in BOOLEAN
            OBVIOUS
        <3> QED
            BY <1>16, <3>1, JobUpdates DEF Leave, TypeOK, Stages
    <2> QED
        BY <1>16, <2>1, <2>2, <2>3 DEF Leave, TypeOK
<1>17. ASSUME NEW c \in Conns, Teardown(c) PROVE TypeOK'
    BY <1>17 DEF Teardown, TypeOK, Job, Stages, Phases
<1>18. ASSUME NEW p \in Conns, kick_peer(p) PROVE TypeOK'
    BY <1>18 DEF kick_peer, TypeOK
<1>19. ASSUME NEW r \in Rooms, remove_room(r) PROVE TypeOK'
    BY <1>19 DEF remove_room, Members, TypeOK
<1> QED
    BY <1>1, <1>2, <1>3, <1>4, <1>5, <1>6, <1>7, <1>8, <1>9, <1>10, <1>11, <1>12, <1>13,
       <1>14, <1>15, <1>16, <1>17, <1>18, <1>19, NextCases DEF vars

\* Type correctness, from any set of requests the clients may send.
THEOREM TypeCorrect == Spec => []TypeOK
<1>1. Init => TypeOK
    BY RequestsAssumption DEF Init, TypeOK, Phases, Job, Stages, Request
<1> QED
    BY <1>1, TypeStep, PTL DEF Spec

-----------------------------------------------------------------------------
(* The program counters, the jobs and the tickets agree. *)

Core == TypeOK /\ ControlInv /\ TicketInv

\* ControlInv and TicketInv are preserved by every step of every task.
LEMMA CoreStep == Core /\ [Next]_vars => ControlInv' /\ TicketInv'
<1> SUFFICES ASSUME TypeOK, ControlInv, TicketInv, [Next]_vars
             PROVE  ControlInv' /\ TicketInv'
    BY DEF Core
<1> USE DEF Resumed, TaskControl
<1>1. CASE UNCHANGED vars
    BY <1>1 DEF ControlInv, TicketInv, vars
<1>2. ASSUME NEW c \in Conns, NEW n \in Nat, ResumeHit(c, n) PROVE ControlInv' /\ TicketInv'
    <2>1. PICK t \in resume_table : /\ t.seq = n /\ t.room = req[c].room /\ t.peer \in Conns
                                    /\ resume_table' = resume_table \ {t}
                                    /\ peer' = [peer EXCEPT ![c] = t.peer]
        BY <1>2 DEF ResumeHit, HeldFor, Burn, TypeOK, Ticket
    <2>2. ControlInv'
        BY <1>2, <2>1 DEF ResumeHit, ControlInv, TicketInv, TypeOK
    <2>3. TicketInv'
        BY <1>2, <2>1 DEF ResumeHit, TicketInv, TypeOK, Ticket
    <2> QED
        BY <2>2, <2>3
<1>3. ASSUME NEW c \in Conns, TakeOver(c) PROVE ControlInv' /\ TicketInv'
    <2>1. PICK t \in resume_table : /\ t.room = req[c].room /\ t.peer \in Conns
                                    /\ resume_table' = resume_table \ {t}
                                    /\ job' = [job EXCEPT ![c] = StartDisconnect(t.peer, req[c].room)]
        BY <1>3 DEF TakeOver, HeldFor, Burn, TypeOK, Ticket
    <2>2. ControlInv'
        BY <1>3, <2>1 DEF TakeOver, StartDisconnect, ControlInv, TicketInv, TypeOK
    <2>3. TicketInv'
        BY <1>3, <2>1 DEF TakeOver, StartDisconnect, TicketInv, TypeOK, Ticket
    <2> QED
        BY <2>2, <2>3
<1>4. ASSUME NEW c \in Conns,
             FullJoin(c) \/ Gate(c) \/ SkipJoin(c) \/ RoomFull(c) \/ join_room(c) \/ Bind(c)
             \/ NoTicket(c)
      PROVE  ControlInv' /\ TicketInv'
    <2>1. /\ UNCHANGED <<req, peer, resumed_from, job, tickVars>>
          /\ phase[c] \in {"idle", "gate", "join", "bind", "ticket"}
          /\ \E ph \in Phases \ {"idle", "takeover"} : phase' = [phase EXCEPT ![c] = ph]
        BY <1>4 DEF FullJoin, Gate, SkipJoin, RoomFull, join_room, Bind, NoTicket, Phases
    <2>2. ControlInv'
        BY <2>1 DEF ControlInv, TypeOK
    <2>3. TicketInv'
        BY <2>1 DEF TicketInv
    <2> QED
        BY <2>2, <2>3
<1>5. ASSUME NEW c \in Conns, IssueTicket(c) PROVE ControlInv' /\ TicketInv'
    <2> DEFINE new == [id |-> req[c].id, room |-> req[c].room, peer |-> peer[c], seq |-> resume_seq]
    <2>1. \A t \in resume_table' : t \in resume_table \/ t = new
        BY <1>5 DEF IssueTicket, TableAfterIssue, prune_resume
    <2>2. ControlInv'
        BY <1>5 DEF IssueTicket, ControlInv, TypeOK
    <2>3. TicketInv'
        <3>1. /\ resume_seq' = resume_seq + 1
              /\ resume_seq \in Nat
              /\ UNCHANGED <<req, peer, resumed_from, job>>
            BY <1>5 DEF IssueTicket, TypeOK
        <3>2. \A t \in resume_table : t.seq \in Nat
            BY DEF TypeOK, Ticket
        <3>3. req[peer[c]].room = req[c].room
            BY DEF ControlInv
        <3>4. /\ \A x \in Conns : resumed_from[x] # resume_seq
              /\ \A x \in Conns : job[x].stage = "held" => job[x].seq # resume_seq
              /\ \A x \in Conns : job[x].seq \in Nat
              /\ \A x \in Conns : resumed_from[x] \in Nat \cup {None}
            BY DEF TicketInv, TypeOK, Job
        <3> QED
            BY <2>1, <3>1, <3>2, <3>3, <3>4 DEF TicketInv
    <2> QED
        BY <2>2, <2>3
<1>6. ASSUME NEW c \in Conns, End(c) PROVE ControlInv' /\ TicketInv'
    <2> DEFINE j == StartDisconnect(peer[c], req[c].room)
    <2>1. /\ UNCHANGED <<req, peer, resumed_from, tickVars>>
          /\ phase[c] = "live"
          /\ phase' = [phase EXCEPT ![c] = "ended"]
        BY <1>6 DEF End
    <2>2. \A t \in RetainedTicket(c) : /\ t \in resume_table /\ t.seq \in Nat
                                       /\ t.id = req[c].id /\ t.room = req[c].room
                                       /\ t.peer = peer[c]
        BY DEF RetainedTicket, HeldFor, TypeOK, Ticket
    <2>3. \/ job' = [job EXCEPT ![c] = j]
          \/ \E t \in RetainedTicket(c) :
                job' = [job EXCEPT ![c] = [j EXCEPT !.stage = "held", !.seq = t.seq]]
        BY <1>6 DEF End
    <2>4. /\ job'[c].room = req[c].room
          /\ job'[c].peer = peer[c]
          /\ job'[c].stage \in {"held", "reclaim"}
          /\ job'[c].stage = "held" => \E t \in RetainedTicket(c) : job'[c].seq = t.seq
          /\ \A x \in Conns \ {c} : job'[x] = job[x]
        <3>1. CASE job' = [job EXCEPT ![c] = j]
            BY <3>1 DEF StartDisconnect, TypeOK
        <3>2. ASSUME NEW t \in RetainedTicket(c),
                     job' = [job EXCEPT ![c] = [j EXCEPT !.stage = "held", !.seq = t.seq]]
              PROVE  <2>4
            BY <3>2 DEF StartDisconnect, TypeOK
        <3> QED
            BY <2>3, <3>1, <3>2
    <2>5. ControlInv'
        BY <2>1, <2>4 DEF ControlInv, TypeOK
    <2>6. TicketInv'
        BY <2>1, <2>2, <2>4 DEF TicketInv, TypeOK
    <2> QED
        BY <2>5, <2>6
<1>7. ASSUME NEW c \in Conns, HoldExpire(c) PROVE ControlInv' /\ TicketInv'
    <2>1. /\ UNCHANGED <<phase, req, peer, resumed_from, resume_seq>>
          /\ resume_table' \subseteq resume_table
          /\ job'[c].room = job[c].room
          /\ job'[c].peer = job[c].peer
          /\ job'[c].stage \in {"none", "reclaim"}
          /\ job[c].stage = "held"
          /\ \A x \in Conns \ {c} : job'[x] = job[x]
        BY <1>7 DEF HoldExpire, TypeOK, Job
    <2>2. ControlInv'
        <3>1. TaskControl(c)'
            BY <2>1 DEF ControlInv
        <3>2. \A x \in Conns \ {c} : TaskControl(x)'
            BY <2>1 DEF ControlInv
        <3> QED
            BY <3>1, <3>2 DEF ControlInv
    <2>3. TicketInv'
        BY <2>1 DEF TicketInv, TypeOK
    <2> QED
        BY <2>2, <2>3
<1>8. ASSUME NEW c \in Conns, Reclaim(c) \/ Leave(c) PROVE ControlInv' /\ TicketInv'
    <2>1. /\ UNCHANGED <<phase, req, peer, resumed_from, tickVars>>
          /\ job'[c].room = job[c].room
          /\ job'[c].peer = job[c].peer
          /\ job'[c].stage \in {"leave", "teardown"}
          /\ job[c].stage \in {"reclaim", "leave"}
          /\ \A x \in Conns \ {c} : job'[x] = job[x]
        <3>1. CASE Reclaim(c)
            BY <3>1 DEF Reclaim, TypeOK, Job
        <3>2. CASE Leave(c)
            BY <3>2 DEF Leave, TypeOK, Job
        <3> QED
            BY <1>8, <3>1, <3>2
    <2>2. ControlInv'
        <3>1. TaskControl(c)'
            BY <2>1 DEF ControlInv
        <3>2. \A x \in Conns \ {c} : TaskControl(x)'
            BY <2>1 DEF ControlInv
        <3> QED
            BY <3>1, <3>2 DEF ControlInv
    <2>3. TicketInv'
        BY <2>1 DEF TicketInv, TypeOK
    <2> QED
        BY <2>2, <2>3
<1>9. ASSUME NEW c \in Conns, Teardown(c) PROVE ControlInv' /\ TicketInv'
    <2>1. /\ UNCHANGED <<req, peer, resumed_from, tickVars>>
          /\ job'[c].room = job[c].room
          /\ job'[c].peer = job[c].peer
          /\ job'[c].stage = "none"
          /\ job[c].stage = "teardown"
          /\ \A x \in Conns \ {c} : job'[x] = job[x]
          /\ phase' = [phase EXCEPT ![c] = IF @ = "takeover" THEN "gate" ELSE @]
        BY <1>9 DEF Teardown, TypeOK, Job
    <2>2. ControlInv'
        BY <2>1 DEF ControlInv, TypeOK
    <2>3. TicketInv'
        BY <2>1 DEF TicketInv, TypeOK
    <2> QED
        BY <2>2, <2>3
<1>10. ASSUME UNCHANGED <<connVars, tickVars>> PROVE ControlInv' /\ TicketInv'
    BY <1>10 DEF ControlInv, TicketInv
<1>11. ASSUME \/ \E c \in Conns, r \in Rooms : Produce(c, r) \/ DownstreamGone(c, r)
              \/ \E c \in Conns : StatusReport(c)
              \/ \E p \in Conns : kick_peer(p)
              \/ \E r \in Rooms : remove_room(r)
       PROVE  UNCHANGED <<connVars, tickVars>>
    BY <1>11 DEF Produce, DownstreamGone, StatusReport, kick_peer, remove_room
<1> QED
    BY <1>1, <1>2, <1>3, <1>4, <1>5, <1>6, <1>7, <1>8, <1>9, <1>10, <1>11, NextCases

\* Types, control and tickets are as required when the server starts.
LEMMA CoreInit == Init => Core
BY RequestsAssumption
DEF Init, Core, TypeOK, ControlInv, TaskControl, TicketInv, Resumed, Phases, Job, Stages, Request

\* Types, control and tickets hold in every reachable state.
LEMMA CoreInvariant == Spec => []Core
<1>1. Core /\ [Next]_vars => Core'
    BY TypeStep, CoreStep DEF Core
<1> QED
    BY <1>1, CoreInit, PTL DEF Spec

-----------------------------------------------------------------------------

\* Whatever the interleaving of re-attaches, rotations, takeovers and
\* evictions, no two connections ever re-attach with the same nonce.
THEOREM NonceOneShotHolds == Spec => []NonceOneShot
<1>1. Init => NonceOneShot
    BY DEF Init, NonceOneShot, Resumed
<1>2. Core /\ NonceOneShot /\ [Next]_vars => NonceOneShot'
    <2> SUFFICES ASSUME Core, NonceOneShot, [Next]_vars PROVE NonceOneShot'
        OBVIOUS
    <2>1. ASSUME NEW c \in Conns, NEW n \in Nat, ResumeHit(c, n) PROVE NonceOneShot'
        <3>1. \A x \in Conns : resumed_from[x] # n
            BY <2>1 DEF ResumeHit, HeldFor, Core, TicketInv
        <3> QED
            BY <2>1, <3>1 DEF ResumeHit, NonceOneShot, Resumed, Core, TypeOK
    <2>2. CASE UNCHANGED resumed_from
        BY <2>2 DEF NonceOneShot, Resumed
    <2>3. \/ \E c \in Conns, n \in Nat : ResumeHit(c, n)
          \/ UNCHANGED resumed_from
        BY NextCases
        DEF vars, TakeOver, FullJoin, Gate, SkipJoin, RoomFull, join_room, Bind, IssueTicket,
            NoTicket, End, HoldExpire, Reclaim, Leave, Teardown, StatusReport, Produce,
            DownstreamGone, kick_peer, remove_room
    <2> QED
        BY <2>1, <2>2, <2>3
<1> QED
    BY <1>1, <1>2, CoreInvariant, PTL DEF Spec

-----------------------------------------------------------------------------
(* The bound on the ticket table. *)

\* A nonempty set of naturals has a least element.
LEMMA MinNat == ASSUME NEW S, S \subseteq Nat, S # {}
                PROVE  \E n \in S : \A m \in S : n <= m
<1> DEFINE R == OpToRel(<, Nat)
<1>1. IsWellFoundedOn(R, Nat)
    BY NatLessThanWellFounded
<1>2. \E x \in S : \A y \in S : ~(<<y, x>> \in R)
    <2> HIDE DEF R
    <2> QED BY <1>1, WFMin
<1>3. \A x, y \in Nat : <<y, x>> \in R <=> y < x
    BY DEF OpToRel
<1>4. PICK x \in S : \A y \in S : ~(<<y, x>> \in R)
    BY <1>2
<1>5. \A y \in S : ~(y < x)
    <2> HIDE DEF R
    <2> QED BY <1>3, <1>4
<1> QED
    BY <1>5

\* prune_resume has an entry to evict whenever the table is not empty.
LEMMA OldestIn == ASSUME NEW T, T \subseteq Ticket, T # {}
                  PROVE  Oldest(T) \in T
<1> DEFINE S == {t.seq : t \in T}
<1>1. S \subseteq Nat /\ S # {}
    BY DEF Ticket
<1>2. \E n \in S : \A m \in S : n <= m
    <2> HIDE DEF S
    <2> QED BY <1>1, MinNat
<1>3. \E t \in T : \A u \in T : t.seq <= u.seq
    BY <1>2
<1> QED
    BY <1>3 DEF Oldest

\* Evicting at most one entry per insertion keeps a bounded table bounded.
LEMMA PruneBound ==
    ASSUME NEW T, NEW new, T \subseteq Ticket, new \in Ticket,
           IsFiniteSet(T), Cardinality(T) <= Cap
    PROVE  LET P == prune_resume(T \cup {new})
           IN  P \subseteq T \cup {new} /\ IsFiniteSet(P) /\ Cardinality(P) <= Cap
<1> DEFINE U == T \cup {new}
<1> USE CapAssumption
<1>1. /\ IsFiniteSet(U)
      /\ Cardinality(T) \in Nat
      /\ Cardinality(U) \in Nat
      /\ Cardinality(U) <= Cardinality(T) + 1
    BY FS_AddElement, FS_CardinalityType
<1>2. CASE Cardinality(U) > Cap
    <2>1. Oldest(U) \in U
        BY OldestIn
    <2>2. IsFiniteSet(U \ {Oldest(U)}) /\ Cardinality(U \ {Oldest(U)}) = Cardinality(U) - 1
        <3> HIDE DEF U
        <3> QED BY <1>1, <2>1, FS_RemoveElement
    <2> HIDE DEF U
    <2>3. prune_resume(U) = U \ {Oldest(U)}
        BY <1>2 DEF prune_resume
    <2>4. Cardinality(U) - 1 <= Cap
        BY <1>1
    <2>5. prune_resume(U) \subseteq U /\ IsFiniteSet(prune_resume(U)) /\ Cardinality(prune_resume(U)) <= Cap
        BY <2>2, <2>3, <2>4
    <2> QED
        BY <2>5 DEF U
<1>3. CASE ~(Cardinality(U) > Cap)
    <2>1. prune_resume(U) = U
        BY <1>3 DEF prune_resume
    <2> QED
        BY <1>1, <1>3, <2>1
<1> QED
    BY <1>2, <1>3

\* The table never outgrows RESUME_GLOBAL_CAP and never holds two tickets for
\* one (identity, room), whatever the number of vehicles and sessions.
THEOREM TicketsBoundedHolds == Spec => []TicketsBounded
<1> DEFINE Inv == IsFiniteSet(resume_table) /\ TicketsBounded
<1>1. Init => Inv
    BY FS_EmptySet, CapAssumption DEF Init, TicketsBounded
<1>2. TypeOK /\ Inv /\ [Next]_vars => Inv'
    <2> SUFFICES ASSUME TypeOK, Inv, [Next]_vars PROVE Inv'
        OBVIOUS
    <2>1. ASSUME resume_table' \subseteq resume_table PROVE Inv'
        <3>1. IsFiniteSet(resume_table') /\ Cardinality(resume_table') <= Cardinality(resume_table)
            BY <2>1, FS_Subset
        <3>2. Cardinality(resume_table') \in Nat /\ Cardinality(resume_table) \in Nat
            BY <3>1, FS_CardinalityType
        <3> QED
            BY <2>1, <3>1, <3>2, CapAssumption DEF TicketsBounded
    <2>2. ASSUME NEW c \in Conns, IssueTicket(c) PROVE Inv'
        <3> DEFINE T   == resume_table \ HeldFor(req[c].id, req[c].room)
                   new == [id |-> req[c].id, room |-> req[c].room, peer |-> peer[c], seq |-> resume_seq]
        <3>1. T \subseteq Ticket /\ new \in Ticket
            BY <2>2 DEF IssueTicket, TypeOK, Ticket, Request
        <3>2. IsFiniteSet(T) /\ Cardinality(T) <= Cap
            <4>1. IsFiniteSet(T) /\ Cardinality(T) <= Cardinality(resume_table)
                BY FS_Subset
            <4>2. Cardinality(T) \in Nat /\ Cardinality(resume_table) \in Nat
                BY <4>1, FS_CardinalityType
            <4> HIDE DEF T
            <4> QED
                BY <4>1, <4>2, CapAssumption DEF TicketsBounded
        <3>3. resume_table' = prune_resume(T \cup {new})
            BY <2>2 DEF IssueTicket, TableAfterIssue
        <3>4. \A t, u \in T \cup {new} : t.id = u.id /\ t.room = u.room => t = u
            BY DEF TicketsBounded, HeldFor
        <3>5. resume_table' \subseteq T \cup {new} /\ IsFiniteSet(resume_table') /\ Cardinality(resume_table') <= Cap
            <4> HIDE DEF T, new
            <4> QED
                BY <3>1, <3>2, <3>3, PruneBound
        <3> HIDE DEF T, new
        <3> QED
            BY <3>4, <3>5 DEF TicketsBounded
    <2>3. \/ resume_table' \subseteq resume_table
          \/ \E c \in Conns : IssueTicket(c)
        BY NextCases
        DEF vars, ResumeHit, Burn, TakeOver, FullJoin, Gate, SkipJoin, RoomFull, join_room, Bind,
            NoTicket, End, HoldExpire, Reclaim, Leave, Teardown, StatusReport, Produce,
            DownstreamGone, kick_peer, remove_room
    <2> QED
        BY <2>1, <2>2, <2>3
<1> QED
    BY <1>1, <1>2, TypeCorrect, PTL DEF Spec

-----------------------------------------------------------------------------
(* Responsibility for a peer id is handed on and never dropped. *)

\* After the step somebody of the same room keeps p, or p's ticket was lost.
KeptOn(c, p) ==
    \/ p \in abandoned'
    \/ \E x \in Conns : req[x].room = req[c].room /\ Keeps(x, p)'

\* A task that serves a peer id goes on, hands the peer to its own cleanup when
\* the relay loop ends, or loses it at the gate.
LEMMA CarriesStep ==
    ASSUME Core, Next, NEW c \in Conns, NEW p \in Conns, Carries(c, p)
    PROVE  KeptOn(c, p)
<1> USE DEF Resumed
<1>1. ASSUME phase'[c] = phase[c], peer'[c] = peer[c], resumed_from'[c] = resumed_from[c]
      PROVE  KeptOn(c, p)
    BY <1>1 DEF KeptOn, Keeps, Carries
<1>2. phase[c] \in {"gate", "join", "bind", "ticket", "live"}
    BY DEF Carries
<1>3. ASSUME NEW z \in Conns, NEW n \in Nat, ResumeHit(z, n) PROVE KeptOn(c, p)
    <2>1. z # c
        BY <1>2, <1>3 DEF ResumeHit
    <2> QED
        BY <1>1, <1>3, <2>1 DEF ResumeHit, Core, TypeOK
<1>4. ASSUME NEW z \in Conns, TakeOver(z) \/ FullJoin(z) PROVE KeptOn(c, p)
    <2>1. z # c
        BY <1>2, <1>4 DEF TakeOver, FullJoin
    <2> QED
        BY <1>1, <1>4, <2>1 DEF TakeOver, FullJoin, Core, TypeOK
<1>5. ASSUME NEW z \in Conns, Gate(z) PROVE KeptOn(c, p)
    <2>1. CASE z = c
        BY <1>5, <2>1 DEF Gate, KeptOn, Keeps, Carries, Core, TypeOK
    <2>2. CASE z # c
        BY <1>1, <1>5, <2>2 DEF Gate, Core, TypeOK
    <2> QED
        BY <2>1, <2>2
<1>6. ASSUME NEW z \in Conns, RoomFull(z) \/ join_room(z) PROVE KeptOn(c, p)
    <2>1. z # c
        BY <1>6 DEF RoomFull, join_room, Carries
    <2> QED
        BY <1>1, <1>6, <2>1 DEF RoomFull, join_room, Core, TypeOK
<1>7. ASSUME NEW z \in Conns, SkipJoin(z) \/ Bind(z) \/ IssueTicket(z) \/ NoTicket(z)
      PROVE  KeptOn(c, p)
    <2>1. /\ UNCHANGED <<peer, resumed_from>>
          /\ \E ph \in {"ticket", "live"} : phase' = [phase EXCEPT ![z] = ph]
        BY <1>7 DEF SkipJoin, Bind, IssueTicket, NoTicket
    <2> QED
        BY <2>1 DEF KeptOn, Keeps, Carries, Core, TypeOK
<1>8. ASSUME NEW z \in Conns, End(z) PROVE KeptOn(c, p)
    <2>1. CASE z = c
        <3> DEFINE j == StartDisconnect(peer[c], req[c].room)
        <3>1. peer[c] = p
            BY DEF Carries
        <3>2. CASE job' = [job EXCEPT ![c] = j]
            BY <3>1, <3>2 DEF StartDisconnect, KeptOn, Keeps, WillReclaim, Core, TypeOK
        <3>3. ASSUME NEW t \in RetainedTicket(c),
                     job' = [job EXCEPT ![c] = [j EXCEPT !.stage = "held", !.seq = t.seq]]
              PROVE  KeptOn(c, p)
            <4>1. t \in resume_table'
                BY <1>8 DEF End, RetainedTicket, HeldFor
            <4>2. job'[c].stage = "held" /\ job'[c].peer = p /\ job'[c].seq = t.seq
                BY <3>1, <3>3 DEF StartDisconnect, Core, TypeOK
            <4> QED
                BY <4>1, <4>2 DEF KeptOn, Keeps, WillReclaim
        <3> QED
            BY <1>8, <2>1, <3>2, <3>3 DEF End
    <2>2. CASE z # c
        BY <1>1, <1>8, <2>2 DEF End, Core, TypeOK
    <2> QED
        BY <2>1, <2>2
<1>9. ASSUME NEW z \in Conns, Teardown(z) PROVE KeptOn(c, p)
    BY <1>1, <1>2, <1>9 DEF Teardown, Core, TypeOK
<1>10. ASSUME UNCHANGED <<phase, peer, resumed_from>> PROVE KeptOn(c, p)
    BY <1>1, <1>10
<1>11. ASSUME NEW z \in Conns, HoldExpire(z) \/ Reclaim(z) \/ Leave(z) \/ StatusReport(z)
                               \/ \E r \in Rooms : Produce(z, r) \/ DownstreamGone(z, r)
       PROVE  KeptOn(c, p)
    BY <1>10, <1>11 DEF HoldExpire, Reclaim, Leave, StatusReport, Produce, DownstreamGone
<1>12. ASSUME (\E q \in Conns : kick_peer(q)) \/ (\E r \in Rooms : remove_room(r))
       PROVE  KeptOn(c, p)
    BY <1>10, <1>12 DEF kick_peer, remove_room
<1> QED
    BY <1>3, <1>4, <1>5, <1>6, <1>7, <1>8, <1>9, <1>11, <1>12, NextCases

\* A running disconnect_session is advanced only by its own task.
LEMMA JobStill ==
    ASSUME Core, Next, NEW c \in Conns, job[c].stage \in {"reclaim", "leave", "teardown"}
    PROVE  job'[c] = job[c] \/ Reclaim(c) \/ Leave(c) \/ Teardown(c)
<1>1. phase[c] \in {"takeover", "ended"}
    BY DEF Core, ControlInv, TaskControl
<1>2. ASSUME NEW z \in Conns, TakeOver(z) \/ End(z) \/ HoldExpire(z) PROVE job'[c] = job[c]
    <2>1. z # c
        BY <1>1, <1>2 DEF TakeOver, End, HoldExpire
    <2> QED
        BY <1>2, <2>1 DEF TakeOver, End, HoldExpire, Core, TypeOK
<1>3. ASSUME NEW z \in Conns, Reclaim(z) \/ Leave(z) \/ Teardown(z), z # c PROVE job'[c] = job[c]
    BY <1>3 DEF Reclaim, Leave, Teardown, Core, TypeOK
<1>4. \/ UNCHANGED job
      \/ \E z \in Conns : TakeOver(z) \/ End(z) \/ HoldExpire(z) \/ Reclaim(z) \/ Leave(z)
                          \/ Teardown(z)
    BY NextCases
    DEF ResumeHit, FullJoin, Gate, SkipJoin, RoomFull, join_room, Bind, IssueTicket,
        NoTicket, StatusReport, Produce, DownstreamGone, kick_peer, remove_room
<1> QED
    BY <1>2, <1>3, <1>4

\* A cleanup that is due runs, or passes to whoever burned its ticket: a
\* re-attaching session, a takeover, or another delayed task with the same note.
LEMMA WillReclaimStep ==
    ASSUME Core, Next, NEW c \in Conns, NEW p \in Conns, WillReclaim(c, p)
    PROVE  KeptOn(c, p) \/ Reclaim(c)
<1> USE DEF Resumed
<1>1. CASE job[c].stage = "reclaim"
    <2>1. phase[c] \in {"takeover", "ended"} /\ job[c].peer = p
        BY <1>1 DEF Core, ControlInv, TaskControl, WillReclaim
    <2>2. job'[c] = job[c] \/ Reclaim(c)
        BY <1>1, JobStill DEF Leave, Teardown
    <2> QED
        BY <1>1, <2>1, <2>2 DEF KeptOn, Keeps, WillReclaim
<1>2. CASE job[c].stage = "held"
    <2>1. PICK t \in resume_table : t.seq = job[c].seq
        BY <1>2 DEF WillReclaim
    <2>2. /\ phase[c] = "ended" /\ job[c].peer = p
          /\ t.id = req[c].id /\ t.room = req[c].room /\ t.peer = p
          /\ t.seq \in Nat
        BY <1>2, <2>1 DEF Core, ControlInv, TaskControl, TicketInv, WillReclaim, TypeOK, Ticket
    <2>3. ASSUME job'[c] = job[c], t \in resume_table' PROVE KeptOn(c, p)
        BY <1>2, <2>1, <2>2, <2>3 DEF KeptOn, Keeps, WillReclaim
    <2>4. ASSUME NEW z \in Conns, NEW n \in Nat, ResumeHit(z, n) PROVE KeptOn(c, p)
        <3>1. PICK u \in resume_table : /\ u.seq = n /\ u.room = req[z].room
                                        /\ resume_table' = resume_table \ {u}
                                        /\ peer' = [peer EXCEPT ![z] = u.peer]
            BY <2>4 DEF ResumeHit, HeldFor, Burn
        <3>2. CASE u = t
            BY <2>2, <2>4, <3>1, <3>2 DEF ResumeHit, KeptOn, Keeps, Carries, Core, TypeOK
        <3>3. CASE u # t
            BY <2>3, <2>4, <3>1, <3>3 DEF ResumeHit
        <3> QED
            BY <3>2, <3>3
    <2>5. ASSUME NEW z \in Conns, TakeOver(z) PROVE KeptOn(c, p)
        <3>1. PICK u \in resume_table : /\ u.room = req[z].room
                                        /\ resume_table' = resume_table \ {u}
                                        /\ job' = [job EXCEPT ![z] = StartDisconnect(u.peer, req[z].room)]
            BY <2>5 DEF TakeOver, HeldFor, Burn
        <3>2. CASE u = t
            BY <2>2, <2>5, <3>1, <3>2 DEF StartDisconnect, KeptOn, Keeps, WillReclaim, Core, TypeOK
        <3>3. CASE u # t
            BY <2>2, <2>3, <2>5, <3>1, <3>3 DEF TakeOver, Core, TypeOK
        <3> QED
            BY <3>2, <3>3
    <2>6. ASSUME NEW z \in Conns, IssueTicket(z) PROVE KeptOn(c, p)
        <3>1. CASE t \in resume_table'
            BY <2>3, <2>6, <3>1 DEF IssueTicket
        <3>2. CASE t \notin resume_table'
            BY <1>2, <2>1, <2>2, <2>6, <3>2 DEF IssueTicket, KeptOn
        <3> QED
            BY <3>1, <3>2
    <2>7. ASSUME NEW z \in Conns, HoldExpire(z) PROVE KeptOn(c, p)
        <3>1. CASE t \in NotedTicket(z)
            <4>1. req[z].room = req[c].room /\ job[z].peer = p
                BY <2>1, <2>2, <2>7, <3>1 DEF HoldExpire, NotedTicket, HeldFor, Core, TicketInv
            <4>2. job'[z].stage = "reclaim" /\ job'[z].peer = p
                BY <2>7, <3>1, <4>1 DEF HoldExpire, Core, TypeOK, Job
            <4> QED
                BY <4>1, <4>2 DEF KeptOn, Keeps, WillReclaim
        <3>2. CASE t \notin NotedTicket(z)
            <4>1. z # c
                BY <2>1, <2>2, <3>2 DEF NotedTicket, HeldFor
            <4> QED
                BY <2>1, <2>3, <2>7, <3>2, <4>1 DEF HoldExpire, Core, TypeOK
        <3> QED
            BY <3>1, <3>2
    <2>8. ASSUME NEW z \in Conns, FullJoin(z) \/ Gate(z) \/ SkipJoin(z) \/ RoomFull(z)
                                   \/ join_room(z) \/ Bind(z) \/ NoTicket(z) \/ StatusReport(z)
                                   \/ \E r \in Rooms : Produce(z, r) \/ DownstreamGone(z, r)
          PROVE  KeptOn(c, p)
        BY <2>1, <2>3, <2>8 DEF FullJoin, Gate, SkipJoin, RoomFull, join_room, Bind, NoTicket,
                                StatusReport, Produce, DownstreamGone
    <2>9. ASSUME NEW z \in Conns, End(z) \/ Reclaim(z) \/ Leave(z) \/ Teardown(z)
          PROVE  KeptOn(c, p)
        <3>1. z # c
            BY <1>2, <2>2, <2>9 DEF End, Reclaim, Leave, Teardown
        <3> QED
            BY <2>1, <2>3, <2>9, <3>1 DEF End, Reclaim, Leave, Teardown, Core, TypeOK
    <2>10. ASSUME (\E q \in Conns : kick_peer(q)) \/ (\E r \in Rooms : remove_room(r))
           PROVE  KeptOn(c, p)
        BY <2>1, <2>3, <2>10 DEF kick_peer, remove_room
    <2> QED
        BY <2>4, <2>5, <2>6, <2>7, <2>8, <2>9, <2>10, NextCases
<1> QED
    BY <1>1, <1>2 DEF WillReclaim

\* A task goes on keeping a peer until it reclaims that very peer.
LEMMA KeepsStep ==
    ASSUME Core, Next, NEW c \in Conns, NEW p \in Conns, Keeps(c, p)
    PROVE  KeptOn(c, p) \/ (Reclaim(c) /\ job[c].peer = p)
BY CarriesStep, WillReclaimStep DEF Keeps, WillReclaim

\* Nobody answers for a peer any less until it has left its room.
LEMMA AnswersStep ==
    ASSUME Core, Next, NEW c \in Conns, NEW p \in Conns, Answers(c, p)
    PROVE  \/ p \in abandoned'
           \/ \E x \in Conns : req[x].room = req[c].room /\ Answers(x, p)'
           \/ Leave(c) /\ job[c].peer = p
<1>1. CASE Keeps(c, p)
    <2>1. CASE KeptOn(c, p)
        BY <2>1 DEF KeptOn, Answers
    <2>2. CASE Reclaim(c) /\ job[c].peer = p
        <3>1. job'[c].stage = "leave" /\ job'[c].peer = p
            BY <2>2 DEF Reclaim, Core, TypeOK, Job
        <3> QED
            BY <3>1 DEF Answers, Leaving
    <2> QED
        BY <1>1, <2>1, <2>2, KeepsStep
<1>2. CASE Leaving(c, p)
    BY <1>2, JobStill DEF Leaving, Answers, Reclaim, Teardown
<1> QED
    BY <1>1, <1>2 DEF Answers

\* The request a connection serves and the lost tickets are never forgotten.
LEMMA HistoryGrows == ASSUME Next PROVE req' = req /\ abandoned \subseteq abandoned'
BY NextCases
DEF ResumeHit, TakeOver, FullJoin, Gate, SkipJoin, RoomFull, join_room, Bind, IssueTicket, NoTicket,
    End, HoldExpire, Reclaim, Leave, Teardown, StatusReport, Produce, DownstreamGone, kick_peer,
    remove_room

\* Members come by join_room alone, into the room of their own request.
LEMMA MembersStep ==
    ASSUME Core, Next, NEW r \in Rooms, NEW p \in Members(r)'
    PROVE  \/ p \in Members(r)
           \/ \E c \in Conns : join_room(c) /\ req[c].room = r /\ peer[c] = p
<1> USE DEF Members
<1>1. ASSUME NEW c \in Conns, join_room(c), ~(req[c].room = r /\ peer[c] = p) PROVE p \in Members(r)
    BY <1>1 DEF join_room, Core, TypeOK
<1>2. ASSUME NEW c \in Conns, Leave(c) PROVE p \in Members(r)
    BY <1>2 DEF Leave, leave_room, Core, TypeOK, Job
<1>3. ASSUME NEW q \in Conns, kick_peer(q) PROVE p \in Members(r)
    BY <1>3 DEF kick_peer, Core, TypeOK
<1>4. ASSUME NEW q \in Rooms, remove_room(q) PROVE p \in Members(r)
    BY <1>4 DEF remove_room, Core, TypeOK
<1>5. \/ UNCHANGED roomVars
      \/ \E c \in Conns : join_room(c) \/ Leave(c)
      \/ \E q \in Conns : kick_peer(q)
      \/ \E q \in Rooms : remove_room(q)
    <2>1. ASSUME NEW c \in Conns,
                 \/ \E n \in Nat : ResumeHit(c, n)
                 \/ TakeOver(c) \/ FullJoin(c) \/ Gate(c) \/ SkipJoin(c) \/ RoomFull(c) \/ Bind(c)
                 \/ IssueTicket(c) \/ NoTicket(c) \/ End(c) \/ HoldExpire(c) \/ Reclaim(c)
                 \/ Teardown(c) \/ StatusReport(c)
                 \/ \E q \in Rooms : Produce(c, q) \/ DownstreamGone(c, q)
          PROVE  UNCHANGED roomVars
        BY <2>1
        DEF ResumeHit, TakeOver, FullJoin, Gate, SkipJoin, RoomFull, Bind, IssueTicket, NoTicket,
            End, HoldExpire, Reclaim, Teardown, StatusReport, Produce, DownstreamGone
    <2> HIDE DEF roomVars, connVars, regVars, tickVars, histVars, Members
    <2> QED
        BY <2>1, NextCases
<1> QED
    BY <1>1, <1>2, <1>3, <1>4, <1>5

\* Every member of a room is a connection that asked for that room.
LEMMA HomeStep == Core /\ MembersHome /\ [Next]_vars => MembersHome'
<1> SUFFICES ASSUME Core, MembersHome, Next, NEW r \in Rooms, NEW p \in Members(r)'
             PROVE  req'[p].room = r
    <2>1. CASE UNCHANGED vars
        BY <2>1 DEF MembersHome, vars, Members
    <2> QED
        BY <2>1 DEF MembersHome
<1>1. CASE p \in Members(r)
    BY <1>1, HistoryGrows DEF MembersHome
<1>2. ASSUME NEW c \in Conns, req[c].room = r, peer[c] = p PROVE req[p].room = r
    BY <1>2 DEF Core, ControlInv, TaskControl
<1> QED
    BY <1>1, <1>2, MembersStep, HistoryGrows

\* leave_room takes the peer out of its room and out of the bindings.
LEMMA LeaveClears ==
    ASSUME Core, NEW c \in Conns, Leave(c)
    PROVE  /\ job[c].peer \notin Members(req[c].room)'
           /\ device_bindings'[job[c].peer] = None
<1>1. job[c].room = req[c].room /\ job[c].peer \in Conns /\ job[c].room \in Rooms
    BY DEF Core, ControlInv, TaskControl, TypeOK, Job
<1> QED
    BY <1>1 DEF Leave, leave_room, Members, Core, TypeOK

\* Every step leaves each slot and each binding with someone to clear it.
LEMMA MemberStep == Core /\ MemberAccounted /\ [Next]_vars => MemberAccounted'
<1> SUFFICES ASSUME Core, MemberAccounted, Next PROVE MemberAccounted'
    BY DEF MemberAccounted, vars, Members, Answers, Keeps, Carries, WillReclaim, Leaving, Resumed
<1>1. ASSUME NEW r \in Rooms, NEW p \in Conns, p \in Members(r)'
      PROVE  p \in abandoned' \/ \E c \in Conns : req'[c].room = r /\ Answers(c, p)'
    <2>1. ASSUME NEW c \in Conns, join_room(c), req[c].room = r, peer[c] = p
          PROVE  req'[c].room = r /\ Answers(c, p)'
        BY <2>1 DEF join_room, Answers, Keeps, Carries, Core, TypeOK
    <2>2. CASE p \in Members(r)
        <3>1. CASE p \in abandoned
            BY <3>1, HistoryGrows
        <3>2. ASSUME NEW c \in Conns, req[c].room = r, Answers(c, p)
              PROVE  p \in abandoned' \/ \E x \in Conns : req'[x].room = r /\ Answers(x, p)'
            BY <1>1, <3>2, AnswersStep, HistoryGrows, LeaveClears
        <3> QED
            BY <2>2, <3>1, <3>2 DEF MemberAccounted
    <2> QED
        BY <1>1, <2>1, <2>2, MembersStep
<1>2. ASSUME NEW p \in Conns, device_bindings'[p] # None
      PROVE  p \in abandoned' \/ \E c \in Conns : Answers(c, p)'
    <2>1. ASSUME NEW c \in Conns, Bind(c), peer[c] = p PROVE Answers(c, p)'
        BY <2>1 DEF Bind, Answers, Keeps, Carries, Core, TypeOK
    <2>2. CASE device_bindings[p] # None
        <3>1. CASE p \in abandoned
            BY <3>1, HistoryGrows
        <3>2. ASSUME NEW c \in Conns, Answers(c, p)
              PROVE  p \in abandoned' \/ \E x \in Conns : Answers(x, p)'
            BY <1>2, <3>2, AnswersStep, LeaveClears
        <3> QED
            BY <2>2, <3>1, <3>2 DEF MemberAccounted
    <2>3. device_bindings[p] # None \/ \E c \in Conns : Bind(c) /\ peer[c] = p
        <3>1. ASSUME NEW c \in Conns, Bind(c), peer[c] # p PROVE device_bindings'[p] = device_bindings[p]
            BY <3>1 DEF Bind, Core, TypeOK
        <3>2. ASSUME NEW c \in Conns, Leave(c) PROVE device_bindings[p] # None
            BY <1>2, <3>2 DEF Leave, Core, TypeOK
        <3>3. UNCHANGED device_bindings \/ \E c \in Conns : Bind(c) \/ Leave(c)
            BY NextCases
            DEF ResumeHit, TakeOver, FullJoin, Gate, SkipJoin, RoomFull, join_room, IssueTicket,
                NoTicket, End, HoldExpire, Reclaim, Teardown, StatusReport, Produce, DownstreamGone,
                kick_peer, remove_room
        <3> QED
            BY <1>2, <3>1, <3>2, <3>3
    <2> QED
        BY <2>1, <2>2, <2>3
<1> QED
    BY <1>1, <1>2 DEF MemberAccounted

\* Producers come by Produce alone and go by a reclaim or a DownstreamGone.
LEMMA ProducersStep ==
    ASSUME Next
    PROVE  \/ UNCHANGED producers
           \/ \E c \in Conns : Reclaim(c)
           \/ \E c \in Conns, r \in Rooms : Produce(c, r) \/ DownstreamGone(c, r)
BY NextCases
DEF ResumeHit, TakeOver, FullJoin, Gate, SkipJoin, RoomFull, join_room, Bind, IssueTicket, NoTicket,
    End, HoldExpire, Leave, Teardown, StatusReport, kick_peer, remove_room

\* Every step leaves each session-owned producer with someone to reclaim it.
LEMMA SessionProducersStep ==
    Core /\ SessionProducersAccounted /\ [Next]_vars => SessionProducersAccounted'
<1> SUFFICES ASSUME Core, SessionProducersAccounted, Next,
                    NEW pr \in producers', pr.owner \in Conns
             PROVE  pr.owner \in abandoned' \/ \E c \in Conns : Keeps(c, pr.owner)'
    <2>1. CASE UNCHANGED vars
        BY <2>1 DEF SessionProducersAccounted, vars, Keeps, Carries, WillReclaim, Resumed
    <2> QED
        BY <2>1 DEF SessionProducersAccounted
<1>1. CASE pr \in producers
    <2>1. CASE pr.owner \in abandoned
        BY <2>1, HistoryGrows
    <2>2. ASSUME NEW c \in Conns, Keeps(c, pr.owner)
          PROVE  pr.owner \in abandoned' \/ \E x \in Conns : Keeps(x, pr.owner)'
        <3>1. ~(Reclaim(c) /\ job[c].peer = pr.owner)
            BY <1>1 DEF Reclaim, OwnedBy
        <3> QED
            BY <2>2, <3>1, KeepsStep DEF KeptOn
    <2> QED
        BY <1>1, <2>1, <2>2 DEF SessionProducersAccounted
<1>2. ASSUME NEW c \in Conns, NEW r \in Rooms, Produce(c, r), pr \notin producers
      PROVE  Keeps(c, pr.owner)'
    <2>1. pr.owner = OwnerKey(peer[c])
        BY <1>2 DEF Produce
    <2>2. pr.owner = peer[c]
        BY <2>1, IdentitiesApart DEF OwnerKey, Core, TypeOK
    <2> QED
        BY <1>2, <2>2 DEF Produce, Keeps, Carries
<1>3. ASSUME NEW c \in Conns, Reclaim(c) PROVE pr \in producers
    BY <1>3 DEF Reclaim
<1>4. ASSUME NEW c \in Conns, NEW r \in Rooms, DownstreamGone(c, r) PROVE pr \in producers
    BY <1>4 DEF DownstreamGone
<1> QED
    BY <1>1, <1>2, <1>3, <1>4, ProducersStep

-----------------------------------------------------------------------------
(* The registries of a room. *)

\* Somebody will still look at the registries of room r.
RoomTask(r) ==
    \/ \E c \in Conns :
          /\ req[c].room = r
          /\ \/ \E p \in Conns : Answers(c, p)
             \/ job[c].stage = "teardown" /\ job[c].gone
    \/ \E p \in abandoned : req[p].room = r

\* A room with a member has such a task.
LEMMA MemberHasTask ==
    ASSUME TypeOK, MembersHome, MemberAccounted, NEW r \in Rooms, RoomExists(r)
    PROVE  RoomTask(r)
<1>1. PICK p \in Conns : p \in Members(r)
    BY DEF RoomExists, Members, TypeOK
<1> QED
    BY <1>1 DEF MembersHome, MemberAccounted, RoomTask

\* It goes away only by its own last two steps.
LEMMA RoomTaskStep ==
    ASSUME Core, Next, NEW r \in Rooms, RoomTask(r)
    PROVE  \/ RoomTask(r)'
           \/ \E c \in Conns : req[c].room = r /\ Leave(c)
           \/ \E c \in Conns : req[c].room = r /\ Teardown(c) /\ job[c].gone
<1>1. ASSUME NEW p \in abandoned, req[p].room = r PROVE RoomTask(r)'
    BY <1>1, HistoryGrows DEF RoomTask
<1>2. ASSUME NEW c \in Conns, NEW p \in Conns, req[c].room = r, Answers(c, p)
      PROVE  RoomTask(r)' \/ Leave(c)
    <2>1. CASE p \in abandoned'
        <3>1. req[p].room = r
            BY <1>2 DEF Core, ControlInv, TaskControl, Answers, Keeps, Carries, WillReclaim, Leaving
        <3> QED
            BY <2>1, <3>1, HistoryGrows DEF RoomTask
    <2>2. ASSUME NEW x \in Conns, req[x].room = req[c].room, Answers(x, p)' PROVE RoomTask(r)'
        BY <1>2, <2>2, HistoryGrows DEF RoomTask
    <2> QED
        BY <1>2, <2>1, <2>2, AnswersStep
<1>3. ASSUME NEW c \in Conns, req[c].room = r, job[c].stage = "teardown", job[c].gone
      PROVE  RoomTask(r)' \/ Teardown(c)
    <2>1. job'[c] = job[c] \/ Teardown(c)
        BY <1>3, JobStill DEF Reclaim, Leave
    <2> QED
        BY <1>3, <2>1, HistoryGrows DEF RoomTask
<1> QED
    BY <1>1, <1>2, <1>3 DEF RoomTask

\* leave_room is the step from the leave stage to the teardown check.
LEMMA LeaveJob ==
    ASSUME Core, NEW c \in Conns, Leave(c)
    PROVE  job[c].stage = "leave" /\ job'[c].stage = "teardown"
<1> DEFINE g == Members(job[c].room) \ {job[c].peer} = {}
<1>1. job[c].stage = "leave" /\ job' = [job EXCEPT ![c] = [job[c] EXCEPT !.stage = "teardown", !.gone = g]]
    BY DEF Leave
<1> HIDE DEF g
<1> QED
    BY <1>1 DEF Core, TypeOK, Job

\* After leave_room either the room is seen as gone and the teardown check is
\* still to come, or another member is left whose own end will look again.
LEMMA LeaveKeepsTask ==
    ASSUME Core, MembersHome, MemberAccounted, Next,
           NEW c \in Conns, NEW r \in Rooms, req[c].room = r, Leave(c)
    PROVE  RoomTask(r)'
<1> DEFINE p == job[c].peer
<1>1. job[c].room = r /\ p \in Conns /\ r \in Rooms /\ job[c].stage = "leave"
    BY DEF Leave, Core, ControlInv, TaskControl, TypeOK, Job, Request
<1>2. \A x \in Conns \ {c} : job'[x] = job[x]
    BY DEF Leave, Core, TypeOK
<1>3. CASE Members(r) \ {p} = {}
    <2>1. job'[c].gone
        <3> DEFINE g == Members(r) \ {p} = {}
        <3>1. job' = [job EXCEPT ![c] = [job[c] EXCEPT !.stage = "teardown", !.gone = g]]
            BY <1>1 DEF Leave
        <3>2. g
            BY <1>3
        <3> HIDE DEF g
        <3> QED
            BY <3>1, <3>2 DEF Core, TypeOK, Job
    <2>2. job'[c].stage = "teardown"
        BY LeaveJob
    <2> QED
        BY <2>1, <2>2, HistoryGrows DEF RoomTask
<1>4. CASE Members(r) \ {p} # {}
    <2>1. PICK q \in Conns : q \in Members(r) /\ q # p
        BY <1>1, <1>4 DEF Members, Core, TypeOK
    <2>2. CASE q \in abandoned
        BY <1>1, <2>1, <2>2, HistoryGrows DEF MembersHome, RoomTask
    <2>3. ASSUME NEW x \in Conns, req[x].room = r, Answers(x, q) PROVE RoomTask(r)'
        <3>1. ~(Leave(x) /\ job[x].peer = q)
            <4>1. CASE x = c
                BY <2>1, <4>1
            <4>2. CASE x # c
                <5>1. job'[x] = job[x]
                    BY <1>2, <4>2
                <5>2. Leave(x) => job'[x].stage = "teardown" /\ job[x].stage = "leave"
                    BY LeaveJob
                <5> QED
                    BY <5>1, <5>2
            <4> QED
                BY <4>1, <4>2
        <3>2. CASE q \in abandoned'
            BY <1>1, <2>1, <3>2, HistoryGrows DEF MembersHome, RoomTask
        <3>3. ASSUME NEW y \in Conns, req[y].room = req[x].room, Answers(y, q)' PROVE RoomTask(r)'
            BY <2>3, <3>3, HistoryGrows DEF RoomTask
        <3> QED
            BY <2>3, <3>1, <3>2, <3>3, AnswersStep
    <2> QED
        BY <1>1, <2>1, <2>2, <2>3 DEF MemberAccounted
<1> QED
    BY <1>3, <1>4

\* Room r has an owner or a status.
Registered(r) == room_owners[r] # None \/ r \in status_registry

\* Every step leaves each owner and status with producers, or with a task that
\* still has its teardown check to do.
LEMMA RegistryStep ==
    Core /\ MembersHome /\ MemberAccounted /\ RegistryAccounted /\ [Next]_vars => RegistryAccounted'
<1> SUFFICES ASSUME Core, MembersHome, MemberAccounted, RegistryAccounted, Next,
                    NEW r \in Rooms, Registered(r)'
             PROVE  room_has_producers(producers', r) \/ RoomTask(r)'
    <2>1. CASE UNCHANGED vars
        BY <2>1 DEF RegistryAccounted, vars, RoomExists, Members, room_has_producers, Answers, Keeps,
                    Carries, WillReclaim, Leaving, Resumed
    <2> QED
        BY <2>1 DEF RegistryAccounted, Registered, RoomTask
<1>1. ASSUME NEW c \in Conns, Bind(c) \/ StatusReport(c), req[c].room = r PROVE RoomTask(r)'
    <2>1. Carries(c, peer[c])' /\ peer'[c] \in Conns
        BY <1>1 DEF Bind, StatusReport, Carries, Core, TypeOK
    <2> QED
        BY <1>1, <2>1, HistoryGrows DEF RoomTask, Answers, Keeps
<1>2. Registered(r) \/ \E c \in Conns : (Bind(c) \/ StatusReport(c)) /\ req[c].room = r
    <2>1. ASSUME NEW c \in Conns, Bind(c) \/ StatusReport(c), req[c].room # r PROVE Registered(r)
        BY <2>1 DEF Bind, StatusReport, Registered, Core, TypeOK
    <2>2. ASSUME NEW c \in Conns, Teardown(c) PROVE Registered(r)
        BY <2>2 DEF Teardown, Registered, Core, TypeOK
    <2>3. ASSUME NEW R, NEW P, DeferredCleanup(R, P) PROVE Registered(r)
        BY <2>3 DEF DeferredCleanup, Registered
    <2>4. ASSUME UNCHANGED <<room_owners, status_registry>> PROVE Registered(r)
        BY <2>4 DEF Registered
    <2>5. ASSUME NEW c \in Conns, Reclaim(c) \/ \E q \in Rooms : DownstreamGone(c, q)
          PROVE  Registered(r)
        BY <2>3, <2>5 DEF Reclaim, DownstreamGone
    <2>6. \/ UNCHANGED <<room_owners, status_registry>>
          \/ \E c \in Conns : \/ Bind(c) \/ StatusReport(c) \/ Teardown(c) \/ Reclaim(c)
                              \/ \E q \in Rooms : DownstreamGone(c, q)
        BY NextCases
        DEF ResumeHit, TakeOver, FullJoin, Gate, SkipJoin, RoomFull, join_room, IssueTicket, NoTicket,
            End, HoldExpire, Leave, Produce, kick_peer, remove_room
    <2> QED
        BY <2>1, <2>2, <2>4, <2>5, <2>6
<1>3. ASSUME RoomTask(r) PROVE room_has_producers(producers', r) \/ RoomTask(r)'
    <2>1. ASSUME NEW c \in Conns, req[c].room = r, Teardown(c), job[c].gone
          PROVE  room_has_producers(producers', r)
        <3>1. job[c].room = r
            BY <2>1 DEF Core, ControlInv, TaskControl
        <3> QED
            BY <2>1, <3>1 DEF Teardown, should_teardown, Registered, Core, TypeOK
    <2> QED
        BY <1>3, <2>1, RoomTaskStep, LeaveKeepsTask
<1>4. ASSUME room_has_producers(producers, r)
      PROVE  room_has_producers(producers', r) \/ RoomTask(r)'
    <2>1. ASSUME NEW P, NEW closed, DeferredCleanup({pr.room : pr \in closed}, P),
                 P = producers \ closed, closed \subseteq producers, producers' = P
          PROVE  room_has_producers(producers', r) \/ RoomTask(r)'
        <3> SUFFICES ASSUME ~room_has_producers(P, r) PROVE RoomTask(r)'
            BY <2>1
        <3>1. r \in {pr.room : pr \in closed}
            BY <1>4, <2>1 DEF room_has_producers
        <3>2. RoomExists(r)
            BY <2>1, <3>1 DEF DeferredCleanup, should_teardown, Registered
        <3>3. RoomTask(r)
            BY <3>2, MemberHasTask DEF Core
        <3> QED
            BY <1>3, <2>1, <3>3
    <2>2. ASSUME NEW c \in Conns, Reclaim(c)
          PROVE  room_has_producers(producers', r) \/ RoomTask(r)'
        BY <2>1, <2>2 DEF Reclaim, OwnedBy
    <2>3. ASSUME NEW c \in Conns, NEW q \in Rooms, DownstreamGone(c, q)
          PROVE  room_has_producers(producers', r) \/ RoomTask(r)'
        <3> DEFINE gone == {[room |-> q, owner |-> device_bindings[peer[c]]]}
        <3>1. {pr.room : pr \in gone} = {q}
            OBVIOUS
        <3> QED
            BY <2>1, <2>3, <3>1 DEF DownstreamGone
    <2>4. ASSUME producers \subseteq producers' PROVE room_has_producers(producers', r)
        BY <1>4, <2>4 DEF room_has_producers
    <2>5. ASSUME NEW c \in Conns, NEW q \in Rooms, Produce(c, q) PROVE producers \subseteq producers'
        BY <2>5 DEF Produce
    <2> QED
        BY <2>2, <2>3, <2>4, <2>5, ProducersStep
<1>5. ASSUME Registered(r) PROVE room_has_producers(producers, r) \/ RoomTask(r)
    <2>1. RoomExists(r) => RoomTask(r)
        BY MemberHasTask DEF Core
    <2> QED
        BY <1>5, <2>1 DEF RegistryAccounted, Registered, RoomTask
<1> QED
    BY <1>1, <1>2, <1>3, <1>4, <1>5

-----------------------------------------------------------------------------

\* The inductive invariant holds in every reachable state.
LEMMA IInvInvariant == Spec => []IInv
<1>1. Init => IInv
    <2>1. ASSUME Init PROVE MembersHome /\ MemberAccounted
        BY <2>1 DEF Init, MembersHome, MemberAccounted, Members
    <2>2. ASSUME Init PROVE SessionProducersAccounted /\ RegistryAccounted
        BY <2>2 DEF Init, SessionProducersAccounted, RegistryAccounted
    <2> QED
        BY <2>1, <2>2, CoreInit DEF IInv, Core
<1>2. IInv /\ [Next]_vars => IInv'
    BY TypeStep, CoreStep, HomeStep, MemberStep, SessionProducersStep, RegistryStep DEF IInv, Core
<1> QED
    BY <1>1, <1>2, PTL DEF Spec

\* No slot and no device binding outlives its session, for any number of
\* connections, vehicles, accounts and rooms and any ticket capacity.
THEOREM MemberAccountedHolds == Spec => []MemberAccounted
BY IInvInvariant, PTL DEF IInv

\* A session's own producers are reclaimed with the session.
THEOREM SessionProducersHold == Spec => []SessionProducersAccounted
BY IInvInvariant, PTL DEF IInv

\* "Double insurance, no leak": the two teardown checks together miss no room.
THEOREM RegistryAccountedHolds == Spec => []RegistryAccounted
BY IInvInvariant, PTL DEF IInv

-----------------------------------------------------------------------------
\* Where an adopted peer id comes from: it was minted, and is still carried in
\* name, by a connection that has reached its relay loop.
Minted(p) == peer[p] = p /\ phase[p] \in {"live", "ended"}

PeerOrigin ==
    /\ \A t \in resume_table : Minted(t.peer)
    /\ \A c \in Conns : /\ peer[c] # c => Minted(peer[c])
                        /\ Resumed(c) => peer[c] # c

\* Whom a cleanup concerns: the victim of a takeover, or the task's own peer.
JobPeer ==
    \A c \in Conns : job[c].stage # "none" =>
        \/ phase[c] = "takeover" /\ job[c].peer \in displaced
        \/ phase[c] = "ended" /\ job[c].peer = peer[c]

Sole(c) == \A x \in Conns \ {c} : peer[x] # peer[c]

\* From its join on, a host session that shares its peer id with nobody is in
\* its slot.
SlotKept ==
    \A c \in Conns :
        (/\ phase[c] \in {"bind", "ticket", "live"} /\ req[c].role = "Host"
         /\ peer[c] \notin displaced /\ Sole(c)) => host[req[c].room] = peer[c]

SlotInv == PeerOrigin /\ JobPeer /\ SlotKept

\* A peer id goes over to another connection by a re-attach alone.
LEMMA PeerMoves ==
    ASSUME Next
    PROVE  \/ UNCHANGED <<peer, resumed_from>>
           \/ \E c \in Conns, n \in Nat : ResumeHit(c, n)
<1>1. ASSUME NEW c \in Conns,
             \/ TakeOver(c) \/ FullJoin(c) \/ Gate(c) \/ SkipJoin(c) \/ RoomFull(c)
             \/ join_room(c) \/ Bind(c) \/ IssueTicket(c) \/ NoTicket(c) \/ End(c)
             \/ HoldExpire(c) \/ Reclaim(c) \/ Leave(c) \/ Teardown(c) \/ StatusReport(c)
             \/ \E r \in Rooms : Produce(c, r) \/ DownstreamGone(c, r)
      PROVE  UNCHANGED <<peer, resumed_from>>
    BY <1>1
    DEF TakeOver, FullJoin, Gate, SkipJoin, RoomFull, join_room, Bind, IssueTicket, NoTicket, End,
        HoldExpire, Reclaim, Leave, Teardown, StatusReport, Produce, DownstreamGone
<1>2. ASSUME (\E p \in Conns : kick_peer(p)) \/ (\E r \in Rooms : remove_room(r))
      PROVE  UNCHANGED <<peer, resumed_from>>
    BY <1>2 DEF kick_peer, remove_room
<1> HIDE DEF roomVars, connVars, regVars, tickVars, histVars
<1> QED
    BY <1>1, <1>2, NextCases

\* A session that has reached its relay loop stays there or ends.
LEMMA ServedStays ==
    ASSUME Core, Next, NEW p \in Conns, phase[p] \in {"live", "ended"}
    PROVE  phase'[p] \in {"live", "ended"}
<1> USE DEF Core, TypeOK
<1>1. ASSUME NEW c \in Conns, TakeOver(c) \/ FullJoin(c) \/ Gate(c) \/ SkipJoin(c) \/ RoomFull(c)
                              \/ \E n \in Nat : ResumeHit(c, n)
      PROVE  phase'[p] \in {"live", "ended"}
    BY <1>1 DEF ResumeHit, TakeOver, FullJoin, Gate, SkipJoin, RoomFull
<1>2. ASSUME NEW c \in Conns, join_room(c) \/ Bind(c) \/ IssueTicket(c) \/ NoTicket(c)
      PROVE  phase'[p] \in {"live", "ended"}
    BY <1>2 DEF join_room, Bind, IssueTicket, NoTicket
<1>3. ASSUME NEW c \in Conns, End(c) \/ HoldExpire(c) \/ Reclaim(c) \/ Leave(c) \/ Teardown(c)
      PROVE  phase'[p] \in {"live", "ended"}
    BY <1>3 DEF End, HoldExpire, Reclaim, Leave, Teardown
<1>4. ASSUME NEW c \in Conns, StatusReport(c) \/ \E r \in Rooms : Produce(c, r) \/ DownstreamGone(c, r)
      PROVE  phase'[p] \in {"live", "ended"}
    BY <1>4 DEF StatusReport, Produce, DownstreamGone
<1>5. ASSUME (\E q \in Conns : kick_peer(q)) \/ (\E r \in Rooms : remove_room(r))
      PROVE  phase'[p] \in {"live", "ended"}
    BY <1>5 DEF kick_peer, remove_room
<1> HIDE DEF roomVars, connVars, regVars, tickVars, histVars
<1> QED
    BY <1>1, <1>2, <1>3, <1>4, <1>5, NextCases

\* Tickets come by IssueTicket alone, for the peer of a session that starts its
\* relay loop.
LEMMA TicketsStep ==
    ASSUME Core, Next, NEW t \in resume_table'
    PROVE  t \in resume_table \/ \E c \in Conns : IssueTicket(c) /\ t.peer = peer[c]
<1>1. ASSUME NEW c \in Conns,
             \/ \E n \in Nat : ResumeHit(c, n)
             \/ TakeOver(c) \/ FullJoin(c) \/ Gate(c) \/ SkipJoin(c) \/ RoomFull(c)
             \/ join_room(c) \/ Bind(c) \/ NoTicket(c) \/ End(c)
             \/ HoldExpire(c) \/ Reclaim(c) \/ Leave(c) \/ Teardown(c) \/ StatusReport(c)
             \/ \E r \in Rooms : Produce(c, r) \/ DownstreamGone(c, r)
      PROVE  t \in resume_table
    BY <1>1
    DEF ResumeHit, TakeOver, FullJoin, Gate, SkipJoin, RoomFull, join_room, Bind, NoTicket, End,
        HoldExpire, Reclaim, Leave, Teardown, StatusReport, Produce, DownstreamGone, Burn
<1>2. ASSUME NEW c \in Conns, IssueTicket(c) PROVE t \in resume_table \/ t.peer = peer[c]
    BY <1>2 DEF IssueTicket, TableAfterIssue, prune_resume
<1>3. ASSUME (\E p \in Conns : kick_peer(p)) \/ (\E r \in Rooms : remove_room(r))
      PROVE  t \in resume_table
    BY <1>3 DEF kick_peer, remove_room
<1> HIDE DEF roomVars, connVars, regVars, tickVars, histVars
<1> QED
    BY <1>1, <1>2, <1>3, NextCases

\* Every adopted peer id was minted by a connection that served it.
LEMMA OriginStep == Core /\ PeerOrigin /\ [Next]_vars => PeerOrigin'
<1> SUFFICES ASSUME Core, PeerOrigin, Next PROVE PeerOrigin'
    BY DEF PeerOrigin, Minted, Resumed, vars
<1>1. ASSUME NEW p \in Conns, Minted(p) PROVE Minted(p)'
    <2>1. ASSUME NEW c \in Conns, NEW n \in Nat, ResumeHit(c, n) PROVE peer'[p] = peer[p]
        BY <1>1, <2>1 DEF ResumeHit, Minted, Core, TypeOK
    <2> QED
        BY <1>1, <2>1, ServedStays, PeerMoves DEF Minted
<1>2. ASSUME NEW t \in resume_table' PROVE Minted(t.peer)'
    <2>1. CASE t \in resume_table
        BY <1>1, <2>1 DEF PeerOrigin, Core, TypeOK, Ticket
    <2>2. ASSUME NEW c \in Conns, IssueTicket(c), t.peer = peer[c] PROVE Minted(t.peer)'
        <3>1. CASE peer[c] # c
            BY <1>1, <2>2, <3>1 DEF PeerOrigin, Core, TypeOK
        <3>2. CASE peer[c] = c
            BY <2>2, <3>2 DEF IssueTicket, Minted, Core, TypeOK
        <3> QED
            BY <3>1, <3>2
    <2> QED
        BY <2>1, <2>2, TicketsStep
<1>3. ASSUME NEW c \in Conns
      PROVE  (peer'[c] # c => Minted(peer[c])') /\ (Resumed(c)' => peer'[c] # c)
    <2>1. CASE UNCHANGED <<peer, resumed_from>>
        BY <1>1, <2>1 DEF PeerOrigin, Resumed, Core, TypeOK
    <2>2. ASSUME NEW x \in Conns, NEW n \in Nat, ResumeHit(x, n)
          PROVE  (peer'[c] # c => Minted(peer[c])') /\ (Resumed(c)' => peer'[c] # c)
        <3>1. PICK t \in resume_table : peer' = [peer EXCEPT ![x] = t.peer]
            BY <2>2 DEF ResumeHit, HeldFor
        <3>2. t.peer \in Conns /\ Minted(t.peer) /\ phase[x] = "idle"
            BY <2>2, <3>1 DEF ResumeHit, PeerOrigin, Core, TypeOK, Ticket
        <3>3. CASE x = c
            <4>1. peer'[c] = t.peer /\ t.peer # c
                BY <3>1, <3>2, <3>3 DEF Minted, Core, TypeOK
            <4> QED
                BY <1>1, <3>2, <4>1
        <3>4. CASE x # c
            <4>1. peer'[c] = peer[c] /\ resumed_from'[c] = resumed_from[c]
                BY <2>2, <3>1, <3>4 DEF ResumeHit, Core, TypeOK
            <4> QED
                BY <1>1, <4>1 DEF PeerOrigin, Resumed, Core, TypeOK
        <3> QED
            BY <3>3, <3>4
    <2> QED
        BY <2>1, <2>2, PeerMoves
<1> QED
    BY <1>2, <1>3 DEF PeerOrigin

\* A cleanup is started for the victim of a takeover or for the ending session.
LEMMA JobPeerStep == Core /\ JobPeer /\ [Next]_vars => JobPeer'
<1> SUFFICES ASSUME Core, JobPeer, Next, NEW c \in Conns, job'[c].stage # "none"
             PROVE  \/ phase'[c] = "takeover" /\ job'[c].peer \in displaced'
                    \/ phase'[c] = "ended" /\ job'[c].peer = peer'[c]
    BY DEF JobPeer, vars
<1> USE DEF Core, TypeOK
<1>1. job[c].stage # "none" => phase[c] \in {"takeover", "ended"}
    BY DEF ControlInv, TaskControl
<1>2. job[c] \in Job
    OBVIOUS
<1>3. ASSUME NEW z \in Conns,
             \/ \E n \in Nat : ResumeHit(z, n)
             \/ FullJoin(z) \/ Gate(z) \/ SkipJoin(z) \/ RoomFull(z)
             \/ join_room(z) \/ Bind(z) \/ IssueTicket(z) \/ NoTicket(z)
      PROVE  phase'[c] = phase[c] /\ peer'[c] = peer[c] /\ job' = job /\ displaced' = displaced
    <2>1. job' = job /\ displaced' = displaced /\ phase[z] \notin {"takeover", "ended"}
        BY <1>3 DEF ResumeHit, FullJoin, Gate, SkipJoin, RoomFull, join_room, Bind, IssueTicket, NoTicket
    <2>2. z # c
        BY <1>1, <2>1
    <2>3. phase'[c] = phase[c]
        BY <1>3, <2>2 DEF ResumeHit, FullJoin, Gate, SkipJoin, RoomFull, join_room, Bind, IssueTicket,
                          NoTicket
    <2>4. peer'[c] = peer[c]
        BY <1>3, <2>2 DEF ResumeHit, FullJoin, Gate, SkipJoin, RoomFull, join_room, Bind, IssueTicket,
                          NoTicket
    <2> QED
        BY <2>1, <2>3, <2>4
<1>4. ASSUME NEW z \in Conns, TakeOver(z)
      PROVE  \/ phase'[c] = "takeover" /\ job'[c].peer \in displaced'
             \/ phase'[c] = "ended" /\ job'[c].peer = peer'[c]
    <2>1. CASE z = c
        BY <1>4, <2>1 DEF TakeOver, StartDisconnect
    <2>2. CASE z # c
        BY <1>4, <2>2 DEF TakeOver, JobPeer
    <2> QED
        BY <2>1, <2>2
<1>5. ASSUME NEW z \in Conns, End(z)
      PROVE  \/ phase'[c] = "takeover" /\ job'[c].peer \in displaced'
             \/ phase'[c] = "ended" /\ job'[c].peer = peer'[c]
    <2>1. CASE z = c
        <3>1. phase'[c] = "ended" /\ peer' = peer
            BY <1>5, <2>1 DEF End
        <3>2. PICK j : j = StartDisconnect(peer[c], req[c].room) /\ j.peer = peer[c] /\ j \in Job
            <4>1. peer[c] \in Conns /\ req[c].room \in Rooms
                BY DEF Request
            <4> QED
                BY <4>1, JobUpdates DEF StartDisconnect
        <3>3. CASE job' = [job EXCEPT ![c] = j]
            BY <3>1, <3>2, <3>3
        <3>4. ASSUME NEW t \in RetainedTicket(c), job' = [job EXCEPT ![c] = [j EXCEPT !.stage = "held", !.seq = t.seq]]
              PROVE  job'[c].peer = peer[c]
            <4>1. [j EXCEPT !.stage = "held", !.seq = t.seq].peer = j.peer
                BY <3>2 DEF Job
            <4> QED
                BY <3>2, <3>4, <4>1
        <3>5. \/ job' = [job EXCEPT ![c] = j]
              \/ \E t \in RetainedTicket(c) : job' = [job EXCEPT ![c] = [j EXCEPT !.stage = "held", !.seq = t.seq]]
            BY <1>5, <2>1, <3>2 DEF End
        <3> QED
            BY <3>1, <3>3, <3>4, <3>5
    <2>2. CASE z # c
        BY <1>5, <2>2 DEF End, JobPeer
    <2> QED
        BY <2>1, <2>2
<1>6. ASSUME NEW z \in Conns, HoldExpire(z) \/ Reclaim(z) \/ Leave(z)
      PROVE  phase' = phase /\ peer' = peer /\ displaced' = displaced
             /\ job'[c].peer = job[c].peer /\ job[c].stage # "none"
    <2>1. phase' = phase /\ peer' = peer /\ displaced' = displaced /\ job[z].stage # "none"
        BY <1>6 DEF HoldExpire, Reclaim, Leave
    <2>2. ASSUME NEW s, job' = [job EXCEPT ![z] = [@ EXCEPT !.stage = s]]
          PROVE  job'[c].peer = job[c].peer /\ (c # z => job'[c] = job[c])
        BY <1>2, <2>2 DEF Job
    <2>3. ASSUME NEW s, NEW b, job' = [job EXCEPT ![z] = [@ EXCEPT !.stage = s, !.gone = b]]
          PROVE  job'[c].peer = job[c].peer /\ (c # z => job'[c] = job[c])
        BY <1>2, <2>3 DEF Job
    <2>4. job'[c].peer = job[c].peer /\ (c # z => job'[c] = job[c])
        <3>1. CASE HoldExpire(z)
            BY <2>2, <3>1 DEF HoldExpire
        <3>2. CASE Reclaim(z)
            BY <2>2, <3>2 DEF Reclaim
        <3>3. CASE Leave(z)
            BY <2>3, <3>3 DEF Leave
        <3> QED
            BY <1>6, <3>1, <3>2, <3>3
    <2> QED
        BY <2>1, <2>4
<1>7. ASSUME NEW z \in Conns, Teardown(z)
      PROVE  phase'[c] = phase[c] /\ peer' = peer /\ displaced' = displaced /\ job'[c] = job[c]
    <2>1. z # c
        BY <1>2, <1>7 DEF Teardown, Job
    <2> QED
        BY <1>7, <2>1 DEF Teardown
<1>8. ASSUME NEW z \in Conns, StatusReport(z) \/ \E r \in Rooms : Produce(z, r) \/ DownstreamGone(z, r)
      PROVE  UNCHANGED <<phase, peer, job, displaced>>
    BY <1>8 DEF StatusReport, Produce, DownstreamGone
<1>9. ASSUME (\E q \in Conns : kick_peer(q)) \/ (\E r \in Rooms : remove_room(r))
      PROVE  UNCHANGED <<phase, peer, job>> /\ displaced \subseteq displaced'
    BY <1>9 DEF kick_peer, remove_room
<1> HIDE DEF roomVars, connVars, regVars, tickVars, histVars, Core, TypeOK
<1> QED
    BY <1>3, <1>4, <1>5, <1>6, <1>7, <1>8, <1>9, NextCases DEF JobPeer

\* The host slot of a session is emptied by the cleanup of its own peer id and by
\* an administrator alone.
LEMMA SlotEmptied ==
    ASSUME Core, Next, NEW r \in Rooms, NEW p \in Conns, host[r] = p, host'[r] # p
    PROVE  \/ \E c \in Conns : job[c].stage = "leave" /\ job[c].peer = p
           \/ p \in displaced'
<1> USE DEF Core, TypeOK
<1>1. ASSUME NEW c \in Conns,
             \/ \E n \in Nat : ResumeHit(c, n)
             \/ TakeOver(c) \/ FullJoin(c) \/ Gate(c) \/ SkipJoin(c) \/ RoomFull(c)
             \/ Bind(c) \/ IssueTicket(c) \/ NoTicket(c) \/ End(c)
             \/ HoldExpire(c) \/ Reclaim(c) \/ Teardown(c) \/ StatusReport(c)
             \/ \E q \in Rooms : Produce(c, q) \/ DownstreamGone(c, q)
      PROVE  FALSE
    <2>1. host' = host
        BY <1>1
        DEF ResumeHit, TakeOver, FullJoin, Gate, SkipJoin, RoomFull, Bind, IssueTicket, NoTicket, End,
            HoldExpire, Reclaim, Teardown, StatusReport, Produce, DownstreamGone
    <2> QED
        BY <2>1
<1>2. ASSUME NEW c \in Conns, join_room(c) PROVE FALSE
    BY <1>2 DEF join_room
<1>3. ASSUME NEW c \in Conns, Leave(c) PROVE job[c].stage = "leave" /\ job[c].peer = p
    BY <1>3 DEF Leave, leave_room
<1>4. ASSUME NEW q \in Conns, kick_peer(q) PROVE p \in displaced'
    BY <1>4 DEF kick_peer
<1>5. ASSUME NEW q \in Rooms, remove_room(q) PROVE p \in displaced'
    <2>1. q = r /\ p \in Members(r)
        BY <1>5 DEF remove_room, Members
    <2> QED
        BY <1>5, <2>1 DEF remove_room
<1> HIDE DEF roomVars, connVars, regVars, tickVars, histVars, Core, TypeOK
<1> QED
    BY <1>1, <1>2, <1>3, <1>4, <1>5, NextCases

\* A session comes into its room by join_room, or without it after a re-attach.
LEMMA EntersRoom ==
    ASSUME Core, Next, NEW c \in Conns, phase'[c] \in {"bind", "ticket", "live"}
    PROVE  \/ phase[c] \in {"bind", "ticket", "live"}
           \/ SkipJoin(c)
           \/ join_room(c)
<1> USE DEF Core, TypeOK
<1>1. ASSUME NEW z \in Conns, z # c,
             \/ \E n \in Nat : ResumeHit(z, n)
             \/ TakeOver(z) \/ FullJoin(z) \/ Gate(z) \/ SkipJoin(z) \/ RoomFull(z)
             \/ join_room(z) \/ Bind(z) \/ IssueTicket(z) \/ NoTicket(z) \/ End(z) \/ Teardown(z)
      PROVE  phase'[c] = phase[c]
    BY <1>1
    DEF ResumeHit, TakeOver, FullJoin, Gate, SkipJoin, RoomFull, join_room, Bind, IssueTicket, NoTicket,
        End, Teardown
<1>2. ASSUME \/ \E n \in Nat : ResumeHit(c, n)
             \/ TakeOver(c) \/ FullJoin(c) \/ Gate(c) \/ RoomFull(c)
             \/ Bind(c) \/ IssueTicket(c) \/ NoTicket(c) \/ End(c) \/ Teardown(c)
      PROVE  phase[c] \in {"bind", "ticket", "live"}
    <2>1. ASSUME \E n \in Nat : ResumeHit(c, n) PROVE FALSE
        BY <2>1 DEF ResumeHit
    <2>2. ASSUME TakeOver(c) \/ FullJoin(c) \/ Gate(c) \/ RoomFull(c) PROVE FALSE
        BY <2>2 DEF TakeOver, FullJoin, Gate, RoomFull
    <2>3. ASSUME Bind(c) \/ IssueTicket(c) \/ NoTicket(c) \/ End(c)
          PROVE  phase[c] \in {"bind", "ticket", "live"}
        BY <2>3 DEF Bind, IssueTicket, NoTicket, End
    <2>4. ASSUME Teardown(c) PROVE phase[c] \in {"bind", "ticket", "live"}
        BY <2>4 DEF Teardown
    <2> QED
        BY <1>2, <2>1, <2>2, <2>3, <2>4
<1>3. ASSUME NEW z \in Conns,
             \/ HoldExpire(z) \/ Reclaim(z) \/ Leave(z) \/ StatusReport(z)
             \/ \E r \in Rooms : Produce(z, r) \/ DownstreamGone(z, r)
      PROVE  phase' = phase
    BY <1>3 DEF HoldExpire, Reclaim, Leave, StatusReport, Produce, DownstreamGone
<1>4. ASSUME (\E q \in Conns : kick_peer(q)) \/ (\E r \in Rooms : remove_room(r))
      PROVE  phase' = phase
    BY <1>4 DEF kick_peer, remove_room
<1> HIDE DEF roomVars, connVars, regVars, tickVars, histVars, Core, TypeOK
<1> QED
    BY <1>1, <1>2, <1>3, <1>4, NextCases

\* The takeovers and the kicks are remembered.
LEMMA DisplacedGrows == ASSUME Next PROVE displaced \subseteq displaced'
<1>1. ASSUME NEW c \in Conns,
             \/ \E n \in Nat : ResumeHit(c, n)
             \/ TakeOver(c) \/ FullJoin(c) \/ Gate(c) \/ SkipJoin(c) \/ RoomFull(c)
             \/ join_room(c) \/ Bind(c) \/ IssueTicket(c) \/ NoTicket(c) \/ End(c)
             \/ HoldExpire(c) \/ Reclaim(c) \/ Leave(c) \/ Teardown(c) \/ StatusReport(c)
             \/ \E r \in Rooms : Produce(c, r) \/ DownstreamGone(c, r)
      PROVE  displaced \subseteq displaced'
    BY <1>1
    DEF ResumeHit, TakeOver, FullJoin, Gate, SkipJoin, RoomFull, join_room, Bind, IssueTicket, NoTicket,
        End, HoldExpire, Reclaim, Leave, Teardown, StatusReport, Produce, DownstreamGone
<1>2. ASSUME (\E p \in Conns : kick_peer(p)) \/ (\E r \in Rooms : remove_room(r))
      PROVE  displaced \subseteq displaced'
    BY <1>2 DEF kick_peer, remove_room
<1> HIDE DEF roomVars, connVars, regVars, tickVars, histVars
<1> QED
    BY <1>1, <1>2, NextCases

\* No step takes the slot of a session that is alone with its peer id.
LEMMA SlotStep == Core /\ SlotInv /\ [Next]_vars => SlotKept'
<1> SUFFICES ASSUME Core, SlotInv, Next, NEW c \in Conns,
                    phase'[c] \in {"bind", "ticket", "live"}, req'[c].role = "Host",
                    peer'[c] \notin displaced', Sole(c)'
             PROVE  host'[req'[c].room] = peer'[c]
    <2>1. CASE UNCHANGED vars
        BY <2>1 DEF SlotInv, SlotKept, Sole, vars
    <2> QED
        BY <2>1 DEF SlotKept
<1> USE DEF SlotInv
<1>1. req' = req /\ req[c].room \in Rooms /\ peer[c] \in Conns /\ displaced \subseteq displaced'
    BY HistoryGrows, DisplacedGrows DEF Core, TypeOK, Request
<1>2. peer'[c] = peer[c] /\ resumed_from'[c] = resumed_from[c]
    <2>1. ASSUME NEW x \in Conns, NEW n \in Nat, ResumeHit(x, n) PROVE x # c
        BY <2>1 DEF ResumeHit, Core, TypeOK
    <2>2. ASSUME NEW x \in Conns, NEW n \in Nat, ResumeHit(x, n), x # c
          PROVE  peer'[c] = peer[c] /\ resumed_from'[c] = resumed_from[c]
        BY <2>2 DEF ResumeHit, Core, TypeOK
    <2> QED
        BY <2>1, <2>2, PeerMoves
<1>3. Sole(c)
    <2>1. ASSUME NEW x \in Conns \ {c} PROVE peer[x] # peer[c]
        <3>1. CASE peer'[x] = peer[x]
            BY <1>2, <3>1 DEF Sole
        <3>2. ASSUME NEW z \in Conns, NEW n \in Nat, ResumeHit(z, n), peer'[x] # peer[x]
              PROVE  peer[x] # peer[c]
            <4>1. phase[x] = "idle"
                BY <3>2 DEF ResumeHit, Core, TypeOK
            <4>2. peer[x] = x
                BY <4>1 DEF Core, ControlInv, TaskControl
            <4>3. peer[c] # x
                BY <2>1, <4>1 DEF PeerOrigin, Minted
            <4> QED
                BY <4>2, <4>3
        <3> QED
            BY <3>1, <3>2, PeerMoves
    <2> QED
        BY <2>1 DEF Sole
<1>4. peer[c] = c /\ ~Resumed(c)
    <2>1. peer[c] # c => peer[peer[c]] = peer[c]
        BY DEF PeerOrigin, Minted
    <2>2. peer[c] = c
        BY <1>1, <1>3, <2>1 DEF Sole
    <2> QED
        BY <2>2 DEF PeerOrigin
<1>5. CASE phase[c] \in {"bind", "ticket", "live"}
    <2>1. host[req[c].room] = c
        BY <1>1, <1>2, <1>3, <1>4, <1>5 DEF SlotKept
    <2>2. ASSUME NEW x \in Conns, job[x].stage = "leave", job[x].peer = c PROVE FALSE
        <3>1. phase[x] = "ended" /\ peer[x] = c
            BY <1>1, <1>2, <1>4, <2>2 DEF JobPeer
        <3>2. x = c
            BY <1>3, <1>4, <3>1 DEF Sole
        <3> QED
            BY <1>5, <3>1, <3>2
    <2>3. host'[req[c].room] = c
        BY <1>1, <1>2, <1>4, <2>1, <2>2, SlotEmptied
    <2> QED
        BY <1>1, <1>2, <1>4, <2>3
<1>6. CASE join_room(c)
    <2>1. host' = [host EXCEPT ![req[c].room] = peer[c]]
        BY <1>1, <1>6 DEF join_room
    <2> QED
        BY <1>1, <1>2, <2>1 DEF Core, TypeOK
<1>7. ~SkipJoin(c)
    BY <1>4 DEF SkipJoin
<1> QED
    BY <1>5, <1>6, <1>7, EntersRoom

\* A host session that nobody re-attached to keeps its slot until it ends, is
\* taken over or is removed by an administrator, for any number of connections,
\* vehicles and rooms: a cleanup concerns its task's own peer id or a displaced
\* one, and an adopted peer id is always carried twice.
THEOREM SoleHostHolds == Spec => []SoleHostKeepsSlot
<1>1. Init => SlotInv
    BY DEF Init, SlotInv, PeerOrigin, JobPeer, SlotKept, Resumed
<1>2. Core /\ SlotInv /\ [Next]_vars => SlotInv'
    BY OriginStep, JobPeerStep, SlotStep DEF SlotInv
<1>3. SlotInv => SoleHostKeepsSlot
    BY DEF SlotInv, SlotKept, Sole, SoleHostKeepsSlot
<1> QED
    BY <1>1, <1>2, <1>3, CoreInvariant, PTL DEF Spec
=============================================================================
