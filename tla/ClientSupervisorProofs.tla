----------------------- MODULE ClientSupervisorProofs -----------------------
(***************************************************************************)
(* Proofs about ClientSupervisor for any number of generations, failures   *)
(* and consumer paths; and about ControlPath for any number of cockpits.   *)
(***************************************************************************)
EXTENDS ClientSupervisor, ControlPath, FiniteSetTheorems, TLAPS

USE DEF linkVars, fwdVars, supVars, appVars

\* The supervisor's steps, those of the others, and the stuttering step.
LEMMA NextCases ==
    ASSUME [Next]_vars
    PROVE  \/ UNCHANGED vars
           \/ LinkDrops \/ WriteFails \/ CtxFreed \/ Close
           \/ \E g \in Gens : FwdStart(g) \/ FwdShutdown(g) \/ FwdDeath(g)
           \/ OnDead \/ ConnectOk \/ ConnectRetry \/ ConnectRefused \/ Backoff \/ Swap
           \/ ReplayStart \/ ReplayDone \/ ReplayCut \/ Drain \/ SupStop
           \/ \E s \in Slots : ReplaySkip(s) \/ ReplayOk(s) \/ ReplayFail(s)
           \/ \E s \in Slots : \/ Consume(s) \/ ConsumeAnswered(s) \/ ConsumeFails(s)
                               \/ ConsumeDone(s) \/ Withdraw(s)
           \/ set_auto_reconnect \/ DropSession
BY DEF Next, SupStep, FwdStep, ConsumeStep

\* Generations are the numbers 1 to MaxGen.
LEMMA GenFacts ==
    /\ 1 \in Gens
    /\ \A g \in Gens : g \in Nat /\ g # 0
    /\ \A g \in Gens : g < MaxGen => g + 1 \in Gens
BY BoundsAssumption DEF Gens

\* Every step of the supervisor, the forwarders and the slots keeps the types.
LEMMA TypeStep == TypeOK /\ Newest \in Gens /\ [Next]_vars => TypeOK'
<1> SUFFICES ASSUME TypeOK, Newest \in Gens, [Next]_vars PROVE TypeOK'
    OBVIOUS
<1> USE DEF TypeOK, Terminal
<1>1. CASE UNCHANGED vars
    BY <1>1 DEF vars
<1>2. CASE LinkDrops
    BY <1>2 DEF LinkDrops
<1>3. CASE WriteFails \/ CtxFreed
    BY <1>3 DEF WriteFails, CtxFreed
<1>4. CASE Close
    BY <1>4 DEF Close
<1>5. ASSUME NEW g \in Gens, FwdStart(g) \/ FwdShutdown(g) PROVE TypeOK'
    BY <1>5 DEF FwdStart, FwdShutdown
<1>6. ASSUME NEW g \in Gens, FwdDeath(g) PROVE TypeOK'
    <2>1. Append(dead, g) \in Seq(Gens)
        OBVIOUS
    <2> QED
        BY <1>6, <2>1 DEF FwdDeath, AfterDeath
<1>7. CASE OnDead
    <2>1. dead' \in Seq(Gens)
        BY <1>7 DEF OnDead
    <2>2. nonce' \in Gens \cup {0} /\ state' \in {"Connected", "Reconnecting"} \cup Terminal
        BY <1>7 DEF OnDead
    <2>3. sup' \in {"stopped", "connect"}
        BY <1>7 DEF OnDead
    <2> QED
        BY <1>7, <2>1, <2>2, <2>3 DEF OnDead
<1>8. CASE ConnectOk
    <2>1. presented' \in [Gens -> Nat]
        BY <1>8, GenFacts DEF ConnectOk, Present
    <2>2. gen + 1 \in Gens
        BY <1>8, GenFacts DEF ConnectOk
    <2>3. link' \in [Gens -> {"none", "up", "down"}]
        BY <1>8, <2>2 DEF ConnectOk
    <2> QED
        BY <1>8, <2>1, <2>3 DEF ConnectOk, NonceTaken
<1>9. CASE ConnectRetry
    <2>1. presented' \in [Gens -> Nat]
        <3>1. CASE Present
            BY <3>1 DEF Present
        <3> QED
            BY <1>9, <3>1 DEF ConnectRetry
    <2>2. fails' \in 0..MaxFail
        BY <1>9, BoundsAssumption DEF ConnectRetry
    <2> QED
        BY <1>9, <2>1, <2>2 DEF ConnectRetry, NonceTaken
<1>10. CASE ConnectRefused
    <2>1. presented' \in [Gens -> Nat]
        BY <1>10, GenFacts DEF ConnectRefused, Present
    <2> QED
        BY <1>10, <2>1 DEF ConnectRefused, NonceTaken
<1>11. CASE Backoff \/ ReplayDone \/ ReplayCut \/ ReplayStart
    BY <1>11 DEF Backoff, AfterBackoff, ReplayDone, ReplayCut, ReplayStart, REPLAY_ATTEMPTS
<1>12. CASE Swap
    BY <1>12 DEF Swap, Newest
<1>13. CASE SupStop
    BY <1>13 DEF SupStop, Newest
<1>14. CASE Drain
    <2>1. <<>> \in Seq(Gens)
        OBVIOUS
    <2> QED
        BY <1>14, <2>1 DEF Drain
<1>15. ASSUME NEW s \in Slots, ReplaySkip(s) \/ ReplayOk(s) \/ ReplayFail(s) PROVE TypeOK'
    <2>1. tries' \in 0..REPLAY_ATTEMPTS
        BY <1>15 DEF ReplaySkip, ReplayOk, ReplayFail, REPLAY_ATTEMPTS, AttemptsLeft
    <2>2. todo' \subseteq Slots /\ lost' \subseteq Slots
        BY <1>15 DEF ReplaySkip, ReplayOk, ReplayFail
    <2>3. pc' \in [Slots -> Gens \cup {0}]
        BY <1>15 DEF ReplaySkip, ReplayOk, ReplayFail
    <2> QED
        BY <1>15, <2>1, <2>2, <2>3 DEF ReplaySkip, ReplayOk, ReplayFail
<1>16. ASSUME NEW s \in Slots, \/ Consume(s) \/ ConsumeAnswered(s) \/ ConsumeFails(s)
                               \/ ConsumeDone(s) \/ Withdraw(s)
       PROVE  TypeOK'
    <2>1. path' \in [Slots -> {"unused", "asking", "wrapup", "open", "withdrawn"}]
        BY <1>16 DEF Consume, ConsumeAnswered, ConsumeFails, ConsumeDone, Withdraw
    <2>2. pc' \in [Slots -> Gens \cup {0}]
        BY <1>16 DEF Consume, ConsumeAnswered, ConsumeFails, ConsumeDone, Withdraw
    <2>3. lock' \in {"free", "app", "sup"}
        BY <1>16 DEF Consume, ConsumeAnswered, ConsumeFails, ConsumeDone, Withdraw
    <2> QED
        BY <1>16, <2>1, <2>2, <2>3
        DEF Consume, ConsumeAnswered, ConsumeFails, ConsumeDone, Withdraw
<1>17. CASE set_auto_reconnect \/ DropSession
    BY <1>17 DEF set_auto_reconnect, DropSession
<1> QED
    BY <1>1, <1>2, <1>3, <1>4, <1>5, <1>6, <1>7, <1>8, <1>9, <1>10, <1>11, <1>12, <1>13,
       <1>14, <1>15, <1>16, <1>17, NextCases

-----------------------------------------------------------------------------

\* The application's own steps and the replay of single slots touch nothing the
\* three invariants are about.
Quiet == UNCHANGED <<gen, link, raw, fwd, dead, sup, nonce, presented>>

\* Replays, consumes, withdrawals and the switches of the API change no session, ticket or notice.
LEMMA QuietSteps ==
    /\ UNCHANGED vars => Quiet
    /\ set_auto_reconnect \/ DropSession => Quiet
    /\ \A s \in Slots : ReplaySkip(s) \/ ReplayOk(s) \/ ReplayFail(s) => Quiet
    /\ \A s \in Slots : (\/ Consume(s) \/ ConsumeAnswered(s) \/ ConsumeFails(s)
                         \/ ConsumeDone(s) \/ Withdraw(s)) => Quiet
<1>1. UNCHANGED vars => Quiet
    BY DEF Quiet, vars
<1>2. set_auto_reconnect \/ DropSession => Quiet
    BY DEF Quiet, set_auto_reconnect, DropSession
<1>3. \A s \in Slots : ReplaySkip(s) \/ ReplayOk(s) \/ ReplayFail(s) => Quiet
    BY DEF Quiet, ReplaySkip, ReplayOk, ReplayFail
<1>4. \A s \in Slots : (\/ Consume(s) \/ ConsumeAnswered(s) \/ ConsumeFails(s)
                        \/ ConsumeDone(s) \/ Withdraw(s)) => Quiet
    BY DEF Quiet, Consume, ConsumeAnswered, ConsumeFails, ConsumeDone, Withdraw
<1> QED
    BY <1>1, <1>2, <1>3, <1>4

\* The order of the supervisor's steps: a generation gets its forwarder when it
\* is swapped in, and the one before it has exited by then.
LEMMA ForwarderStep == IInv /\ [Next]_vars => ForwarderInv'
<1> SUFFICES ASSUME IInv, [Next]_vars PROVE ForwarderInv'
    OBVIOUS
<1> USE DEF IInv, TypeOK, ForwarderInv, Newest
<1>1. CASE Quiet
    BY <1>1 DEF Quiet
<1>2. CASE LinkDrops
    <2>1. link'[Newest] = "down" /\ UNCHANGED <<gen, fwd, sup>>
        BY <1>2 DEF LinkDrops
    <2>2. \A g \in Gens : g # Newest => link'[g] = link[g] /\ raw'[g] = raw[g]
        BY <1>2 DEF LinkDrops
    <2> QED
        BY <2>1, <2>2, GenFacts
<1>3. CASE WriteFails \/ CtxFreed
    BY <1>3 DEF WriteFails, CtxFreed
<1>4. CASE Close
    BY <1>4, GenFacts DEF Close
<1>5. ASSUME NEW g \in Gens, FwdStart(g) \/ FwdShutdown(g) PROVE ForwarderInv'
    BY <1>5, GenFacts DEF FwdStart, FwdShutdown
<1>6. ASSUME NEW g \in Gens, FwdDeath(g) PROVE ForwarderInv'
    BY <1>6, GenFacts DEF FwdDeath, AfterDeath
<1>7. CASE OnDead
    BY <1>7 DEF OnDead
<1>8. CASE ConnectOk
    <2>1. gen + 1 \in Gens /\ gen \in Nat
        BY <1>8, GenFacts DEF ConnectOk
    <2>2. raw[gen + 1] = "quiet" /\ \A g \in Gens : g > gen => raw[g] = "quiet"
        BY <1>8, <2>1 DEF ConnectOk
    <2> QED
        BY <1>8, <2>1, <2>2, GenFacts DEF ConnectOk
<1>9. CASE ConnectRetry \/ ConnectRefused \/ Backoff
    BY <1>9 DEF ConnectRetry, ConnectRefused, Backoff, AfterBackoff
<1>10. CASE Swap
    <2>1. gen + 1 \in Gens /\ gen \in Nat
        BY <1>10, GenFacts DEF Swap
    <2>2. \A g \in Gens : g < gen + 1 => fwd[g] = "exit"
        BY <1>10, <2>1, GenFacts DEF Swap, MailboxInv, Replacing
    <2> QED
        BY <1>10, <2>1, <2>2, GenFacts DEF Swap
<1>11. CASE ReplayStart \/ ReplayDone \/ ReplayCut \/ Drain
    BY <1>11 DEF ReplayStart, ReplayDone, ReplayCut, Drain
<1>12. CASE SupStop
    BY <1>12, GenFacts DEF SupStop
<1> QED
    BY <1>1, <1>2, <1>3, <1>4, <1>5, <1>6, <1>7, <1>8, <1>9, <1>10, <1>11, <1>12,
       NextCases, QuietSteps

\* A notice is about the session in use, and that session is dead.
LEMMA MailboxStep == IInv /\ [Next]_vars => MailboxInv'
<1> SUFFICES ASSUME IInv, [Next]_vars PROVE MailboxInv'
    OBVIOUS
<1> USE DEF IInv, TypeOK, MailboxInv, Replacing
<1>1. CASE Quiet
    BY <1>1 DEF Quiet
<1>2. CASE LinkDrops
    BY <1>2 DEF LinkDrops, ForwarderInv
<1>3. CASE WriteFails \/ CtxFreed
    BY <1>3 DEF WriteFails, CtxFreed, ForwarderInv
<1>4. CASE Close
    BY <1>4 DEF Close
<1>5. ASSUME NEW g \in Gens, FwdStart(g) \/ FwdShutdown(g) PROVE MailboxInv'
    BY <1>5 DEF FwdStart, FwdShutdown
<1>6. ASSUME NEW g \in Gens, FwdDeath(g) PROVE MailboxInv'
    <2>1. g = gen
        <3>1. fwd[g] = "run" /\ g \in Nat /\ gen \in Nat
            BY <1>6, GenFacts DEF FwdDeath
        <3>2. ~(g < gen) /\ ~(g > gen)
            BY <3>1 DEF ForwarderInv
        <3> QED
            BY <3>1, <3>2
    <2>2. dead = <<>> /\ sup \notin Replacing /\ link[gen] = "down"
        BY <1>6, <2>1 DEF FwdDeath, ForwarderInv
    <2>3. dead' = <<gen>>
        BY <1>6, <2>1, <2>2 DEF FwdDeath
    <2> QED
        BY <1>6, <2>1, <2>2, <2>3 DEF FwdDeath, AfterDeath
<1>7. CASE OnDead
    <2>1. Tail(<<gen>>) = <<>>
        OBVIOUS
    <2> QED
        BY <1>7, <2>1 DEF OnDead
<1>8. CASE ConnectOk
    BY <1>8, GenFacts DEF ConnectOk
<1>9. CASE ConnectRetry \/ ConnectRefused \/ Backoff
    BY <1>9 DEF ConnectRetry, ConnectRefused, Backoff, AfterBackoff
<1>10. CASE Swap
    BY <1>10 DEF Swap
<1>11. CASE ReplayStart \/ ReplayDone \/ ReplayCut \/ Drain
    BY <1>11 DEF ReplayStart, ReplayDone, ReplayCut, Drain
<1>12. CASE SupStop
    BY <1>12, GenFacts DEF SupStop
<1> QED
    BY <1>1, <1>2, <1>3, <1>4, <1>5, <1>6, <1>7, <1>8, <1>9, <1>10, <1>11, <1>12,
       NextCases, QuietSteps

\* The attempt that presents a ticket no longer holds it afterwards.
LEMMA NonceStep == IInv /\ [Next]_vars => NonceInv'
<1> SUFFICES ASSUME IInv, [Next]_vars PROVE NonceInv'
    OBVIOUS
<1> USE DEF IInv, TypeOK, NonceInv
<1>1. CASE Quiet
    BY <1>1 DEF Quiet
<1>2. CASE UNCHANGED <<gen, sup, nonce, presented>>
    BY <1>2
<1>3. CASE LinkDrops \/ WriteFails \/ CtxFreed \/ Close
    BY <1>3, <1>2 DEF LinkDrops, WriteFails, CtxFreed, Close
<1>4. ASSUME NEW g \in Gens, FwdStart(g) \/ FwdShutdown(g) \/ FwdDeath(g) PROVE NonceInv'
    BY <1>4, <1>2 DEF FwdStart, FwdShutdown, FwdDeath
<1>5. CASE OnDead
    BY <1>5 DEF OnDead
<1>6. CASE ConnectOk \/ ConnectRetry \/ ConnectRefused
    <2>1. nonce' = 0 /\ gen' = gen /\ sup = "connect" /\ sup' \in {"swap", "backoff", "stopped"}
        BY <1>6 DEF ConnectOk, ConnectRetry, ConnectRefused, NonceTaken
    <2>2. Present \/ UNCHANGED presented
        BY <1>6 DEF ConnectOk, ConnectRetry, ConnectRefused
    <2>3. \A g \in Gens : presented'[g] <= 1 /\ (g > gen => presented'[g] = 0)
        BY <2>1, <2>2, GenFacts DEF Present
    <2> QED
        BY <2>1, <2>3
<1>7. CASE Backoff
    BY <1>7 DEF Backoff, AfterBackoff
<1>8. CASE Swap
    <2>1. gen + 1 \in Gens /\ gen \in Nat
        BY <1>8, GenFacts DEF Swap, ForwarderInv, Newest
    <2> QED
        BY <1>8, <2>1, GenFacts DEF Swap
<1>9. CASE ReplayStart \/ ReplayDone \/ ReplayCut \/ Drain
    BY <1>9 DEF ReplayStart, ReplayDone, ReplayCut, Drain
<1>10. CASE SupStop
    BY <1>10 DEF SupStop
<1> QED
    BY <1>1, <1>3, <1>4, <1>5, <1>6, <1>7, <1>8, <1>9, <1>10, NextCases, QuietSteps

\* The inductive invariant holds of a client that has just connected.
LEMMA InitIInv == Init => IInv
<1> SUFFICES ASSUME Init PROVE IInv
    OBVIOUS
<1> USE GenFacts DEF Init
<1>1. TypeOK
    <2>1. 0 \in 0..MaxFail /\ 0 \in 0..REPLAY_ATTEMPTS
        BY BoundsAssumption DEF REPLAY_ATTEMPTS
    <2>2. <<>> \in Seq(Gens)
        OBVIOUS
    <2> QED
        BY <2>1, <2>2 DEF TypeOK
<1>2. ForwarderInv
    BY DEF ForwarderInv, Newest
<1>3. MailboxInv
    BY DEF MailboxInv, Replacing
<1>4. NonceInv
    BY DEF NonceInv
<1> QED
    BY <1>1, <1>2, <1>3, <1>4 DEF IInv

\* The strengthening holds in every reachable state.
THEOREM Inductive == Spec => []IInv
<1>1. IInv /\ [Next]_vars => IInv'
    BY TypeStep, ForwarderStep, MailboxStep, NonceStep DEF IInv, ForwarderInv
<1> QED
    BY InitIInv, <1>1, PTL DEF Spec

\* Every table and program counter of the client keeps its type.
THEOREM TypeCorrect == Spec => []TypeOK
<1>1. IInv => TypeOK
    BY DEF IInv
<1> QED
    BY Inductive, <1>1, PTL

\* pending_nonce.take() makes the re-attach ticket one-shot: no RoomJoin after
\* the first attempt carries it, for any number of attempts and reconnections.
THEOREM TicketOnceHolds == Spec => []TicketPresentedOnce
<1>1. IInv => TicketPresentedOnce
    BY DEF IInv, NonceInv, TicketPresentedOnce
<1> QED
    BY Inductive, <1>1, PTL

\* run_supervisor replaces a session only after that session's own death.
THEOREM OnlyDeadReplacedHolds == Spec => []OnlyDeadLinksReplaced
<1>1. IInv => OnlyDeadLinksReplaced
    BY DEF IInv, MailboxInv, Replacing, OnlyDeadLinksReplaced
<1> QED
    BY Inductive, <1>1, PTL

\* A notice in the dead mailbox is about the session in use: the forwarder of a
\* replaced session has exited before the session is released.
THEOREM NoticesCurrentHolds == Spec => []NoticesAreCurrent
<1>1. IInv => NoticesAreCurrent
    <2> SUFFICES ASSUME IInv, NEW i \in DOMAIN dead PROVE dead[i] = gen
        BY DEF NoticesAreCurrent
    <2>1. dead # <<>>
        OBVIOUS
    <2>2. dead = <<gen>>
        BY <2>1 DEF IInv, MailboxInv
    <2> QED
        BY <2>2
<1> QED
    BY Inductive, <1>1, PTL

-----------------------------------------------------------------------------
\* consume_lock: the replay or one consume has it.
Asking == {s \in Slots : path[s] \in {"asking", "wrapup"}}
LockInv ==
    /\ (sup = "replay") = (lock = "sup")
    /\ Asking # {} => lock = "app"
    /\ \A s, t \in Asking : s = t

\* A path that is open or being opened is on the session in use, was given up,
\* or has yet to be replayed.
Followed ==
    ~shutdown =>
        /\ sup \in {"drain", "wait"} => \A s \in Slots :
              path[s] \in {"asking", "wrapup", "open"} => pc[s] = gen \/ s \in lost
        /\ sup = "replay" => \A s \in Slots :
              path[s] = "open" => pc[s] = gen \/ s \in lost \cup todo
PathInv == LockInv /\ Followed


\* Sessions, forwarders and the reconnect chain leave consume_lock and the paths alone.
LEMMA PathQuiet ==
    ASSUME PathInv, UNCHANGED <<lock, path, pc>>, UNCHANGED shutdown \/ shutdown',
           \/ UNCHANGED <<gen, sup, lost, todo>>
           \/ sup # "replay" /\ sup' \in {"connect", "backoff", "swap", "lock", "stopped"}
           \/ sup = "drain" /\ sup' = "wait" /\ UNCHANGED <<gen, lost, todo>>
    PROVE  PathInv'
BY DEF PathInv, LockInv, Followed, Asking

\* The application's consume takes the lock for one path at a time.
LEMMA AppPaths ==
    ASSUME TypeOK, PathInv, NEW s \in Slots,
           Consume(s) \/ ConsumeAnswered(s) \/ ConsumeFails(s) \/ ConsumeDone(s) \/ Withdraw(s)
    PROVE  PathInv'
<1> USE DEF TypeOK, PathInv, LockInv, Followed, Asking
<1>1. CASE Consume(s)
    <2>1. \A t \in Slots : path[t] \notin {"asking", "wrapup"}
        BY <1>1 DEF Consume, LockFree
    <2>2. /\ path' = [path EXCEPT ![s] = "asking"] /\ pc' = [pc EXCEPT ![s] = gen]
          /\ lock = "free" /\ lock' = "app" /\ UNCHANGED <<gen, sup, shutdown, todo, lost>>
        BY <1>1 DEF Consume, LockFree
    <2> QED
        BY <2>1, <2>2
<1>2. CASE ConsumeAnswered(s)
    <2>1. /\ path[s] = "asking" /\ path' = [path EXCEPT ![s] = "wrapup"]
          /\ UNCHANGED <<gen, sup, shutdown, todo, lost, pc, lock>>
        BY <1>2 DEF ConsumeAnswered
    <2> QED
        BY <2>1
<1>3. CASE ConsumeFails(s) \/ ConsumeDone(s)
    <2>1. /\ s \in Asking /\ lock' = "free" /\ lock = "app"
          /\ UNCHANGED <<gen, sup, shutdown, todo, lost, pc>>
        BY <1>3 DEF ConsumeFails, ConsumeDone
    <2>2. PICK x \in {"unused", "open"} : path' = [path EXCEPT ![s] = x]
        BY <1>3 DEF ConsumeFails, ConsumeDone
    <2>3. Asking' = {}
        BY <2>1, <2>2
    <2>4. Followed'
        BY <2>1, <2>2
    <2>5. sup # "replay"
        BY <2>1
    <2> QED
        BY <2>1, <2>3, <2>4, <2>5
<1>4. CASE Withdraw(s)
    <2>1. /\ path[s] = "open" /\ path' = [path EXCEPT ![s] = "withdrawn"]
          /\ UNCHANGED <<gen, sup, shutdown, todo, lost, pc, lock>>
        BY <1>4 DEF Withdraw
    <2> QED
        BY <2>1
<1> QED
    BY <1>1, <1>2, <1>3, <1>4

\* The replay copies the open paths under the lock and moves or gives up each.
LEMMA ReplayPaths ==
    ASSUME TypeOK, PathInv,
           \/ ReplayStart \/ ReplayDone \/ ReplayCut
           \/ \E s \in Slots : ReplaySkip(s) \/ ReplayOk(s) \/ ReplayFail(s)
    PROVE  PathInv'
<1> USE DEF TypeOK, PathInv, LockInv, Followed, Asking
<1>1. CASE ReplayStart
    BY <1>1 DEF ReplayStart, LockFree
<1>2. CASE ReplayDone
    BY <1>2 DEF ReplayDone
<1>3. CASE ReplayCut
    BY <1>3 DEF ReplayCut
<1>4. ASSUME NEW s \in Slots, ReplaySkip(s) PROVE PathInv'
    BY <1>4 DEF ReplaySkip
<1>5. ASSUME NEW s \in Slots, ReplayOk(s) PROVE PathInv'
    BY <1>5 DEF ReplayOk
<1>6. ASSUME NEW s \in Slots, ReplayFail(s) PROVE PathInv'
    BY <1>6 DEF ReplayFail
<1> QED
    BY <1>1, <1>2, <1>3, <1>4, <1>5, <1>6

\* Whoever takes or releases consume_lock keeps every path accounted for.
LEMMA PathStep == TypeOK /\ PathInv /\ [Next]_vars => PathInv'
<1> SUFFICES ASSUME TypeOK, PathInv, [Next]_vars PROVE PathInv'
    OBVIOUS
<1>1. CASE UNCHANGED vars
    BY <1>1, PathQuiet DEF vars
<1>2. CASE LinkDrops \/ WriteFails \/ CtxFreed \/ Close \/ set_auto_reconnect \/ DropSession
    BY <1>2, PathQuiet DEF LinkDrops, WriteFails, CtxFreed, Close, set_auto_reconnect, DropSession
<1>3. CASE \E g \in Gens : FwdStart(g) \/ FwdShutdown(g) \/ FwdDeath(g)
    BY <1>3, PathQuiet DEF FwdStart, FwdShutdown, FwdDeath
<1>4. CASE OnDead
    BY <1>4, PathQuiet DEF OnDead
<1>5. CASE ConnectOk \/ ConnectRetry \/ ConnectRefused
    BY <1>5, PathQuiet DEF ConnectOk, ConnectRetry, ConnectRefused
<1>6. CASE Backoff \/ Swap \/ Drain
    BY <1>6, PathQuiet DEF Backoff, Swap, Drain, AfterBackoff
<1>7. CASE SupStop
    BY <1>7 DEF SupStop, PathInv, LockInv, Followed, Asking, TypeOK
<1> QED
    BY <1>1, <1>2, <1>3, <1>4, <1>5, <1>6, <1>7, NextCases, AppPaths, ReplayPaths

\* Whenever the session serves again, every open path is on the current
\* generation or was given up, for any number of paths and reconnections: a
\* consume that straddles the swap holds consume_lock until it has registered
\* its slot, so the replay that waits for the lock sees it.
THEOREM PathsFollowHolds == Spec => []PathsFollowSession
<1>1. Init => PathInv
    BY DEF Init, PathInv, LockInv, Followed, Asking
<1>2. IInv => TypeOK
    BY DEF IInv
<1>3. PathInv => PathsFollowSession
    BY DEF PathInv, Followed, PathsFollowSession
<1> QED
    BY <1>1, <1>2, <1>3, PathStep, Inductive, PTL DEF Spec

----------------------------------------------------------------------------
(***************************************************************************)
(* The control path                                                        *)
(*                                                                         *)
(* An acknowledgement says what the controller did with one command that   *)
(* was sent; queues and streams only move such acknowledgements, and a     *)
(* cockpit takes one only by its number.                                   *)
(***************************************************************************)

Commands == [from : Cockpits, seq : Seqs, sig : Sigs]
Acks == [seq : Seqs, ok : BOOLEAN, of : Commands]

\* An acknowledgement on its way: it is about a command that was sent, has its number,
\* and says what the policy says of its signature; what it calls executed was.
Genuine(a) ==
    /\ a \in Acks /\ a.of \in sent /\ a.seq = a.of.seq
    /\ a.ok <=> estop_verdict(a.of.sig)
    /\ a.ok => a.of \in acted

\* Commands and acknowledgements, wherever they are.
SentInv ==
    /\ sent \subseteq Commands /\ acted \subseteq sent
    /\ \A x \in acted : estop_verdict(x.sig)
QueueInv ==
    /\ \E S : cmds \in Seq(S)
    /\ \A i \in DOMAIN cmds : cmds[i].cmd \in sent
StreamInv ==
    /\ acks \in [Cockpits -> Seq(Acks)]
    /\ \A c \in Cockpits : \A i \in DOMAIN acks[c] : Genuine(acks[c][i])
CallInv ==
    /\ got \in [Cockpits -> {None} \cup [want : Seqs, ack : {None} \cup Acks]]
    /\ \A c \in Cockpits :
         got[c] # None /\ got[c].ack # None =>
           Genuine(got[c].ack) /\ got[c].ack.seq = got[c].want
AckInv == SentInv /\ QueueInv /\ StreamInv /\ CallInv

\* The verdict on a signature is yes or no.
LEMMA VerdictIsBoolean == \A s : estop_verdict(s) \in BOOLEAN
BY DEF estop_verdict

\* A sequence over a set is one over any larger set.
LEMMA SeqOfMore == ASSUME NEW S, NEW T, S \subseteq T, NEW s \in Seq(S) PROVE s \in Seq(T)
OBVIOUS

\* Nothing is sent at the start.
LEMMA AckStart == ControlInit => AckInv
<1> SUFFICES ASSUME ControlInit PROVE AckInv
  OBVIOUS
<1>1. SentInv BY DEF ControlInit, SentInv
<1>2. QueueInv BY DEF ControlInit, QueueInv
<1>3. StreamInv BY DEF ControlInit, StreamInv
<1>4. CallInv BY DEF ControlInit, CallInv
<1> QED BY <1>1, <1>2, <1>3, <1>4 DEF AckInv

\* What is genuine stays so: commands are only added and the policy does not change.
LEMMA StaysGenuine ==
  ASSUME NEW a, Genuine(a), sent \subseteq sent', acted \subseteq acted', policy' = policy
  PROVE  Genuine(a)'
BY DEF Genuine, estop_verdict

\* Steps that leave commands and acknowledgements alone keep the invariant.
LEMMA AckUnchanged == ASSUME AckInv, UNCHANGED stops PROVE AckInv'
<1> USE DEF stops
<1>0. \A a : Genuine(a) => Genuine(a)'
  BY StaysGenuine
<1>1. SentInv' BY DEF AckInv, SentInv, estop_verdict
<1>2. QueueInv' BY DEF AckInv, QueueInv
<1>3. StreamInv' BY <1>0 DEF AckInv, StreamInv
<1>4. CallInv' BY <1>0 DEF AckInv, CallInv
<1> QED BY <1>1, <1>2, <1>3, <1>4 DEF AckInv

\* So does the exit of the controller.
LEMMA AckExit == ASSUME AckInv, CtlExit PROVE AckInv'
<1> USE DEF CtlExit
<1>0. \A a : Genuine(a) => Genuine(a)'
  BY StaysGenuine
<1>1. SentInv' BY DEF AckInv, SentInv, estop_verdict
<1>2. QueueInv' BY DEF QueueInv
<1>3. StreamInv' BY <1>0 DEF AckInv, StreamInv
<1>4. CallInv' BY <1>0 DEF AckInv, CallInv
<1> QED BY <1>1, <1>2, <1>3, <1>4 DEF AckInv

\* A new emergency stop is in sent before it is queued.
LEMMA AckStop ==
  ASSUME AckInv, NEW c \in Cockpits, NEW n \in Seqs, NEW s \in Sigs,
         emergency_stop(c, n, s)
  PROVE  AckInv'
<1> DEFINE cmd == [from |-> c, seq |-> n, sig |-> s]
<1>a. /\ sent' = sent \cup {cmd} /\ UNCHANGED <<policy, acted, acks>>
      /\ cmds' \in {cmds, Append(cmds, [cmd |-> cmd, dp |-> main[c].dp])}
      /\ got' = [got EXCEPT ![c] = [want |-> n, ack |-> None]]
      /\ cmd \in Commands
  BY DEF emergency_stop, Commands
<1> HIDE DEF cmd
<1>0. \A a : Genuine(a) => Genuine(a)'
  BY <1>a, StaysGenuine
<1>1. SentInv' BY <1>a DEF AckInv, SentInv, estop_verdict
<1>2. QueueInv'
  <2> DEFINE e == [cmd |-> cmd, dp |-> main[c].dp]
  <2>0. e.cmd = cmd OBVIOUS
  <2> HIDE DEF e
  <2>1. PICK S : cmds \in Seq(S)
    BY DEF AckInv, QueueInv
  <2>2. cmds \in Seq(S \cup {e})
    BY <2>1, SeqOfMore
  <2>3. cmds' \in {cmds, Append(cmds, e)}
    BY <1>a DEF e
  <2>4. cmds' \in Seq(S \cup {e})
    BY <2>2, <2>3
  <2>5. \A i \in DOMAIN cmds' : cmds'[i].cmd \in sent'
    BY <1>a, <2>0, <2>2, <2>3 DEF AckInv, QueueInv
  <2> QED BY <2>4, <2>5 DEF QueueInv
<1>3. StreamInv' BY <1>a, <1>0 DEF AckInv, StreamInv
<1>4. CallInv'
  <2>1. got' \in [Cockpits -> {None} \cup [want : Seqs, ack : {None} \cup Acks]]
    BY <1>a DEF AckInv, CallInv
  <2>2. ASSUME NEW d \in Cockpits, (got[d] # None /\ got[d].ack # None)'
        PROVE  (Genuine(got[d].ack) /\ got[d].ack.seq = got[d].want)'
    <3>1. d # c /\ got'[d] = got[d]
      BY <1>a, <2>2 DEF AckInv, CallInv
    <3> QED BY <1>0, <2>2, <3>1 DEF AckInv, CallInv
  <2> QED BY <2>1, <2>2 DEF CallInv
<1> QED BY <1>1, <1>2, <1>3, <1>4 DEF AckInv

\* The controller acknowledges the command it takes, after acting on it.
LEMMA AckHandled == ASSUME AckInv, handle_command PROVE AckInv'
<1>a. PICK cmd : cmd = Head(cmds).cmd
  OBVIOUS
<1>b. PICK ok : ok = estop_verdict(cmd.sig)
  OBVIOUS
<1>c. PICK ack : ack = [seq |-> cmd.seq, ok |-> ok, of |-> cmd]
  OBVIOUS
<1>1. /\ cmds # <<>> /\ cmds' = Tail(cmds) /\ UNCHANGED <<policy, sent, got>>
      /\ \/ UNCHANGED <<acted, acks>>
         \/ /\ acted' = (IF ok THEN acted \cup {cmd} ELSE acted)
            /\ acks' = [c \in Cockpits |-> acks'[c]]
            /\ \A c \in Cockpits : acks'[c] \in {acks[c], Append(acks[c], ack)}
  BY <1>a, <1>b, <1>c DEF handle_command
<1>2. cmd \in sent /\ cmd \in Commands
  BY <1>a, <1>1 DEF AckInv, QueueInv, SentInv
<1>3. ok \in BOOLEAN
  BY <1>b, VerdictIsBoolean
<1>4. sent \subseteq sent' /\ acted \subseteq acted' /\ policy' = policy
  BY <1>1
<1>0. \A a : Genuine(a) => Genuine(a)'
  BY <1>4, StaysGenuine
<1>5. SentInv'
  <2>1. \A x : estop_verdict(x)' <=> estop_verdict(x)
    BY <1>1 DEF estop_verdict
  <2>2. \A x \in acted' : x \in acted \/ (x = cmd /\ ok)
    BY <1>1
  <2>3. \A x \in acted' : estop_verdict(x.sig)
    BY <1>b, <2>2 DEF AckInv, SentInv
  <2>4. acted' \subseteq sent'
    BY <1>1, <1>2, <2>2 DEF AckInv, SentInv
  <2> QED BY <1>1, <2>1, <2>3, <2>4 DEF AckInv, SentInv
<1>6. QueueInv'
  <2>1. PICK S : cmds \in Seq(S)
    BY DEF AckInv, QueueInv
  <2>2. cmds' \in Seq(S) /\ \A i \in DOMAIN cmds' : cmds'[i] = cmds[i + 1] /\ i + 1 \in DOMAIN cmds
    BY <1>1, <2>1
  <2> QED BY <1>1, <2>2 DEF AckInv, QueueInv
<1>7. CallInv' BY <1>0, <1>1 DEF AckInv, CallInv
<1>8. StreamInv'
  <2>1. CASE UNCHANGED <<acted, acks>>
    BY <1>0, <2>1 DEF AckInv, StreamInv
  <2>2. CASE ~UNCHANGED <<acted, acks>>
    <3>1. acted' = (IF ok THEN acted \cup {cmd} ELSE acted)
      BY <1>1, <2>2
    <3>2. /\ acks' = [c \in Cockpits |-> acks'[c]]
          /\ \A c \in Cockpits : acks'[c] \in {acks[c], Append(acks[c], ack)}
      BY <1>1, <2>2
    <3>3. ack \in Acks
      BY <1>2, <1>3, <1>c DEF Acks, Commands
    <3>4. ack.of = cmd /\ ack.ok = ok /\ ack.seq = cmd.seq
      BY <1>c
    <3>5. estop_verdict(cmd.sig)' <=> ok
      BY <1>1, <1>b DEF estop_verdict
    <3>6. Genuine(ack)'
      BY <1>1, <1>2, <3>1, <3>3, <3>4, <3>5 DEF Genuine
    <3>7. ASSUME NEW c \in Cockpits
          PROVE  acks'[c] \in Seq(Acks) /\ (\A i \in DOMAIN acks[c] : Genuine(acks[c][i]))'
      <4>0. PICK s : s = acks[c]
        OBVIOUS
      <4>1. s \in Seq(Acks) /\ \A i \in DOMAIN s : Genuine(s[i])'
        BY <1>0, <4>0 DEF AckInv, StreamInv
      <4>2. acks'[c] \in {s, Append(s, ack)}
        BY <3>2, <4>0
      <4> QED BY <3>3, <3>6, <4>1, <4>2
    <3> QED BY <3>2, <3>7 DEF StreamInv
  <2> QED BY <2>1, <2>2
<1> QED BY <1>5, <1>6, <1>7, <1>8 DEF AckInv

\* A cockpit takes only the acknowledgement with the number it waits for.
LEMMA AckTaken == ASSUME AckInv, NEW c \in Cockpits, recv_ack_for(c) PROVE AckInv'
<1>1. /\ acks[c] # <<>> /\ got[c] # None /\ UNCHANGED <<policy, cmds, acted, sent>>
      /\ acks' = [acks EXCEPT ![c] = Tail(acks[c])]
      /\ got' = (IF Head(acks[c]).seq = got[c].want
                 THEN [got EXCEPT ![c].ack = Head(acks[c])] ELSE got)
  BY DEF recv_ack_for, Pairs
<1>0. \A a : Genuine(a) => Genuine(a)'
  BY <1>1, StaysGenuine
<1>2. SentInv' BY <1>1 DEF AckInv, SentInv, estop_verdict
<1>3. QueueInv' BY <1>1 DEF AckInv, QueueInv
<1>4. acks[c] \in Seq(Acks) /\ Head(acks[c]) \in Acks /\ Genuine(Head(acks[c]))
  BY <1>1 DEF AckInv, StreamInv
<1>5. StreamInv'
  <2>1. ASSUME NEW d \in Cockpits
        PROVE  acks'[d] \in Seq(Acks) /\ (\A i \in DOMAIN acks[d] : Genuine(acks[d][i]))'
    <3>0. PICK s : s = acks[d]
      OBVIOUS
    <3>1. s \in Seq(Acks) /\ \A i \in DOMAIN s : Genuine(s[i])'
      BY <1>0, <3>0 DEF AckInv, StreamInv
    <3>2. acks'[d] = s \/ (s # <<>> /\ acks'[d] = Tail(s))
      BY <1>1, <3>0 DEF AckInv, StreamInv
    <3>3. s # <<>> => /\ Tail(s) \in Seq(Acks)
                      /\ \A i \in DOMAIN Tail(s) : Tail(s)[i] = s[i + 1] /\ i + 1 \in DOMAIN s
      BY <3>1
    <3> QED BY <3>1, <3>2, <3>3
  <2> QED BY <1>1, <2>1 DEF AckInv, StreamInv
<1>6. CallInv'
  <2>1. got' \in [Cockpits -> {None} \cup [want : Seqs, ack : {None} \cup Acks]]
    BY <1>1, <1>4 DEF AckInv, CallInv
  <2>2. ASSUME NEW d \in Cockpits, (got[d] # None /\ got[d].ack # None)'
        PROVE  (Genuine(got[d].ack) /\ got[d].ack.seq = got[d].want)'
    <3>1. \/ got'[d] = got[d]
          \/ /\ Head(acks[c]).seq = got[c].want
             /\ got'[d].ack = Head(acks[c]) /\ got'[d].want = got[c].want
      BY <1>1 DEF AckInv, CallInv
    <3> QED BY <1>0, <1>4, <2>2, <3>1 DEF AckInv, CallInv
  <2> QED BY <2>1, <2>2 DEF CallInv
<1> QED BY <1>2, <1>3, <1>5, <1>6 DEF AckInv

\* Only four steps touch commands and acknowledgements.
LEMMA OtherSteps ==
  ASSUME [ControlNext]_controlvars
  PROVE  \/ UNCHANGED stops \/ CtlExit \/ handle_command
         \/ \E c \in Cockpits : recv_ack_for(c)
         \/ \E c \in Cockpits, n \in Seqs, s \in Sigs : emergency_stop(c, n, s)
<1>1. CASE UNCHANGED controlvars
  BY <1>1 DEF controlvars
<1>2. CASE Controller
  BY <1>2 DEF Controller, CtlStart, SetupSend, SetupAck,
     SetupRecv, SetupOther, OnNewDataProducer,
     OnDataConsumed, OnProducerClosed, OnOther, CtlOnly
<1>3. CASE UpDrop \/ UpJoin
  BY <1>3 DEF UpDrop, UpJoin
<1>4. ASSUME NEW c \in Cockpits, Client(c) PROVE
         \/ UNCHANGED stops \/ recv_ack_for(c)
         \/ \E n \in Seqs, s \in Sigs : emergency_stop(c, n, s)
  <2> USE DEF Cockpit
  <2>1. CASE \/ Join(c) \/ Subscribe(c) \/ open_control(c)
             \/ consume(c) \/ MainAnswer(c) \/ MainOther(c)
             \/ RouterCaps(c) \/ MainTimeout(c) \/ LinkDrop(c)
    BY <2>1 DEF Join, Subscribe, open_control, consume,
       MainAnswer, MainOther, RouterCaps, MainTimeout,
       LinkDrop
  <2>2. CASE \/ DrainBacklog(c) \/ PumpSeed(c) \/ PumpWait(c)
             \/ PumpTransport(c) \/ PumpConsumed(c)
             \/ PumpOther(c) \/ PumpTimeout(c)
    BY <2>2 DEF DrainBacklog, PumpSeed, PumpWait, PumpTransport,
       PumpConsumed, PumpOther, PumpTimeout
  <2> QED BY <1>4, <2>1, <2>2 DEF Client
<1>5. ASSUME NEW k, Server(k) PROVE UNCHANGED stops
  BY <1>5 DEF Server, Serve, Reply, Relay, Replay,
     Reclaim
<1> QED BY <1>1, <1>2, <1>3, <1>4, <1>5 DEF ControlNext

\* Every step keeps the invariant.
LEMMA AckStep == ASSUME AckInv, [ControlNext]_controlvars PROVE AckInv'
BY OtherSteps, AckUnchanged, AckExit, AckHandled, AckTaken, AckStop

(* AckIsMine: the acknowledgement a cockpit takes for its stop answers a command of its
   own with that number and says executed exactly if it was executed, unless two
   cockpits used one number. *)
THEOREM AckIsMineHolds == ControlSpec => []AckIsMine
<1>1. AckInv => AckIsMine
  <2> SUFFICES ASSUME AckInv, NEW c \in Cockpits, got[c] # None /\ got[c].ack # None,
                      \A x \in sent : x.seq = got[c].want => x.from = c
               PROVE  /\ got[c].ack.of.from = c
                      /\ got[c].ack.of.seq = got[c].want
                      /\ got[c].ack.ok <=> got[c].ack.of \in acted
    BY DEF AckIsMine
  <2>1. Genuine(got[c].ack) /\ got[c].ack.seq = got[c].want
    BY DEF AckInv, CallInv
  <2> QED BY <2>1 DEF Genuine, AckInv, SentInv
<1> QED BY <1>1, AckStart, AckStep, PTL DEF ControlSpec

(***************************************************************************)
(* What is announced to the controller is served: OpenProducerServed.      *)
(***************************************************************************)

\* A sequence of anything.
IsSeq(s) == \E S : s \in Seq(S)

\* What a sequence without its head still holds.
LEMMA TailItems ==
  ASSUME NEW s, IsSeq(s), s # << >>
  PROVE  IsSeq(Tail(s)) /\ Items(s) = {Head(s)} \cup Items(Tail(s))
<1>1. PICK S : s \in Seq(S)
  BY DEF IsSeq
<1>2. Tail(s) \in Seq(S) /\ Head(s) = s[1] /\ Len(s) \in Nat /\ Len(s) > 0 /\ DOMAIN s = 1 .. Len(s)
      /\ DOMAIN Tail(s) = 1 .. Len(s) - 1 /\ \A i \in 1 .. Len(s) - 1 : Tail(s)[i] = s[i + 1]
  BY <1>1
<1>3. ASSUME NEW x \in Items(s) PROVE x \in {Head(s)} \cup Items(Tail(s))
  <2>1. PICK i \in 1 .. Len(s) : x = s[i]
    BY <1>2 DEF Items, ToSet
  <2>2. CASE i = 1
    BY <1>2, <2>1, <2>2
  <2>3. CASE i # 1
    <3>1. i - 1 \in 1 .. Len(s) - 1 /\ Tail(s)[i - 1] = x
      BY <1>2, <2>1, <2>3
    <3> QED BY <1>2, <3>1 DEF Items, ToSet
  <2> QED BY <2>2, <2>3
<1>4. ASSUME NEW x \in {Head(s)} \cup Items(Tail(s)) PROVE x \in Items(s)
  <2>1. CASE x = Head(s)
    BY <1>2, <2>1 DEF Items, ToSet
  <2>2. CASE x \in Items(Tail(s))
    <3>1. PICK i \in 1 .. Len(s) - 1 : x = Tail(s)[i]
      BY <1>2, <2>2 DEF Items, ToSet
    <3>2. i + 1 \in DOMAIN s /\ s[i + 1] = x
      BY <1>2, <3>1
    <3> QED BY <3>2 DEF Items, ToSet
  <2> QED BY <2>1, <2>2
<1> QED BY <1>2, <1>3, <1>4 DEF IsSeq

\* What a sequence holds after one more,
LEMMA AppendItems ==
  ASSUME NEW s, NEW m, IsSeq(s)
  PROVE  IsSeq(Append(s, m)) /\ Items(Append(s, m)) = Items(s) \cup {m}
<1>1. PICK S : s \in Seq(S)
  BY DEF IsSeq
<1>2. s \in Seq(S \cup {m})
  BY <1>1
<1>3. /\ Append(s, m) \in Seq(S \cup {m}) /\ Len(s) \in Nat /\ DOMAIN s = 1 .. Len(s)
      /\ DOMAIN Append(s, m) = 1 .. Len(s) + 1 /\ Append(s, m)[Len(s) + 1] = m
      /\ \A i \in 1 .. Len(s) : Append(s, m)[i] = s[i]
  BY <1>2
<1>4. ASSUME NEW x \in Items(Append(s, m)) PROVE x \in Items(s) \cup {m}
  BY <1>3 DEF Items, ToSet
<1>5. ASSUME NEW x \in Items(s) \cup {m} PROVE x \in Items(Append(s, m))
  <2>1. CASE x = m
    <3>1. Len(s) + 1 \in 1 .. Len(s) + 1
      BY <1>3
    <3> QED BY <1>3, <2>1, <3>1 DEF Items, ToSet
  <2>2. CASE x \in Items(s)
    BY <1>3, <2>2 DEF Items, ToSet
  <2> QED BY <2>1, <2>2
<1> QED BY <1>3, <1>4, <1>5 DEF IsSeq

\* and after several more.
LEMMA CatItems ==
  ASSUME NEW s, NEW t, IsSeq(s), IsSeq(t)
  PROVE  IsSeq(s \o t) /\ Items(s \o t) = Items(s) \cup Items(t)
<1>1. PICK S : s \in Seq(S)
  BY DEF IsSeq
<1>2. PICK T : t \in Seq(T)
  BY DEF IsSeq
<1>3. s \in Seq(S \cup T) /\ t \in Seq(S \cup T)
  BY <1>1, <1>2
<1>4. /\ s \o t \in Seq(S \cup T) /\ Len(s) \in Nat /\ Len(t) \in Nat
      /\ DOMAIN s = 1 .. Len(s) /\ DOMAIN t = 1 .. Len(t)
      /\ DOMAIN (s \o t) = 1 .. Len(s) + Len(t)
      /\ \A i \in 1 .. Len(s) : (s \o t)[i] = s[i]
      /\ \A i \in Len(s) + 1 .. Len(s) + Len(t) : (s \o t)[i] = t[i - Len(s)]
  BY <1>3
<1>5. ASSUME NEW x \in Items(s \o t) PROVE x \in Items(s) \cup Items(t)
  <2>1. PICK i \in 1 .. Len(s) + Len(t) : x = (s \o t)[i]
    BY <1>4 DEF Items, ToSet
  <2>2. CASE i \in 1 .. Len(s)
    BY <1>4, <2>1, <2>2 DEF Items, ToSet
  <2>3. CASE i \notin 1 .. Len(s)
    <3>1. i - Len(s) \in 1 .. Len(t) /\ t[i - Len(s)] = x
      BY <1>4, <2>1, <2>3
    <3> QED BY <1>4, <3>1 DEF Items, ToSet
  <2> QED BY <2>2, <2>3
<1>6. ASSUME NEW x \in Items(s) \cup Items(t) PROVE x \in Items(s \o t)
  <2>1. CASE x \in Items(s)
    <3>1. PICK i \in 1 .. Len(s) : x = s[i]
      BY <1>4, <2>1 DEF Items, ToSet
    <3>2. i \in DOMAIN (s \o t) /\ (s \o t)[i] = x
      BY <1>4, <3>1
    <3> QED BY <3>2 DEF Items, ToSet
  <2>2. CASE x \in Items(t)
    <3>1. PICK i \in 1 .. Len(t) : x = t[i]
      BY <1>4, <2>2 DEF Items, ToSet
    <3>2. i + Len(s) \in DOMAIN (s \o t) /\ (s \o t)[i + Len(s)] = x
      BY <1>4, <3>1
    <3> QED BY <3>2 DEF Items, ToSet
  <2> QED BY <2>1, <2>2
<1> QED BY <1>4, <1>5, <1>6 DEF IsSeq

\* What the empty sequence and those of one message hold.
LEMMA SmallItems == /\ IsSeq(<< >>) /\ Items(<< >>) = {}
                    /\ \A m : IsSeq(<<m>>) /\ Items(<<m>>) = {m}
<1>1. << >> \in Seq({}) /\ \A m : <<m>> \in Seq({m})
  OBVIOUS
<1>2. Items(<< >>) = {} /\ \A m : Items(<<m>>) = {m}
  BY DEF Items, ToSet
<1> QED BY <1>1, <1>2 DEF IsSeq

\* A list of a finite set holds its members and nothing else.
LEMMA OrderItems ==
  ASSUME NEW S, IsFiniteSet(S), NEW ds \in Orders(S)
  PROVE  /\ Cardinality(S) \in Nat /\ DOMAIN ds = 1 .. Cardinality(S)
         /\ \A i \in DOMAIN ds : ds[i] \in S
         /\ \A d \in S : \E i \in DOMAIN ds : ds[i] = d
<1>1. Cardinality(S) \in Nat
  BY FS_CardinalityType
<1>2. ds \in [1 .. Cardinality(S) -> S] /\ S \subseteq Items(ds)
  BY DEF Orders
<1> QED BY <1>1, <1>2 DEF Items, ToSet

\* What the vehicle's session and its controller see.
ChanV == Items(chan[Vehicle])
EvV == Items(ev[Vehicle])
InV == Items(inbox[Vehicle])
AnsV == Items(ans[Vehicle])
PendV == Items(ctl.pending)
CtlFields == {"pc", "gen", "own", "pending", "consumed", "routes"}
Setup == {"send", "ack", "recv"}

WiresInv ==
    /\ DOMAIN sess = Ends /\ DOMAIN inbox = Ends /\ DOMAIN ans = Ends
    /\ DOMAIN chan = Ends /\ DOMAIN ev = Subscribers
    /\ IsSeq(chan[Vehicle]) /\ IsSeq(ev[Vehicle]) /\ IsSeq(inbox[Vehicle])
    /\ \/ ans[Vehicle] = << >>
       \/ \E m : ans[Vehicle] = <<m>> /\ m.t \in {"dp", "consumed"}
    /\ DOMAIN ctl = CtlFields /\ IsSeq(ctl.pending) /\ ctl.pc \in Setup \cup {"off", "run"}
    /\ ctl.pc # "run" => ctl.consumed = {}
    /\ made \in Nat

\* Announcements are of producers that were made, closings of producers that are gone for
\* good, the answers to the controller's requests of its own producers.
Sound(m) ==
    /\ m.t = "new" => m.dp \in 1 .. made
    /\ m.t = "closed" => m.dp \in 1 .. made /\ m.dp \notin Open
    /\ m.t = "dp" => m.dp \in 1 .. made /\ (m.dp \in Open => dps[m.dp] = Vehicle)
OwnInv ==
    /\ PendV \subseteq 1 .. made /\ ctl.consumed \subseteq 1 .. made
    /\ ctl.pc \in {"recv", "run"} =>
         ctl.own \in 1 .. made /\ (ctl.own \in Open => dps[ctl.own] = Vehicle)
IdsInv ==
    /\ Open \subseteq 1 .. made
    /\ \A m \in ChanV \cup EvV \cup AnsV : Sound(m)

\* Producer d is announced to the controller, or in its books; it is asked for.
News(d) == \E m \in ChanV \cup EvV : m.t = "new" /\ m.dp = d
Asked(d) == \/ \E m \in InV : m.t = "consume" /\ m.dp = d
            \/ \E m \in AnsV \cup EvV : m.t = "consumed" /\ m.dp = d
NewsInv == ctl.pc # "off" /\ sess[Vehicle] = "served" =>
    \A d \in FromCockpits \ (missed \cup dropped) :
       News(d) \/ d \in PendV \/ d \in ctl.consumed
HoldInv == ctl.pc = "run" =>
    \A d \in FromCockpits \cap ctl.consumed :
       d \in dropped \/ d \in ctl.routes \/ Asked(d)
ServedInv == WiresInv /\ IdsInv /\ OwnInv /\ NewsInv /\ HoldInv

\* Ids are never used again.
Ages ==
    /\ made' \in Nat /\ made <= made'
    /\ \A d \in Open' : d \in Open \/ d \in made + 1 .. made'
    /\ \A d \in Open' : d \in Open => dps'[d] = dps[d]

\* A message that was sound stays so: ids only grow, and what is closed stays closed.
LEMMA SoundLasts ==
  ASSUME made \in Nat, Ages, NEW m, Sound(m) PROVE Sound(m)'
<1>1. /\ made' \in Nat /\ made <= made'
      /\ \A d \in Open' : d \in Open \/ d \in made + 1 .. made'
      /\ \A d \in Open' : d \in Open => dps'[d] = dps[d]
  BY DEF Ages
<1>2. \A d \in 1 .. made : /\ d \in 1 .. made' /\ d \notin made + 1 .. made'
  BY <1>1
<1>3. \A d \in 1 .. made : d \in Open' => d \in Open /\ dps'[d] = dps[d]
  BY <1>1, <1>2
<1> QED BY <1>2, <1>3 DEF Sound

\* So the messages on the wires stay sound, if the new ones are.
LEMMA IdsLast ==
  ASSUME WiresInv, IdsInv, Ages,
         \A m \in (ChanV \cup EvV \cup AnsV)' : m \in ChanV \cup EvV \cup AnsV \/ Sound(m)'
  PROVE  IdsInv'
<1>1. made \in Nat
  BY DEF WiresInv
<1>2. Open' \subseteq 1 .. made'
  <2>1. \A d \in 1 .. made : d \in 1 .. made'
    BY <1>1 DEF Ages
  <2>2. \A d \in made + 1 .. made' : d \in 1 .. made'
    BY <1>1 DEF Ages
  <2> QED BY <2>1, <2>2 DEF Ages, IdsInv
<1>3. ASSUME NEW m \in (ChanV \cup EvV \cup AnsV)' PROVE Sound(m)'
  <2>1. CASE m \in ChanV \cup EvV \cup AnsV
    <3>1. Sound(m)
      BY <2>1 DEF IdsInv
    <3> QED BY <1>1, <3>1, SoundLasts
  <2> QED BY <1>3, <2>1
<1> QED BY <1>2, <1>3 DEF IdsInv

\* The controller's own producer and its books keep naming producers that were made.
LEMMA OwnLasts ==
  ASSUME WiresInv, OwnInv, Ages,
         \A d \in PendV' : d \in PendV \/ d \in 1 .. made',
         \A d \in ctl'.consumed : d \in ctl.consumed \/ d \in 1 .. made',
         ctl'.pc \in {"recv", "run"} =>
           \/ ctl.pc \in {"recv", "run"} /\ ctl'.own = ctl.own
           \/ ctl'.own \in 1 .. made' /\ (ctl'.own \in Open' => dps'[ctl'.own] = Vehicle)
  PROVE  OwnInv'
<1>1. /\ made \in Nat /\ made' \in Nat /\ made <= made'
      /\ \A d \in Open' : d \in Open \/ d \in made + 1 .. made'
      /\ \A d \in Open' : d \in Open => dps'[d] = dps[d]
  BY DEF Ages, WiresInv
<1>2. \A d \in 1 .. made : d \in 1 .. made' /\ d \notin made + 1 .. made'
  BY <1>1
<1>3. \A d \in 1 .. made : d \in Open' => d \in Open /\ dps'[d] = dps[d]
  BY <1>1, <1>2
<1> QED BY <1>2, <1>3 DEF OwnInv

\* The producers ever made are finitely many, so that lists of them exist.
LEMMA FiniteIds == ASSUME WiresInv, IdsInv, NEW S, S \subseteq 1 .. made PROVE IsFiniteSet(S)
<1>1. IsFiniteSet(1 .. made)
  <2>1. 1 \in Int /\ made \in Int
    BY DEF WiresInv
  <2> QED BY <2>1, FS_Interval
<1> QED BY <1>1, FS_Subset

\* At the start nothing is open, announced or asked for.
LEMMA ServedStart == ASSUME ControlInit PROVE ServedInv
<1> USE DEF ControlInit
<1>1. /\ chan[Vehicle] = << >> /\ ev[Vehicle] = << >> /\ inbox[Vehicle] = << >>
      /\ ans[Vehicle] = << >> /\ ctl.pending = << >>
  BY DEF Ends, Subscribers, Off
<1>2. ChanV = {} /\ EvV = {} /\ InV = {} /\ AnsV = {} /\ PendV = {}
  BY <1>1, SmallItems DEF ChanV, EvV, InV, AnsV, PendV
<1>3. WiresInv
  BY <1>1, SmallItems DEF WiresInv, Off, CtlFields
<1>4. Open = {}
  BY DEF Open
<1>5. IdsInv /\ OwnInv /\ NewsInv /\ HoldInv
  BY <1>2, <1>4 DEF IdsInv, OwnInv, NewsInv, HoldInv, Off
<1> QED BY <1>3, <1>5 DEF ServedInv

\* Steps the vehicle does not see.
Aside == UNCHANGED <<dps, made, sess[Vehicle], inbox[Vehicle], ans[Vehicle], chan[Vehicle],
                     ev[Vehicle], ctl, missed, dropped>>
DomainsKept ==
    /\ DOMAIN sess' = Ends /\ DOMAIN inbox' = Ends /\ DOMAIN ans' = Ends
    /\ DOMAIN chan' = Ends /\ DOMAIN ev' = Subscribers
\* A step out of the sight of the vehicle keeps the invariant.
LEMMA AsideKeeps == ASSUME ServedInv, Aside, DomainsKept PROVE ServedInv'
<1> USE DEF Aside, DomainsKept, ServedInv
<1>1. WiresInv' BY DEF WiresInv
<1>2. UNCHANGED <<ChanV, EvV, InV, AnsV, PendV>>
  BY DEF ChanV, EvV, InV, AnsV, PendV
<1>3. UNCHANGED <<Open, FromCockpits>>
  BY DEF Open, FromCockpits
<1>4. IdsInv' BY <1>2, <1>3 DEF IdsInv, Sound
<1>5. OwnInv' BY <1>2, <1>3 DEF OwnInv
<1>6. NewsInv' BY <1>2, <1>3 DEF NewsInv, News
<1>7. HoldInv' BY <1>2, <1>3 DEF HoldInv, Asked
<1> QED BY <1>1, <1>4, <1>5, <1>6, <1>7

\* The vehicle's session and stream are none of a cockpit's.
LEMMA Apart == Vehicle \in Ends /\ Vehicle \in Subscribers /\ Vehicle \notin Cockpits
               /\ \A k \in Cockpits : /\ k # Vehicle /\ k \in Ends /\ Vehicle \notin SubsOf(k)
                                      /\ MainOf(k) # Vehicle /\ PumpOf(k) # Vehicle
                                      /\ MainOf(k) \in Subscribers /\ PumpOf(k) \in Subscribers
BY ControlAssumption DEF Ends, Subscribers, SubsOf, MainOf, PumpOf

\* What the operations on the queues do: the controller takes an event,
LEMMA TakeV ==
  ASSUME WiresInv, ev[Vehicle] # << >>, Take(Vehicle)
  PROVE  /\ DOMAIN ev' = Subscribers /\ IsSeq(ev'[Vehicle])
         /\ EvV = {Head(ev[Vehicle])} \cup EvV'
<1>1. DOMAIN ev' = Subscribers /\ ev'[Vehicle] = Tail(ev[Vehicle])
  BY Apart DEF Take, WiresInv
<1> QED BY <1>1, TailItems DEF WiresInv, EvV

\* it sends a request,
LEMMA AsksV ==
  ASSUME WiresInv, NEW ms, IsSeq(ms), Asks(Vehicle, ms)
  PROVE  DOMAIN inbox' = Ends /\ IsSeq(inbox'[Vehicle]) /\ InV' = InV \cup Items(ms)
<1>1. DOMAIN inbox' = Ends /\ inbox'[Vehicle] = inbox[Vehicle] \o ms
  BY Apart DEF Asks, WiresInv
<1> QED BY <1>1, CatItems DEF WiresInv, InV

\* or is refused by the gateway while the upstream is down;
LEMMA SendsV ==
  ASSUME WiresInv, NEW ms, IsSeq(ms), Sends(ms)
  PROVE  /\ DOMAIN inbox' = Ends /\ IsSeq(inbox'[Vehicle]) /\ InV \subseteq InV'
         /\ sess[Vehicle] # "off" => InV' = InV \cup Items(ms)
<1>1. CASE sess[Vehicle] # "off"
  BY <1>1, AsksV DEF Sends
<1>2. CASE sess[Vehicle] = "off"
  <2>1. inbox' = inbox
    BY <1>2 DEF Sends
  <2> QED BY <1>2, <2>1 DEF WiresInv, InV
<1> QED BY <1>1, <1>2

\* the room is told of something;
LEMMA BroadcastV ==
  ASSUME WiresInv, NEW ms, IsSeq(ms), chan' = Broadcast(chan, ms)
  PROVE  /\ DOMAIN chan' = Ends /\ IsSeq(chan'[Vehicle])
         /\ sess[Vehicle] # "off" => ChanV' = ChanV \cup Items(ms)
         /\ sess[Vehicle] = "off" => ChanV' = ChanV
<1>1. DOMAIN chan' = Ends /\ chan'[Vehicle] = IF sess[Vehicle] # "off" THEN chan[Vehicle] \o ms
                                              ELSE chan[Vehicle]
  BY Apart DEF Broadcast
<1> QED BY <1>1, CatItems DEF WiresInv, ChanV

\* what the controller keeps of what it is sent,
LEMMA HeedsV == ASSUME NEW m
  PROVE Heeds(Vehicle, m) <=> (ctl.pc = "run" => m.t \in {"new", "closed", "consumed"})
BY DEF Heeds

\* and what it then has.
LEMMA DeliverV ==
  ASSUME WiresInv, NEW m, ev' = Deliver(ev, Vehicle, m)
  PROVE  /\ DOMAIN ev' = Subscribers /\ IsSeq(ev'[Vehicle])
         /\ EvV \subseteq EvV' /\ EvV' \subseteq EvV \cup {m}
         /\ (ctl.pc # "off" /\ (ctl.pc = "run" => m.t \in {"new", "closed", "consumed"}))
              => m \in EvV'
<1>1. /\ DOMAIN ev' = Subscribers
      /\ ev'[Vehicle] = IF ctl.pc # "off" /\ Heeds(Vehicle, m)
                        THEN Append(ev[Vehicle], m) ELSE ev[Vehicle]
  BY Apart DEF Deliver, SubsOf, Listening
<1> QED BY <1>1, HeedsV, AppendItems DEF WiresInv, EvV

\* What is written to a cockpit does not reach the vehicle.
LEMMA DeliverC ==
  ASSUME NEW c \in Cockpits, NEW m, ev' = Deliver(ev, c, m)
  PROVE  DOMAIN ev' = Subscribers /\ ev'[Vehicle] = ev[Vehicle]
BY Apart DEF Deliver

\* Producer d is in the controller's books or announced to it.
Known(d) == News(d) \/ d \in PendV \/ d \in ctl.consumed

\* A producer of a cockpit was there before the step or is made in it.
LEMMA FromLasts ==
  ASSUME Ages, NEW d \in FromCockpits' PROVE d \in FromCockpits \/ d \in made + 1 .. made'
BY DEF Ages, FromCockpits, Open

\* Every producer stays known to the controller if the step keeps the known ones known.
LEMMA NewsLasts ==
  ASSUME NewsInv, Ages,
         ctl'.pc # "off" /\ sess'[Vehicle] = "served" =>
           ctl.pc # "off" /\ sess[Vehicle] = "served",
         \A d \in FromCockpits : Known(d) => Known(d)' \/ d \in missed' \cup dropped',
         \A d \in FromCockpits \cap (missed \cup dropped) :
             Known(d)' \/ d \in missed' \cup dropped',
         ctl'.pc # "off" /\ sess'[Vehicle] = "served" => \A d \in made + 1 .. made' : Known(d)'
  PROVE  NewsInv'
<1> SUFFICES ASSUME ctl'.pc # "off" /\ sess'[Vehicle] = "served",
                    NEW d \in FromCockpits', d \notin missed' \cup dropped'
             PROVE  Known(d)'
  BY DEF NewsInv, Known
<1>1. CASE d \in FromCockpits
  BY <1>1 DEF NewsInv, Known
<1> QED BY <1>1, FromLasts

\* Every producer in the ledger stays asked for or routed if the step keeps those that are.
LEMMA HoldLasts ==
  ASSUME HoldInv, Ages, made \in Nat,
         ctl'.consumed \subseteq 1 .. made,
         ctl'.pc = "run" => ctl.pc = "run",
         \A d \in FromCockpits \cap ctl'.consumed :
           d \notin ctl.consumed \/ d \in dropped \cup ctl.routes \/ Asked(d) =>
             d \in dropped' \cup ctl'.routes \/ Asked(d)'
  PROVE  HoldInv'
<1> SUFFICES ASSUME ctl'.pc = "run", NEW d \in FromCockpits' \cap ctl'.consumed
             PROVE  d \in dropped' \cup ctl'.routes \/ Asked(d)'
  BY DEF HoldInv
<1>1. d \in FromCockpits
  BY FromLasts DEF Ages
<1> QED BY <1>1 DEF HoldInv

\* The books of the controller, when no producer comes or goes.
SameDps == dps' = dps /\ made' = made
\* No producer comes or goes.
LEMMA SameAges ==
  ASSUME WiresInv, SameDps
  PROVE  Ages /\ FromCockpits' = FromCockpits /\ Open' = Open
BY DEF SameDps, WiresInv, Ages, FromCockpits, Open

\* The queues to and from the vehicle only grow; nothing else changes.
LEMMA MoreKeeps ==
  ASSUME ServedInv, WiresInv', Ages, ctl' = ctl, missed' = missed, dropped' = dropped,
         ChanV \subseteq ChanV', EvV \subseteq EvV', InV \subseteq InV', AnsV \subseteq AnsV',
         \A m \in (ChanV \cup EvV \cup AnsV)' : m \in ChanV \cup EvV \cup AnsV \/ Sound(m)',
         ctl.pc # "off" /\ sess'[Vehicle] = "served" =>
           /\ sess[Vehicle] = "served" \/ \A d \in FromCockpits' : News(d)'
           /\ \A d \in made + 1 .. made' : News(d)'
  PROVE  ServedInv'
<1> USE DEF ServedInv
<1>1. IdsInv'
  BY IdsLast
<1>2. PendV' = PendV
  BY DEF PendV
<1>3. OwnInv'
  BY <1>2, OwnLasts
<1>4. \A d : Known(d) => Known(d)'
  BY <1>2 DEF Known, News
<1>5. \A d : Asked(d) => Asked(d)'
  BY DEF Asked
<1>6. NewsInv'
  <2>1. CASE ctl.pc # "off" /\ sess'[Vehicle] = "served" /\ sess[Vehicle] # "served"
    BY <2>1 DEF NewsInv
  <2>2. CASE ~(ctl.pc # "off" /\ sess'[Vehicle] = "served" /\ sess[Vehicle] # "served")
    <3>1. ctl'.pc # "off" /\ sess'[Vehicle] = "served" =>
            ctl.pc # "off" /\ sess[Vehicle] = "served"
      BY <2>2
    <3>2. ctl'.pc # "off" /\ sess'[Vehicle] = "served" =>
            \A d \in made + 1 .. made' : Known(d)'
      BY DEF Known
    <3> QED BY <1>4, <3>1, <3>2, NewsLasts
  <2> QED BY <2>1, <2>2
<1>7. HoldInv'
  <2>1. made \in Nat /\ ctl'.consumed \subseteq 1 .. made
    BY DEF WiresInv, OwnInv
  <2> QED BY <1>5, <2>1, HoldLasts
<1> QED BY <1>1, <1>3, <1>6, <1>7

\* What the messages are about.
LEMMA Records ==
  /\ \A d, k : NewDP(d, k).t = "new" /\ NewDP(d, k).dp = d
  /\ \A d : Closed(d).t = "closed" /\ Closed(d).dp = d
  /\ \A d, f : ConsumeData(d, f).t = "consume" /\ ConsumeData(d, f).dp = d
  /\ \A f : Transport(f).t = "transport" /\ Produce(f).t = "produce"
BY DEF NewDP, Closed, ConsumeData, Transport, Produce

\* At most one answer waits to be written, and it is of one of two kinds.
LEMMA AnsSeq ==
  ASSUME WiresInv
  PROVE  /\ ans[Vehicle] = << >> => AnsV = {}
         /\ ans[Vehicle] # << >> => /\ AnsV = {ans[Vehicle][1]}
                                    /\ ans[Vehicle][1].t \in {"dp", "consumed"}
<1>1. CASE ans[Vehicle] = << >>
  BY <1>1, SmallItems DEF AnsV
<1>2. ASSUME NEW m, ans[Vehicle] = <<m>>, m.t \in {"dp", "consumed"}
      PROVE  /\ ans[Vehicle] # << >> /\ AnsV = {ans[Vehicle][1]}
             /\ ans[Vehicle][1].t \in {"dp", "consumed"}
  BY <1>2, SmallItems DEF AnsV
<1> QED BY <1>1, <1>2 DEF WiresInv

\* A producer is made: it is announced to the vehicle's session, and answered.
LEMMA ProduceKeeps ==
  ASSUME ServedInv, NEW k \in Ends, NEW m, create_data_producer(k, m), ans[k] = << >>,
         DOMAIN inbox' = Ends, IsSeq(inbox'[Vehicle]),
         \A x \in InV \ InV' : x.t = "produce",
         UNCHANGED <<sess, ctl, missed, dropped>>
  PROVE  ServedInv'
<1> USE DEF ServedInv
<1>1. PICK d : d = made + 1
  OBVIOUS
<1>2. /\ made' = d /\ dps' = [x \in Open \cup {d} |-> IF x = d THEN k ELSE dps[x]]
      /\ chan' = Broadcast(chan, <<NewDP(d, k)>>) /\ ev' = ev
      /\ ans' = [ans EXCEPT ![k] = <<[t |-> "dp", dp |-> d, for |-> m.for]>>]
  BY <1>1 DEF create_data_producer, Answered
<1>3. made \in Nat /\ Open \subseteq 1 .. made
  BY DEF WiresInv, IdsInv
<1>4. Open' = Open \cup {d} /\ dps'[d] = k /\ \A x \in Open : dps'[x] = dps[x]
  BY <1>1, <1>2, <1>3 DEF Open
<1>5. Ages
  BY <1>1, <1>2, <1>3, <1>4 DEF Ages
<1>6. /\ DOMAIN chan' = Ends /\ IsSeq(chan'[Vehicle])
      /\ sess[Vehicle] # "off" => ChanV' = ChanV \cup {NewDP(d, k)}
      /\ sess[Vehicle] = "off" => ChanV' = ChanV
  BY <1>2, BroadcastV, SmallItems
<1>7. /\ DOMAIN ans' = Ends
      /\ k # Vehicle => ans'[Vehicle] = ans[Vehicle]
      /\ k = Vehicle => ans'[Vehicle] = <<[t |-> "dp", dp |-> d, for |-> m.for]>>
  BY <1>2, Apart DEF WiresInv
<1>8. /\ k # Vehicle => AnsV' = AnsV
      /\ k = Vehicle => AnsV = {} /\ AnsV' = {[t |-> "dp", dp |-> d, for |-> m.for]}
  BY <1>7, AnsSeq, SmallItems DEF AnsV
<1>9. \/ ans'[Vehicle] = << >>
      \/ \E x : ans'[Vehicle] = <<x>> /\ x.t \in {"dp", "consumed"}
  <2>1. CASE k = Vehicle
    BY <1>7, <2>1
  <2> QED BY <1>7, <2>1 DEF WiresInv
<1>10. WiresInv'
  BY <1>1, <1>2, <1>3, <1>6, <1>7, <1>9 DEF WiresInv
<1>11. d \in 1 .. made'
  BY <1>1, <1>2, <1>3
<1>12. k = Vehicle => Sound([t |-> "dp", dp |-> d, for |-> m.for])'
  BY <1>4, <1>11 DEF Sound
<1>13. Sound(NewDP(d, k))'
  BY <1>11, Records DEF Sound
<1>14. UNCHANGED <<EvV, PendV>>
  BY <1>2 DEF EvV, PendV
<1>15. IdsInv'
  BY <1>5, <1>6, <1>8, <1>12, <1>13, <1>14, IdsLast
<1>16. OwnInv'
  BY <1>5, <1>14, OwnLasts
<1>17. \A x : Known(x) => Known(x)'
  BY <1>6, <1>14 DEF Known, News
<1>18. sess[Vehicle] = "served" => Known(d)'
  BY <1>6, Records DEF Known, News
<1>19. made + 1 .. made' = {d}
  BY <1>1, <1>2, <1>3
<1>20. NewsInv'
  BY <1>5, <1>17, <1>18, <1>19, NewsLasts
<1>21. \A x : Asked(x) => Asked(x)'
  BY <1>8, <1>14 DEF Asked
<1>22. HoldInv'
  BY <1>3, <1>5, <1>21, HoldLasts DEF OwnInv
<1> QED BY <1>10, <1>15, <1>16, <1>20, <1>22

\* What the server takes from an inbox.
LEMMA InboxV ==
  ASSUME WiresInv, NEW k \in Ends, inbox[k] # << >>, inbox' = [inbox EXCEPT ![k] = Tail(@)]
  PROVE  /\ DOMAIN inbox' = Ends /\ IsSeq(inbox'[Vehicle])
         /\ k = Vehicle => InV = {Head(inbox[k])} \cup InV'
         /\ k # Vehicle => inbox'[Vehicle] = inbox[Vehicle] /\ InV' = InV
<1>1. /\ DOMAIN inbox' = Ends /\ k = Vehicle => inbox'[Vehicle] = Tail(inbox[Vehicle])
      /\ k # Vehicle => inbox'[Vehicle] = inbox[Vehicle]
  BY Apart DEF WiresInv
<1> QED BY <1>1, TailItems DEF WiresInv, InV

\* The server serves a request of a cockpit.
LEMMA ServeCockpit == ASSUME ServedInv, NEW c \in Cockpits, Serve(c) PROVE ServedInv'
<1> USE DEF ServedInv
<1>1. /\ inbox[c] # << >> /\ ans[c] = << >> /\ inbox' = [inbox EXCEPT ![c] = Tail(@)]
      /\ c \in Ends /\ c # Vehicle
  BY Apart DEF Serve
<1>2. DOMAIN inbox' = Ends /\ IsSeq(inbox'[Vehicle]) /\ inbox'[Vehicle] = inbox[Vehicle]
      /\ InV' = InV
  BY <1>1, InboxV
<1>3. PICK m : /\ \/ create_data_producer(c, m) \/ create_data_consumer(c, m)
                  \/ Plain(c, m) \/ Refused(c, m)
               /\ UNCHANGED <<sess, ctl, missed, dropped>>
  BY <1>1 DEF Serve
<1>4. CASE create_data_producer(c, m)
  <2> QED BY <1>1, <1>2, <1>3, <1>4, ProduceKeeps
<1>5. CASE create_data_consumer(c, m)
  <2>1. DOMAIN ans' = Ends /\ ans'[Vehicle] = ans[Vehicle]
    BY <1>1, <1>5 DEF create_data_consumer, Answered, WiresInv
  <2>2. UNCHANGED <<dps, made, chan, ev>>
    BY <1>5 DEF create_data_consumer, Answered
  <2> QED BY <1>2, <1>3, <2>1, <2>2, AsideKeeps DEF Aside, DomainsKept, WiresInv
<1>6. CASE Plain(c, m) \/ Refused(c, m)
  <2>1. UNCHANGED <<dps, made, chan, ans>> /\ \E x : Written(c, x)
    BY <1>6 DEF Plain, Refused, Written
  <2>2. DOMAIN ev' = Subscribers /\ ev'[Vehicle] = ev[Vehicle]
    BY <1>1, <2>1, DeliverC DEF Written
  <2> QED BY <1>2, <1>3, <2>1, <2>2, AsideKeeps DEF Aside, DomainsKept, WiresInv
<1> QED BY <1>3, <1>4, <1>5, <1>6

\* The server serves a request of the controller.
LEMMA ServeVehicle == ASSUME ServedInv, Serve(Vehicle) PROVE ServedInv'
<1> USE DEF ServedInv
<1>1. PICK m : m = Head(inbox[Vehicle])
  OBVIOUS
<1>2. /\ inbox[Vehicle] # << >> /\ ans[Vehicle] = << >>
      /\ inbox' = [inbox EXCEPT ![Vehicle] = Tail(@)] /\ Vehicle \in Ends
      /\ UNCHANGED <<sess, ctl, missed>>
      /\ dropped' = IF m.t = "consume" /\ ans' = ans THEN dropped \cup {m.dp} ELSE dropped
      /\ \/ create_data_producer(Vehicle, m) \/ create_data_consumer(Vehicle, m)
         \/ Plain(Vehicle, m) \/ Refused(Vehicle, m)
  BY <1>1, Apart DEF Serve
<1>3. DOMAIN inbox' = Ends /\ IsSeq(inbox'[Vehicle]) /\ InV = {m} \cup InV'
  BY <1>1, <1>2, InboxV
<1>4. AnsV = {}
  BY <1>2, AnsSeq
<1>5. CASE create_data_producer(Vehicle, m)
  <2>1. m.t = "produce" /\ dropped' = dropped
    BY <1>2, <1>5 DEF create_data_producer
  <2> QED BY <1>2, <1>3, <1>5, <2>1, ProduceKeeps
<1>6. CASE create_data_consumer(Vehicle, m)
  <2>1. PICK x : x = [t |-> "consumed", dp |-> m.dp, for |-> m.for]
    OBVIOUS
  <2>2. UNCHANGED <<dps, made, chan, ev>> /\ ans' = [ans EXCEPT ![Vehicle] = <<x>>]
    BY <1>6, <2>1 DEF create_data_consumer, Answered
  <2>3. DOMAIN ans' = Ends /\ ans'[Vehicle] = <<x>> /\ AnsV' = {x}
    BY <1>2, <2>2, SmallItems DEF WiresInv, AnsV
  <2>4. x.t = "consumed" /\ x.dp = m.dp /\ dropped' = dropped
    BY <1>2, <2>1, <2>3
  <2>5. WiresInv'
    BY <1>2, <1>3, <2>2, <2>3, <2>4 DEF WiresInv
  <2>6. UNCHANGED <<ChanV, EvV, PendV>>
    BY <1>2, <2>2 DEF ChanV, EvV, PendV
  <2>7. Ages /\ FromCockpits' = FromCockpits /\ Open' = Open
    BY <2>2, SameAges DEF SameDps
  <2>8. IdsInv'
    BY <1>4, <2>3, <2>4, <2>6, <2>7, IdsLast DEF Sound
  <2>9. OwnInv'
    BY <1>2, <2>6, <2>7, OwnLasts
  <2>10. \A d : Asked(d) => Asked(d)'
    BY <1>3, <1>4, <2>3, <2>4, <2>6 DEF Asked
  <2>11. NewsInv'
    BY <1>2, <2>4, <2>6, <2>7 DEF NewsInv, News
  <2>12. HoldInv'
    BY <1>2, <2>4, <2>7, <2>10 DEF HoldInv
  <2> QED BY <2>5, <2>8, <2>9, <2>11, <2>12
<1>7. CASE Plain(Vehicle, m) \/ Refused(Vehicle, m)
  <2>1. PICK x : /\ Written(Vehicle, x) /\ x.t \in {"transport", "media", "error"}
                 /\ UNCHANGED <<dps, made, chan, ans>>
                 /\ m.t \in {"transport", "media"} \/ x.t = "error"
    <3>1. CASE Plain(Vehicle, m)
      BY <3>1 DEF Plain, Written
    <3>2. CASE Refused(Vehicle, m)
      BY <3>2 DEF Refused, Written
    <3> QED BY <1>7, <3>1, <3>2
  <2>2. ev' = ev \/ ev' = Deliver(ev, Vehicle, x)
    BY <2>1 DEF Written
  <2>3. /\ DOMAIN ev' = Subscribers /\ IsSeq(ev'[Vehicle])
        /\ EvV \subseteq EvV' /\ EvV' \subseteq EvV \cup {x}
    <3>1. CASE ev' = ev
      BY <3>1 DEF WiresInv, EvV
    <3> QED BY <2>2, <3>1, DeliverV
  <2>4. UNCHANGED <<ChanV, AnsV, PendV>>
    BY <1>2, <2>1 DEF ChanV, AnsV, PendV
  <2>5. WiresInv'
    BY <1>2, <1>3, <2>1, <2>3 DEF WiresInv
  <2>6. Ages /\ FromCockpits' = FromCockpits /\ Open' = Open
    BY <2>1, SameAges DEF SameDps
  <2>7. IdsInv'
    BY <2>1, <2>3, <2>4, <2>6, IdsLast DEF Sound
  <2>8. OwnInv'
    BY <1>2, <2>4, <2>6, OwnLasts
  <2>9. dropped \subseteq dropped' /\ (m.t = "consume" => m.dp \in dropped')
    BY <1>2, <2>1
  <2>10. \A d : Asked(d) => Asked(d)' \/ d \in dropped'
    BY <1>3, <2>3, <2>4, <2>9 DEF Asked
  <2>11. NewsInv'
    BY <1>2, <2>3, <2>4, <2>6, <2>9 DEF NewsInv, News
  <2>12. HoldInv'
    BY <1>2, <2>6, <2>9, <2>10 DEF HoldInv
  <2> QED BY <2>5, <2>7, <2>8, <2>11, <2>12
<1> QED BY <1>2, <1>5, <1>6, <1>7

\* An answer is written.
LEMMA ReplyKeeps == ASSUME ServedInv, NEW k \in Ends, Reply(k) PROVE ServedInv'
<1> USE DEF ServedInv
<1>1. /\ UNCHANGED <<dps, made, sess, inbox, chan, ctl, missed, dropped>>
      /\ ans[k] # << >> /\ ans' = [ans EXCEPT ![k] = << >>]
  BY DEF Reply
<1>2. DOMAIN ans' = Ends /\ ans'[k] = << >> /\ (k # Vehicle => ans'[Vehicle] = ans[Vehicle])
  BY <1>1, Apart DEF WiresInv
<1>3. CASE k # Vehicle
  <2>1. k \in Cockpits /\ ev' = Deliver(ev, k, ans[k][1])
    BY <1>3 DEF Reply, Ends
  <2>2. DOMAIN ev' = Subscribers /\ ev'[Vehicle] = ev[Vehicle]
    BY <2>1, DeliverC
  <2> QED BY <1>1, <1>2, <1>3, <2>2, AsideKeeps DEF Aside, DomainsKept, WiresInv
<1>4. CASE k = Vehicle
  <2>1. PICK m : m = ans[Vehicle][1]
    OBVIOUS
  <2>2. AnsV = {m} /\ m.t \in {"dp", "consumed"}
    BY <1>1, <1>4, <2>1, AnsSeq
  <2>3. PassesGateway(m)
    BY <2>2 DEF PassesGateway, Tracked
  <2>4. ev' = Deliver(ev, Vehicle, m)
    BY <1>4, <2>1, <2>3 DEF Reply
  <2>5. /\ DOMAIN ev' = Subscribers /\ IsSeq(ev'[Vehicle])
        /\ EvV \subseteq EvV' /\ EvV' \subseteq EvV \cup {m}
        /\ (ctl.pc # "off" /\ (ctl.pc = "run" => m.t \in {"new", "closed", "consumed"}))
             => m \in EvV'
    BY <2>4, DeliverV
  <2>6. UNCHANGED <<ChanV, InV, PendV>> /\ AnsV' = {}
    BY <1>1, <1>2, <1>4, SmallItems DEF ChanV, InV, PendV, AnsV
  <2>7. WiresInv'
    BY <1>1, <1>2, <1>4, <2>5 DEF WiresInv
  <2>8. Ages /\ FromCockpits' = FromCockpits /\ Open' = Open
    BY <1>1, SameAges DEF SameDps
  <2>9. IdsInv'
    BY <2>2, <2>5, <2>6, <2>8, IdsLast
  <2>10. OwnInv'
    BY <1>1, <2>6, <2>8, OwnLasts
  <2>11. NewsInv'
    BY <1>1, <2>5, <2>6, <2>8 DEF NewsInv, News
  <2>12. ctl.pc = "run" => \A d : Asked(d) => Asked(d)'
    BY <2>2, <2>5, <2>6 DEF Asked
  <2>13. HoldInv'
    BY <1>1, <2>8, <2>12 DEF HoldInv
  <2> QED BY <2>7, <2>9, <2>10, <2>11, <2>13
<1> QED BY <1>3, <1>4

\* A broadcast is written.
LEMMA RelayKeeps == ASSUME ServedInv, NEW k \in Ends, Relay(k) PROVE ServedInv'
<1> USE DEF ServedInv
<1>1. /\ UNCHANGED <<dps, made, sess, inbox, ans, ctl, missed, dropped>>
      /\ chan[k] # << >> /\ chan' = [chan EXCEPT ![k] = Tail(@)]
      /\ ev' = Deliver(ev, k, Head(chan[k]))
  BY DEF Relay
<1>2. DOMAIN chan' = Ends /\ chan'[k] = Tail(chan[k])
      /\ (k # Vehicle => chan'[Vehicle] = chan[Vehicle])
  BY <1>1, Apart DEF WiresInv
<1>3. CASE k # Vehicle
  <2>1. k \in Cockpits
    BY <1>3 DEF Ends
  <2>2. DOMAIN ev' = Subscribers /\ ev'[Vehicle] = ev[Vehicle]
    BY <1>1, <2>1, DeliverC
  <2> QED BY <1>1, <1>2, <1>3, <2>2, AsideKeeps DEF Aside, DomainsKept, WiresInv
<1>4. CASE k = Vehicle
  <2>1. PICK m : m = Head(chan[Vehicle])
    OBVIOUS
  <2>2. IsSeq(chan'[Vehicle]) /\ ChanV = {m} \cup ChanV'
    BY <1>1, <1>2, <1>4, <2>1, TailItems DEF WiresInv, ChanV
  <2>4. ev' = Deliver(ev, Vehicle, m)
    BY <1>1, <1>4, <2>1
  <2>5. /\ DOMAIN ev' = Subscribers /\ IsSeq(ev'[Vehicle])
        /\ EvV \subseteq EvV' /\ EvV' \subseteq EvV \cup {m}
        /\ (ctl.pc # "off" /\ (ctl.pc = "run" => m.t \in {"new", "closed", "consumed"}))
             => m \in EvV'
    BY <2>4, DeliverV
  <2>6. UNCHANGED <<AnsV, InV, PendV>>
    BY <1>1 DEF AnsV, InV, PendV
  <2>7. WiresInv'
    BY <1>1, <1>2, <2>2, <2>5 DEF WiresInv
  <2>8. Ages /\ FromCockpits' = FromCockpits /\ Open' = Open
    BY <1>1, SameAges DEF SameDps
  <2>9. IdsInv'
    BY <2>2, <2>5, <2>6, <2>8, IdsLast
  <2>10. OwnInv'
    BY <1>1, <2>6, <2>8, OwnLasts
  <2>11. ctl.pc # "off" => \A d : News(d) => News(d)'
    BY <2>2, <2>5 DEF News
  <2>12. NewsInv'
    BY <1>1, <2>6, <2>8, <2>11 DEF NewsInv
  <2>13. \A d : Asked(d) => Asked(d)'
    BY <2>5, <2>6 DEF Asked
  <2>14. HoldInv'
    BY <1>1, <2>8, <2>13 DEF HoldInv
  <2> QED BY <2>7, <2>9, <2>10, <2>12, <2>14
<1> QED BY <1>3, <1>4

\* A message for each member of S, in any order.
LEMMA OrderOf ==
  ASSUME NEW S, NEW g, IsFiniteSet(S), NEW ds \in Orders(S), NEW s,
         s = [i \in DOMAIN ds |-> s[i]], \A i \in DOMAIN ds : s[i] = g[ds[i]]
  PROVE  /\ IsSeq(s)
         /\ \A x : x \in Items(s) <=> \E d \in S : x = g[d]
<1>1. /\ Cardinality(S) \in Nat /\ DOMAIN ds = 1 .. Cardinality(S)
      /\ \A i \in DOMAIN ds : ds[i] \in S
      /\ \A d \in S : \E i \in DOMAIN ds : ds[i] = d
  BY OrderItems
<1>3. DOMAIN s = 1 .. Cardinality(S)
  BY <1>1
<1>4. s \in [1 .. Cardinality(S) -> {g[d] : d \in S}]
  BY <1>1
<1>5. s \in Seq({g[d] : d \in S})
  BY <1>1, <1>4
<1>6. ASSUME NEW x PROVE x \in Items(s) <=> \E d \in S : x = g[d]
  BY <1>1, <1>3 DEF Items, ToSet
<1> QED BY <1>5, <1>6 DEF IsSeq

\* The open producers are replayed to a session that has joined.
LEMMA ReplayKeeps == ASSUME ServedInv, NEW k \in Ends, Replay(k) PROVE ServedInv'
<1> USE DEF ServedInv
<1>1. /\ UNCHANGED <<dps, made, inbox, ans, chan, ctl, missed, dropped>>
      /\ sess[k] = "joined" /\ sess' = [sess EXCEPT ![k] = "served"]
  BY DEF Replay
<1>2. DOMAIN sess' = Ends /\ (k # Vehicle => sess'[Vehicle] = sess[Vehicle])
  BY <1>1, Apart DEF WiresInv
<1>3. CASE k # Vehicle
  <2>1. k \in Cockpits
    BY <1>3 DEF Ends
  <2>2. DOMAIN ev' = Subscribers /\ ev'[Vehicle] = ev[Vehicle]
    BY <2>1, Apart DEF Replay
  <2> QED BY <1>1, <1>2, <1>3, <2>2, AsideKeeps DEF Aside, DomainsKept, WiresInv
<1>4. CASE k = Vehicle
  <2>1. PICK ds \in Orders(Open) :
          ev' = [r \in Subscribers |->
                   IF r \in SubsOf(k) /\ (r = Vehicle \/ r[2] = "pump") /\ Listening(r)
                   THEN ev[r] \o [i \in DOMAIN ds |-> NewDP(ds[i], dps[ds[i]])] ELSE ev[r]]
    BY <1>4 DEF Replay
  <2>2. PICK s : s = [i \in DOMAIN ds |-> NewDP(ds[i], dps[ds[i]])]
    OBVIOUS
  <2>3. PICK g : g = [d \in Open |-> NewDP(d, dps[d])]
    OBVIOUS
  <2>4. IsFiniteSet(Open)
    BY FiniteIds DEF IdsInv
  <2>5. s = [i \in DOMAIN ds |-> s[i]]
    BY <2>2
  <2>6. \A i \in DOMAIN ds : s[i] = g[ds[i]]
    BY <2>2, <2>3, <2>4, OrderItems
  <2>7. IsSeq(s) /\ \A x : x \in Items(s) <=> \E d \in Open : x = g[d]
    BY <2>4, <2>5, <2>6, OrderOf
  <2>8. /\ DOMAIN ev' = Subscribers
        /\ ctl.pc # "off" => ev'[Vehicle] = ev[Vehicle] \o s
        /\ ctl.pc = "off" => ev'[Vehicle] = ev[Vehicle]
    BY <1>4, <2>1, <2>2, Apart DEF Listening, SubsOf
  <2>9. /\ IsSeq(ev'[Vehicle]) /\ EvV \subseteq EvV'
        /\ \A m \in EvV' : m \in EvV \/ \E d \in Open : m = g[d]
        /\ ctl.pc # "off" => \A d \in Open : g[d] \in EvV'
    <3>1. CASE ctl.pc # "off"
      <4>1. IsSeq(ev'[Vehicle]) /\ EvV' = EvV \cup Items(s)
        <5>1. PICK q : q = ev[Vehicle] /\ IsSeq(q)
          BY DEF WiresInv
        <5>2. ev'[Vehicle] = q \o s
          BY <2>8, <3>1, <5>1
        <5>3. IsSeq(q \o s) /\ Items(q \o s) = Items(q) \cup Items(s)
          BY <2>7, <5>1, CatItems
        <5> QED BY <5>1, <5>2, <5>3 DEF EvV
      <4> QED BY <2>7, <4>1
    <3>2. CASE ctl.pc = "off"
      BY <2>8, <3>2 DEF WiresInv, EvV
    <3> QED BY <3>1, <3>2
  <2>10. \A d \in Open : g[d].t = "new" /\ g[d].dp = d
    BY <2>3, Records
  <2>11. WiresInv'
    BY <1>1, <1>2, <2>8, <2>9 DEF WiresInv
  <2>12. Ages /\ FromCockpits' = FromCockpits /\ Open' = Open
    BY <1>1, SameAges DEF SameDps
  <2>13. UNCHANGED <<ChanV, InV, AnsV>>
    BY <1>1 DEF ChanV, InV, AnsV
  <2>14. \A d \in Open : Sound(g[d])'
    BY <1>1, <2>10, <2>12 DEF Sound, IdsInv
  <2>15. ctl.pc # "off" => \A d \in FromCockpits' : News(d)'
    BY <2>9, <2>10, <2>12 DEF News, FromCockpits
  <2>16. made + 1 .. made' = {}
    BY <1>1 DEF WiresInv
  <2> QED BY <1>1, <2>9, <2>11, <2>12, <2>13, <2>14, <2>15, <2>16, MoreKeeps
<1> QED BY <1>3, <1>4

\* The producers of a session that ended go, and the room is told.
LEMMA ReclaimKeeps == ASSUME ServedInv, NEW k \in Ends, Reclaim(k) PROVE ServedInv'
<1> USE DEF ServedInv
<1>1. /\ UNCHANGED <<made, sess, inbox, ans, ev, ctl, missed, dropped>>
      /\ dps' = [d \in Open \ OpenOf(k) |-> dps[d]]
  BY DEF Reclaim
<1>2. PICK ds \in Orders(OpenOf(k)) :
        chan' = Broadcast(chan, [i \in DOMAIN ds |-> Closed(ds[i])])
  BY DEF Reclaim
<1>3. PICK s : s = [i \in DOMAIN ds |-> Closed(ds[i])]
  OBVIOUS
<1>4. PICK g : g = [d \in OpenOf(k) |-> Closed(d)]
  OBVIOUS
<1>5. OpenOf(k) \subseteq Open /\ Open \subseteq 1 .. made /\ made \in Nat
  BY DEF OpenOf, IdsInv, WiresInv
<1>6. IsFiniteSet(OpenOf(k))
  BY <1>5, FiniteIds
<1>7. s = [i \in DOMAIN ds |-> s[i]] /\ \A i \in DOMAIN ds : s[i] = g[ds[i]]
  BY <1>3, <1>4, <1>6, OrderItems
<1>8. IsSeq(s) /\ \A x : x \in Items(s) <=> \E d \in OpenOf(k) : x = g[d]
  BY <1>6, <1>7, OrderOf
<1>9. /\ DOMAIN chan' = Ends /\ IsSeq(chan'[Vehicle])
      /\ sess[Vehicle] # "off" => ChanV' = ChanV \cup Items(s)
      /\ sess[Vehicle] = "off" => ChanV' = ChanV
  BY <1>2, <1>3, <1>8, BroadcastV
<1>10. Open' = Open \ OpenOf(k) /\ \A d \in Open' : dps'[d] = dps[d]
  BY <1>1 DEF Open
<1>11. Ages
  BY <1>1, <1>5, <1>10 DEF Ages
<1>12. \A d \in OpenOf(k) : Sound(g[d])'
  <2>1. \A d \in OpenOf(k) : g[d].t = "closed" /\ g[d].dp = d
    BY <1>4, Records
  <2> QED BY <1>1, <1>5, <1>10, <2>1 DEF Sound
<1>13. WiresInv'
  BY <1>1, <1>9 DEF WiresInv
<1>14. UNCHANGED <<EvV, InV, AnsV>>
  BY <1>1 DEF EvV, InV, AnsV
<1>15. made + 1 .. made' = {}
  BY <1>1, <1>5
<1> QED BY <1>1, <1>8, <1>9, <1>11, <1>12, <1>13, <1>14, <1>15, MoreKeeps

\* The controller takes event m, and becomes c.
LEMMA CtlTakes ==
  ASSUME ServedInv, ev[Vehicle] # << >>, Take(Vehicle), UNCHANGED <<dps, made, sess, ans, chan>>,
         DOMAIN inbox' = Ends, IsSeq(inbox'[Vehicle]), InV \subseteq InV',
         NEW m, m = Head(ev[Vehicle]), NEW c, ctl' = c,
         DOMAIN c = CtlFields, IsSeq(c.pending), c.pc \in Setup \cup {"off", "run"},
         c.pc # "run" => c.consumed = {},
         Items(c.pending) \cup c.consumed \subseteq 1 .. made,
         c.pc \in {"recv", "run"} =>
           c.own \in 1 .. made /\ (c.own \in Open => dps[c.own] = Vehicle),
         \* what the controller knew or is told of, it knows
         c.pc # "off" => ctl.pc # "off",
         c.pc # "off" => \A d \in FromCockpits :
           (d \in PendV \/ d \in ctl.consumed \/ (m.t = "new" /\ m.dp = d)) =>
              d \in Items(c.pending) \/ d \in c.consumed,
         missed \subseteq missed' \cup Items(c.pending) \cup c.consumed,
         dropped \subseteq dropped',
         \* what it consumes it has asked for
         c.pc = "run" => \A d \in FromCockpits \cap c.consumed :
           \/ /\ ctl.pc = "run" /\ d \in ctl.consumed
              /\ d \in ctl.routes => d \in c.routes \cup dropped'
              /\ (m.t = "consumed" /\ m.dp = d) => d \in c.routes \cup dropped'
           \/ d \in dropped' \cup c.routes \/ Asked(d)'
  PROVE  ServedInv'
<1> USE DEF ServedInv
<1>1. DOMAIN ev' = Subscribers /\ IsSeq(ev'[Vehicle]) /\ EvV = {m} \cup EvV'
  BY TakeV
<1>2. WiresInv'
  BY <1>1 DEF WiresInv
<1>3. Ages /\ FromCockpits' = FromCockpits /\ Open' = Open
  BY SameAges DEF SameDps
<1>4. UNCHANGED <<ChanV, AnsV>> /\ PendV' = Items(c.pending)
  BY DEF ChanV, AnsV, PendV
<1>5. IdsInv'
  BY <1>1, <1>3, <1>4, IdsLast
<1>6. OwnInv'
  BY <1>3, <1>4 DEF OwnInv
<1>7. NewsInv'
  <2> SUFFICES ASSUME c.pc # "off", sess[Vehicle] = "served", NEW d \in FromCockpits,
                      d \notin missed' \cup dropped'
               PROVE  News(d)' \/ d \in Items(c.pending) \/ d \in c.consumed
    BY <1>3, <1>4 DEF NewsInv
  <2>1. d \notin missed \cup dropped \/ d \in Items(c.pending) \cup c.consumed
    OBVIOUS
  <2>2. CASE News(d)
    BY <1>1, <1>4, <2>2 DEF News
  <2> QED BY <2>1, <2>2 DEF NewsInv
<1>8. HoldInv'
  <2> SUFFICES ASSUME c.pc = "run", NEW d \in FromCockpits \cap c.consumed
               PROVE  d \in dropped' \cup c.routes \/ Asked(d)'
    BY <1>3 DEF HoldInv
  <2>1. CASE /\ ctl.pc = "run" /\ d \in ctl.consumed
             /\ d \in ctl.routes => d \in c.routes \cup dropped'
             /\ (m.t = "consumed" /\ m.dp = d) => d \in c.routes \cup dropped'
    <3>1. d \in dropped \/ d \in ctl.routes \/ Asked(d)
      BY <2>1 DEF HoldInv
    <3>2. CASE Asked(d)
      BY <1>1, <1>4, <2>1, <3>2 DEF Asked
    <3> QED BY <2>1, <3>1, <3>2
  <2> QED BY <2>1
<1> QED BY <1>2, <1>5, <1>6, <1>7, <1>8

\* What is left of a controller that exits.
LEMMA ExitIs ==
  ASSUME NEW c, c = [Off EXCEPT !.gen = ctl.gen]
  PROVE  DOMAIN c = CtlFields /\ c.pending = << >> /\ c.pc = "off" /\ c.consumed = {}
BY DEF Off, CtlFields

\* The controller exits at an event.
LEMMA ExitTakes ==
  ASSUME ServedInv, ev[Vehicle] # << >>, Take(Vehicle), UNCHANGED <<dps, made, sess, ans, chan>>,
         DOMAIN inbox' = Ends, IsSeq(inbox'[Vehicle]), InV \subseteq InV', Exit,
         UNCHANGED <<missed, dropped>>
  PROVE  ServedInv'
<1>1. PICK c : c = ctl' /\ c = [Off EXCEPT !.gen = ctl.gen]
  BY DEF Exit
<1>2. DOMAIN c = CtlFields /\ c.pending = << >> /\ c.pc = "off" /\ c.consumed = {}
  BY <1>1, ExitIs
<1>3. IsSeq(c.pending) /\ Items(c.pending) = {}
  BY <1>2, SmallItems
<1>4. c.pc \in Setup \cup {"off", "run"} /\ c.pc # "run" /\ c.pc \notin {"recv", "run"}
  BY <1>2
<1>5. PICK m : m = Head(ev[Vehicle])
  OBVIOUS
<1> QED BY <1>1, <1>2, <1>3, <1>4, <1>5, CtlTakes

\* The steps of the setup before the last.
LEMMA SetupKeeps == ASSUME ServedInv, SetupSend \/ SetupAck PROVE ServedInv'
<1> USE DEF ServedInv
<1>1. /\ ctl.pc \in {"send", "ack"} /\ ev[Vehicle] # << >> /\ Take(Vehicle)
      /\ UNCHANGED <<dps, made, sess, ans, chan, missed, dropped>>
      /\ \E x : Sends(<<x>>)
  BY DEF SetupSend, SetupAck, Event, CtlOnly
<1>2. DOMAIN inbox' = Ends /\ IsSeq(inbox'[Vehicle]) /\ InV \subseteq InV'
  BY <1>1, SendsV, SmallItems
<1>3. CASE sess[Vehicle] = "off"
  BY <1>1, <1>2, <1>3, ExitTakes DEF SetupSend, SetupAck
<1>4. CASE sess[Vehicle] # "off"
  <2>1. PICK m : m = Head(ev[Vehicle])
    OBVIOUS
  <2>2. PICK c : c = ctl'
    OBVIOUS
  <2>3. \/ m.t = "transport" /\ c = [ctl EXCEPT !.pc = "ack"]
        \/ m.t = "dp" /\ c = [ctl EXCEPT !.pc = "recv", !.own = m.dp]
    BY <1>4, <2>1, <2>2 DEF SetupSend, SetupAck, Event
  <2>4. DOMAIN ctl = CtlFields /\ ctl.consumed = {}
    BY <1>1 DEF WiresInv
  <2>5. /\ DOMAIN c = CtlFields /\ c.pending = ctl.pending /\ c.consumed = {}
        /\ m.t # "new"
        /\ c.pc = "ack" \/ (c.pc = "recv" /\ c.own = m.dp /\ m.t = "dp")
    BY <2>3, <2>4 DEF CtlFields
  <2>6. m \in EvV
    BY <1>1, <2>1, TakeV
  <2>7. Sound(m)
    BY <2>6 DEF IdsInv
  <2>8. /\ IsSeq(c.pending) /\ Items(c.pending) = PendV
        /\ Items(c.pending) \cup c.consumed \subseteq 1 .. made
    BY <2>5 DEF WiresInv, OwnInv, PendV
  <2>9. c.pc \in {"recv", "run"} =>
          c.own \in 1 .. made /\ (c.own \in Open => dps[c.own] = Vehicle)
    BY <2>5, <2>7 DEF Sound
  <2>10. c.pc \in Setup \cup {"off", "run"} /\ c.pc # "run" /\ ctl.pc # "off"
    BY <1>1, <2>5 DEF Setup
  <2> QED BY <1>1, <1>2, <2>1, <2>2, <2>4, <2>5, <2>8, <2>9, <2>10, CtlTakes
<1> QED BY <1>3, <1>4

\* What was announced meanwhile is asked for.
LEMMA RecvKeeps == ASSUME ServedInv, SetupRecv PROVE ServedInv'
<1> USE DEF ServedInv
<1>1. PICK S : S = Cached(ctl.pending)
  OBVIOUS
<1>2. PICK m : m = Head(ev[Vehicle])
  OBVIOUS
<1>3. PICK c : c = ctl'
  OBVIOUS
<1>4. /\ ctl.pc = "recv" /\ ev[Vehicle] # << >> /\ Take(Vehicle) /\ m.t = "transport"
      /\ UNCHANGED <<dps, made, sess, ans, chan, missed>>
      /\ c = [ctl EXCEPT !.pc = "run", !.pending = << >>, !.consumed = S \cup {ctl.own}]
      /\ dropped' = IF sess[Vehicle] = "off" THEN dropped \cup S ELSE dropped
      /\ \E seq \in Orders(S) : Sends([i \in DOMAIN seq |-> ConsumeData(seq[i], ctl.gen)])
  BY <1>1, <1>2, <1>3 DEF SetupRecv, Event, CtlOnly
<1>5. S = PendV \ {ctl.own}
  BY <1>1 DEF Cached, PendV
<1>6. /\ made \in Nat /\ PendV \subseteq 1 .. made /\ ctl.own \in 1 .. made
      /\ (ctl.own \in Open => dps[ctl.own] = Vehicle) /\ ctl.consumed = {}
  BY <1>4 DEF WiresInv, OwnInv
<1>7. PICK ds \in Orders(S) : Sends([i \in DOMAIN ds |-> ConsumeData(ds[i], ctl.gen)])
  BY <1>4
<1>8. PICK s : s = [i \in DOMAIN ds |-> ConsumeData(ds[i], ctl.gen)]
  OBVIOUS
<1>9. PICK g : g = [d \in S |-> ConsumeData(d, ctl.gen)]
  OBVIOUS
<1>10. IsFiniteSet(S)
  BY <1>5, <1>6, FiniteIds
<1>11. s = [i \in DOMAIN ds |-> s[i]] /\ \A i \in DOMAIN ds : s[i] = g[ds[i]]
  BY <1>8, <1>9, <1>10, OrderItems
<1>12. IsSeq(s) /\ \A x : x \in Items(s) <=> \E d \in S : x = g[d]
  BY <1>10, <1>11, OrderOf
<1>13. /\ DOMAIN inbox' = Ends /\ IsSeq(inbox'[Vehicle]) /\ InV \subseteq InV'
       /\ sess[Vehicle] # "off" => InV' = InV \cup Items(s)
  BY <1>7, <1>8, <1>12, SendsV
<1>14. \A d \in S : g[d].t = "consume" /\ g[d].dp = d
  BY <1>9, Records
<1>15. \A d \in S : d \in dropped' \/ Asked(d)'
  BY <1>4, <1>12, <1>13, <1>14 DEF Asked
<1>16. /\ DOMAIN c = CtlFields /\ c.pending = << >> /\ c.pc = "run"
       /\ c.consumed = S \cup {ctl.own} /\ c.own = ctl.own
  BY <1>4 DEF CtlFields, WiresInv
<1>17. IsSeq(c.pending) /\ Items(c.pending) = {}
  BY <1>16, SmallItems
<1>18. ctl.own \notin FromCockpits
  BY <1>6, Apart DEF FromCockpits
<1>19. \A d \in FromCockpits \cap c.consumed : d \in dropped' \cup c.routes \/ Asked(d)'
  BY <1>15, <1>16, <1>18
<1>20. Items(c.pending) \cup c.consumed \subseteq 1 .. made
  BY <1>5, <1>6, <1>16, <1>17
<1>21. c.pc \in Setup \cup {"off", "run"} /\ ctl.pc # "off" /\ dropped \subseteq dropped'
  BY <1>4, <1>16
<1>22. \A d \in FromCockpits : (d \in PendV \/ d \in ctl.consumed \/ (m.t = "new" /\ m.dp = d)) =>
              d \in Items(c.pending) \/ d \in c.consumed
  BY <1>4, <1>5, <1>6, <1>16
<1> QED BY <1>2, <1>3, <1>4, <1>6, <1>13, <1>16, <1>17, <1>19, <1>20, <1>21, <1>22, CtlTakes

\* Other events during the setup.
LEMMA SetupOtherKeeps == ASSUME ServedInv, SetupOther PROVE ServedInv'
<1> USE DEF ServedInv
<1>1. PICK m : m = Head(ev[Vehicle])
  OBVIOUS
<1>2. /\ ctl.pc \in Setup /\ ev[Vehicle] # << >> /\ Take(Vehicle)
      /\ UNCHANGED <<dps, made, sess, ans, chan, inbox, dropped>>
      /\ \/ /\ m.t = "new"
            /\ ctl' = [ctl EXCEPT !.pending = Append(@, m.dp)]
            /\ missed' = missed \ {m.dp}
         \/ Exit /\ UNCHANGED missed
         \/ m.t # "new" /\ UNCHANGED <<ctl, missed>>
  BY <1>1 DEF SetupOther, Setup, CtlOnly
<1>3. DOMAIN inbox' = Ends /\ IsSeq(inbox'[Vehicle]) /\ InV \subseteq InV'
  BY <1>2 DEF WiresInv, InV
<1>4. CASE Exit /\ UNCHANGED missed
  BY <1>2, <1>3, <1>4, ExitTakes
<1>5. /\ ctl.pc # "off" /\ ctl.pc # "run" /\ ctl.pc \in Setup \cup {"off", "run"}
      /\ ctl.consumed = {} /\ DOMAIN ctl = CtlFields /\ IsSeq(ctl.pending)
      /\ PendV \subseteq 1 .. made /\ Items(ctl.pending) = PendV
      /\ ctl.pc \in {"recv", "run"} =>
           ctl.own \in 1 .. made /\ (ctl.own \in Open => dps[ctl.own] = Vehicle)
  BY <1>2 DEF WiresInv, OwnInv, PendV, Setup
<1>6. CASE m.t # "new" /\ UNCHANGED <<ctl, missed>>
  <2>1. PICK c : c = ctl' /\ c = ctl
    BY <1>6
  <2> QED BY <1>1, <1>2, <1>3, <1>5, <1>6, <2>1, CtlTakes
<1>7. CASE /\ m.t = "new" /\ missed' = missed \ {m.dp}
           /\ ctl' = [ctl EXCEPT !.pending = Append(@, m.dp)]
  <2>1. PICK c : c = ctl' /\ c = [ctl EXCEPT !.pending = Append(@, m.dp)]
    BY <1>7
  <2>2. /\ DOMAIN c = CtlFields /\ c.pending = Append(ctl.pending, m.dp)
        /\ c.consumed = {} /\ c.pc = ctl.pc /\ c.own = ctl.own
    BY <1>5, <2>1 DEF CtlFields
  <2>3. IsSeq(c.pending) /\ Items(c.pending) = PendV \cup {m.dp}
    BY <1>5, <2>2, AppendItems
  <2>4. m \in EvV
    BY <1>1, <1>2, TakeV
  <2>5. m.dp \in 1 .. made
    BY <1>7, <2>4 DEF IdsInv, Sound
  <2>6. Items(c.pending) \cup c.consumed \subseteq 1 .. made
    BY <1>5, <2>2, <2>3, <2>5
  <2>7. missed \subseteq missed' \cup Items(c.pending) \cup c.consumed
    BY <1>7, <2>3
  <2> QED BY <1>1, <1>2, <1>3, <1>5, <1>7, <2>1, <2>2, <2>3, <2>6, <2>7, CtlTakes
<1> QED BY <1>2, <1>4, <1>6, <1>7

\* What holds of a controller that runs.
LEMMA Running ==
  ASSUME ServedInv, ctl.pc = "run"
  PROVE  /\ DOMAIN ctl = CtlFields /\ IsSeq(ctl.pending) /\ Items(ctl.pending) = PendV
         /\ PendV \subseteq 1 .. made /\ ctl.consumed \subseteq 1 .. made
         /\ ctl.own \in 1 .. made /\ (ctl.own \in Open => dps[ctl.own] = Vehicle)
BY DEF ServedInv, WiresInv, OwnInv, PendV

\* An announcement while the controller runs.
LEMMA NewKeeps == ASSUME ServedInv, OnNewDataProducer PROVE ServedInv'
<1> USE DEF ServedInv
<1>1. PICK m : m = Head(ev[Vehicle])
  OBVIOUS
<1>2. PICK d : d = m.dp
  OBVIOUS
<1>3. /\ ctl.pc = "run" /\ ev[Vehicle] # << >> /\ Take(Vehicle) /\ m.t = "new"
      /\ UNCHANGED <<dps, made, sess, ans, chan>> /\ missed' = missed \ {d}
      /\ \/ /\ d \notin ctl.consumed
            /\ ctl' = [ctl EXCEPT !.consumed = @ \cup {d}]
            /\ Sends(<<ConsumeData(d, ctl.gen)>>)
            /\ dropped' = IF sess[Vehicle] = "off" THEN dropped \cup {d} ELSE dropped
         \/ d \in ctl.consumed /\ UNCHANGED <<ctl, inbox, dropped>>
  BY <1>1, <1>2 DEF OnNewDataProducer, Event, CtlOnly
<1>4. /\ DOMAIN ctl = CtlFields /\ IsSeq(ctl.pending) /\ Items(ctl.pending) = PendV
      /\ PendV \subseteq 1 .. made /\ ctl.consumed \subseteq 1 .. made
      /\ ctl.own \in 1 .. made /\ (ctl.own \in Open => dps[ctl.own] = Vehicle)
  BY <1>3, Running
<1>5. m \in EvV
  BY <1>1, <1>3, TakeV
<1>6. d \in 1 .. made
  BY <1>2, <1>3, <1>5 DEF IdsInv, Sound
<1>7. CASE d \in ctl.consumed /\ UNCHANGED <<ctl, inbox, dropped>>
  <2>1. DOMAIN inbox' = Ends /\ IsSeq(inbox'[Vehicle]) /\ InV \subseteq InV'
    BY <1>7 DEF WiresInv, InV
  <2>2. PICK c : c = ctl' /\ c = ctl
    BY <1>7
  <2> QED BY <1>1, <1>2, <1>3, <1>4, <1>7, <2>1, <2>2, CtlTakes
<1>8. CASE /\ d \notin ctl.consumed
           /\ ctl' = [ctl EXCEPT !.consumed = @ \cup {d}]
           /\ Sends(<<ConsumeData(d, ctl.gen)>>)
           /\ dropped' = IF sess[Vehicle] = "off" THEN dropped \cup {d} ELSE dropped
  <2>1. /\ DOMAIN inbox' = Ends /\ IsSeq(inbox'[Vehicle]) /\ InV \subseteq InV'
        /\ sess[Vehicle] # "off" => InV' = InV \cup {ConsumeData(d, ctl.gen)}
    BY <1>8, SendsV, SmallItems
  <2>2. d \in dropped' \/ Asked(d)'
    BY <1>8, <2>1, Records DEF Asked
  <2>3. PICK c : c = ctl' /\ c = [ctl EXCEPT !.consumed = @ \cup {d}]
    BY <1>8
  <2>4. /\ DOMAIN c = CtlFields /\ c.pending = ctl.pending /\ c.pc = "run" /\ c.own = ctl.own
        /\ c.consumed = ctl.consumed \cup {d} /\ c.routes = ctl.routes
    BY <1>3, <1>4, <2>3 DEF CtlFields
  <2>5. Items(c.pending) \cup c.consumed \subseteq 1 .. made /\ dropped \subseteq dropped'
    BY <1>4, <1>6, <1>8, <2>4
  <2>6. missed \subseteq missed' \cup Items(c.pending) \cup c.consumed
    BY <1>3, <2>4
  <2>7. \A x \in FromCockpits \cap c.consumed :
           \/ /\ ctl.pc = "run" /\ x \in ctl.consumed
              /\ x \in ctl.routes => x \in c.routes \cup dropped'
              /\ (m.t = "consumed" /\ m.dp = x) => x \in c.routes \cup dropped'
           \/ x \in dropped' \cup c.routes \/ Asked(x)'
    BY <1>3, <2>2, <2>4
  <2>8. \A x \in FromCockpits :
           (x \in PendV \/ x \in ctl.consumed \/ (m.t = "new" /\ m.dp = x)) =>
              x \in Items(c.pending) \/ x \in c.consumed
    BY <1>2, <1>4, <2>4
  <2>9. /\ IsSeq(c.pending) /\ c.pc \in Setup \cup {"off", "run"} /\ ctl.pc # "off"
        /\ c.own \in 1 .. made /\ (c.own \in Open => dps[c.own] = Vehicle)
    BY <1>3, <1>4, <2>4
  <2> QED BY <1>1, <1>3, <2>1, <2>3, <2>4, <2>5, <2>6, <2>7, <2>8, <2>9, CtlTakes
<1> QED BY <1>3, <1>7, <1>8

\* The other events of a controller that runs.
LEMMA RunKeeps ==
  ASSUME ServedInv, OnDataConsumed \/ OnProducerClosed \/ OnOther PROVE ServedInv'
<1> USE DEF ServedInv
<1>1. PICK m : m = Head(ev[Vehicle])
  OBVIOUS
<1>2. PICK c : c = ctl'
  OBVIOUS
<1>3. /\ ctl.pc = "run" /\ ev[Vehicle] # << >> /\ Take(Vehicle)
      /\ UNCHANGED <<dps, made, sess, inbox, ans, chan, missed>>
      /\ \/ /\ m.t = "consumed" /\ c = [ctl EXCEPT !.routes = @ \cup {m.dp}]
            /\ UNCHANGED dropped
         \/ m.t = "consumed" /\ dropped' = dropped \cup {m.dp} /\ c = ctl
         \/ m.t = "closed" /\ UNCHANGED dropped /\ c = IF m.dp \in ctl.routes THEN TornDown(m.dp)
                                                        ELSE ctl
         \/ m.t \in {"error", "dp", "transport"} /\ c = ctl /\ UNCHANGED dropped
  <2>1. CASE OnDataConsumed
    BY <1>1, <1>2, <2>1 DEF OnDataConsumed, Event
  <2>2. CASE OnProducerClosed
    BY <1>1, <1>2, <2>2 DEF OnProducerClosed, Event, CtlOnly
  <2>3. CASE OnOther
    BY <1>1, <1>2, <2>3 DEF OnOther, CtlOnly
  <2> QED BY <2>1, <2>2, <2>3
<1>4. /\ DOMAIN ctl = CtlFields /\ IsSeq(ctl.pending) /\ Items(ctl.pending) = PendV
      /\ PendV \subseteq 1 .. made /\ ctl.consumed \subseteq 1 .. made
      /\ ctl.own \in 1 .. made /\ (ctl.own \in Open => dps[ctl.own] = Vehicle)
  BY <1>3, Running
<1>5. m \in EvV
  BY <1>1, <1>3, TakeV
<1>6. m.t = "closed" => m.dp \notin FromCockpits
  BY <1>5 DEF IdsInv, Sound, FromCockpits
<1>7. DOMAIN inbox' = Ends /\ IsSeq(inbox'[Vehicle]) /\ InV \subseteq InV'
  BY <1>3 DEF WiresInv, InV
<1>8. /\ DOMAIN c = CtlFields /\ c.pending = ctl.pending /\ c.pc = "run" /\ c.own = ctl.own
      /\ c.consumed \subseteq ctl.consumed /\ m.t # "new" /\ dropped \subseteq dropped'
      /\ \A d \in FromCockpits : /\ d \in ctl.consumed => d \in c.consumed
                                 /\ d \in ctl.routes => d \in c.routes
                                 /\ (m.t = "consumed" /\ m.dp = d) => d \in c.routes \cup dropped'
  <2>1. CASE m.t = "consumed" /\ c = [ctl EXCEPT !.routes = @ \cup {m.dp}] /\ UNCHANGED dropped
    BY <1>3, <1>4, <2>1 DEF CtlFields
  <2>2. CASE m.t = "consumed" /\ dropped' = dropped \cup {m.dp} /\ c = ctl
    BY <1>3, <1>4, <2>2
  <2>3. CASE m.t = "closed" /\ UNCHANGED dropped
             /\ c = IF m.dp \in ctl.routes THEN TornDown(m.dp) ELSE ctl
    <3>1. CASE m.dp \in ctl.routes
      BY <1>3, <1>4, <1>6, <2>3, <3>1 DEF CtlFields, TornDown
    <3> QED BY <1>3, <1>4, <2>3, <3>1
  <2>4. CASE m.t \in {"error", "dp", "transport"} /\ c = ctl /\ UNCHANGED dropped
    BY <1>3, <1>4, <2>4
  <2> QED BY <1>3, <2>1, <2>2, <2>3, <2>4
<1>9. /\ IsSeq(c.pending) /\ Items(c.pending) = PendV /\ c.pc \in Setup \cup {"off", "run"}
      /\ Items(c.pending) \cup c.consumed \subseteq 1 .. made /\ ctl.pc # "off"
      /\ c.own \in 1 .. made /\ (c.own \in Open => dps[c.own] = Vehicle)
  BY <1>3, <1>4, <1>8
<1>10. \A x \in FromCockpits \cap c.consumed :
         \/ /\ ctl.pc = "run" /\ x \in ctl.consumed
            /\ x \in ctl.routes => x \in c.routes \cup dropped'
            /\ (m.t = "consumed" /\ m.dp = x) => x \in c.routes \cup dropped'
         \/ x \in dropped' \cup c.routes \/ Asked(x)'
  BY <1>3, <1>8
<1>11. \A x \in FromCockpits :
         (x \in PendV \/ x \in ctl.consumed \/ (m.t = "new" /\ m.dp = x)) =>
            x \in Items(c.pending) \/ x \in c.consumed
  BY <1>8, <1>9
<1> QED BY <1>1, <1>2, <1>3, <1>7, <1>8, <1>9, <1>10, <1>11, CtlTakes

\* The controller starts: what is open already it has missed.
LEMMA StartKeeps == ASSUME ServedInv, CtlStart PROVE ServedInv'
<1> USE DEF ServedInv
<1>1. PICK c : c = ctl' /\ c = [Off EXCEPT !.pc = "send", !.gen = ctl.gen + 1]
  BY DEF CtlStart
<1>2. /\ ev' = [ev EXCEPT ![Vehicle] = << >>] /\ missed' = FromCockpits
      /\ UNCHANGED <<dps, made, sess, ans, chan>> /\ \E x : Asks(Vehicle, <<x>>)
  BY DEF CtlStart
<1>3. /\ DOMAIN c = CtlFields /\ c.pending = << >> /\ c.pc = "send" /\ c.consumed = {}
  BY <1>1 DEF Off, CtlFields
<1>4. DOMAIN inbox' = Ends /\ IsSeq(inbox'[Vehicle])
  BY <1>2, AsksV, SmallItems
<1>5. DOMAIN ev' = Subscribers /\ ev'[Vehicle] = << >>
  BY <1>2, Apart DEF WiresInv
<1>6. WiresInv'
  BY <1>1, <1>2, <1>3, <1>4, <1>5, SmallItems DEF WiresInv, Setup
<1>7. Ages /\ FromCockpits' = FromCockpits /\ Open' = Open
  BY <1>2, SameAges DEF SameDps
<1>8. UNCHANGED <<ChanV, AnsV>> /\ EvV' = {} /\ PendV' = {}
  BY <1>1, <1>2, <1>3, <1>5, SmallItems DEF ChanV, AnsV, EvV, PendV
<1>9. IdsInv'
  BY <1>7, <1>8, IdsLast
<1>10. OwnInv' /\ NewsInv' /\ HoldInv'
  BY <1>1, <1>2, <1>3, <1>7, <1>8 DEF OwnInv, NewsInv, HoldInv
<1> QED BY <1>6, <1>9, <1>10

\* The controller is gone.
LEMMA CtlExitKeeps == ASSUME ServedInv, CtlExit PROVE ServedInv'
<1> USE DEF ServedInv
<1>1. PICK c : c = ctl' /\ c = [Off EXCEPT !.gen = ctl.gen]
  BY DEF CtlExit, Exit
<1>2. DOMAIN c = CtlFields /\ c.pending = << >> /\ c.pc = "off" /\ c.consumed = {}
  BY <1>1, ExitIs
<1>3. UNCHANGED <<dps, made, sess, inbox, ans, chan, ev, missed, dropped>>
  BY DEF CtlExit, wires
<1>4. WiresInv'
  BY <1>1, <1>2, <1>3, SmallItems DEF WiresInv
<1>5. Ages /\ FromCockpits' = FromCockpits /\ Open' = Open
  BY <1>3, SameAges DEF SameDps
<1>6. UNCHANGED <<ChanV, AnsV, EvV>> /\ PendV' = {}
  BY <1>1, <1>2, <1>3, SmallItems DEF ChanV, AnsV, EvV, PendV
<1>7. IdsInv'
  BY <1>5, <1>6, IdsLast
<1>8. OwnInv' /\ NewsInv' /\ HoldInv'
  BY <1>1, <1>2, <1>6 DEF OwnInv, NewsInv, HoldInv
<1> QED BY <1>4, <1>7, <1>8


\* The upstream is lost: what was asked for and not answered is counted as dropped.
LEMMA DropKeeps == ASSUME ServedInv, UpDrop PROVE ServedInv'
<1> USE DEF ServedInv
<1>1. /\ sess' = [sess EXCEPT ![Vehicle] = "off"] /\ inbox' = [inbox EXCEPT ![Vehicle] = << >>]
      /\ ans' = [ans EXCEPT ![Vehicle] = << >>] /\ chan' = [chan EXCEPT ![Vehicle] = << >>]
      /\ UNCHANGED <<dps, made, ev, ctl>>
  BY DEF UpDrop
<1>2. dropped' = dropped \cup {d \in ctl.consumed \ ctl.routes :
                     \E m \in InV \cup AnsV : m.t \in {"consume", "consumed"} /\ m.dp = d}
  BY DEF UpDrop, InV, AnsV
<1>3. /\ DOMAIN sess' = Ends /\ DOMAIN inbox' = Ends /\ DOMAIN ans' = Ends /\ DOMAIN chan' = Ends
      /\ sess'[Vehicle] = "off" /\ inbox'[Vehicle] = << >> /\ ans'[Vehicle] = << >>
      /\ chan'[Vehicle] = << >>
  BY <1>1, Apart DEF WiresInv
<1>4. WiresInv'
  BY <1>1, <1>3, SmallItems DEF WiresInv
<1>5. ChanV' = {} /\ AnsV' = {} /\ UNCHANGED <<EvV, PendV>>
  BY <1>1, <1>3, SmallItems DEF ChanV, AnsV, EvV, PendV
<1>6. Ages /\ FromCockpits' = FromCockpits
  BY <1>1, SameAges DEF SameDps
<1>7. IdsInv'
  BY <1>5, <1>6, IdsLast
<1>8. OwnInv'
  BY <1>1, <1>5, <1>6, OwnLasts
<1>9. NewsInv'
  BY <1>3 DEF NewsInv
<1>10. ASSUME NEW d \in FromCockpits \cap ctl.consumed, d \in dropped \cup ctl.routes \/ Asked(d)
       PROVE  d \in dropped' \cup ctl.routes \/ Asked(d)'
  <2>1. CASE \E m \in EvV : m.t = "consumed" /\ m.dp = d
    BY <1>5, <2>1 DEF Asked
  <2>2. CASE d \in dropped \cup ctl.routes
    BY <1>2, <2>2
  <2>3. CASE \E m \in InV \cup AnsV : m.t \in {"consume", "consumed"} /\ m.dp = d
    BY <1>2, <2>3
  <2> QED BY <1>10, <2>1, <2>2, <2>3 DEF Asked
<1>11. HoldInv'
  BY <1>1, <1>6, <1>10 DEF HoldInv
<1> QED BY <1>4, <1>7, <1>8, <1>9, <1>11

\* The upstream is back: the controller hears of it, and of nothing else yet.
LEMMA UpJoinKeeps == ASSUME ServedInv, UpJoin PROVE ServedInv'
<1> USE DEF ServedInv
<1>1. PICK m : m = [t |-> "error", for |-> ctl.gen]
  OBVIOUS
<1>2. /\ sess' = [sess EXCEPT ![Vehicle] = "joined"] /\ ev' = Deliver(ev, Vehicle, m)
      /\ UNCHANGED <<dps, made, inbox, ans, chan, ctl, missed, dropped>>
  BY <1>1 DEF UpJoin
<1>3. DOMAIN sess' = Ends /\ sess'[Vehicle] = "joined"
  BY <1>2, Apart DEF WiresInv
<1>4. /\ DOMAIN ev' = Subscribers /\ IsSeq(ev'[Vehicle])
      /\ EvV \subseteq EvV' /\ EvV' \subseteq EvV \cup {m}
  BY <1>2, DeliverV
<1>5. WiresInv'
  BY <1>2, <1>3, <1>4 DEF WiresInv
<1>6. Ages
  BY <1>2, SameAges DEF SameDps
<1>7. Sound(m)'
  BY <1>1 DEF Sound
<1>8. UNCHANGED <<ChanV, InV, AnsV>>
  BY <1>2 DEF ChanV, InV, AnsV
<1>9. \A x \in (ChanV \cup EvV \cup AnsV)' : x \in ChanV \cup EvV \cup AnsV \/ Sound(x)'
  BY <1>4, <1>7, <1>8
<1> QED BY <1>2, <1>3, <1>4, <1>5, <1>6, <1>8, <1>9, MoreKeeps

\* A request of a cockpit.
LEMMA AsksC ==
  ASSUME WiresInv, NEW c \in Cockpits, NEW ms, Asks(c, ms)
  PROVE  DOMAIN inbox' = Ends /\ inbox'[Vehicle] = inbox[Vehicle]
BY Apart DEF Asks, WiresInv
\* An event taken by a cockpit.
LEMMA TakeC ==
  ASSUME WiresInv, NEW c \in Cockpits, Take(MainOf(c)) \/ Take(PumpOf(c))
  PROVE  DOMAIN ev' = Subscribers /\ ev'[Vehicle] = ev[Vehicle]
BY Apart DEF Take, WiresInv


\* The vehicle's part of the wires.
InboxKept == DOMAIN inbox' = Ends /\ inbox'[Vehicle] = inbox[Vehicle]
EvKept == DOMAIN ev' = Subscribers /\ ev'[Vehicle] = ev[Vehicle]

\* What a cockpit's main flow does is out of the vehicle's sight.
LEMMA MainAside ==
  ASSUME WiresInv, NEW c \in Cockpits,
         \/ Join(c) \/ Subscribe(c) \/ open_control(c) \/ consume(c)
         \/ MainAnswer(c) \/ MainOther(c) \/ RouterCaps(c) \/ MainTimeout(c)
  PROVE  Aside /\ DomainsKept
<1>0. /\ DOMAIN sess = Ends /\ DOMAIN inbox = Ends /\ DOMAIN ans = Ends
      /\ DOMAIN chan = Ends /\ DOMAIN ev = Subscribers
  BY DEF WiresInv
<1>1. UNCHANGED <<dps, made, ans, chan, ctl, missed, dropped>>
  BY DEF Join, Subscribe, open_control, consume, MainAnswer, MainOther, RouterCaps, MainTimeout,
         Cockpit
<1>2. DOMAIN sess' = Ends /\ sess'[Vehicle] = sess[Vehicle]
  <2>1. CASE Join(c)
    BY <1>0, <2>1, Apart DEF Join
  <2> QED BY <1>0, <2>1
          DEF Subscribe, open_control, consume, MainAnswer, MainOther, RouterCaps, MainTimeout
<1>3. InboxKept
  <2>1. CASE open_control(c) \/ consume(c)
    <3>1. Asks(c, <<Transport("open")>>) \/ Asks(c, <<Transport("video")>>)
      BY <2>1 DEF open_control, consume
    <3> QED BY <3>1, AsksC DEF InboxKept
  <2>2. CASE MainAnswer(c)
    <3>1. \E ms : Asks(c, ms)
      BY <2>2, Zenon DEF MainAnswer
    <3> QED BY <3>1, AsksC DEF InboxKept
  <2> QED BY <1>0, <2>1, <2>2
          DEF InboxKept, Join, Subscribe, MainOther, RouterCaps, MainTimeout
<1>4. EvKept
  <2>1. CASE consume(c)
    <3>1. PICK n : ev' = [ev EXCEPT ![MainOf(c)] = SubSeq(@, n, Len(@))]
      BY <2>1 DEF consume
    <3> QED BY <1>0, <3>1, Apart DEF EvKept
  <2>2. CASE MainAnswer(c) \/ MainOther(c) \/ RouterCaps(c)
    <3>1. Take(MainOf(c))
      BY <2>2, Zenon DEF MainAnswer, MainOther, RouterCaps
    <3> QED BY <3>1, TakeC DEF EvKept
  <2> QED BY <1>0, <2>1, <2>2 DEF EvKept, Join, Subscribe, open_control, MainTimeout
<1> QED BY <1>0, <1>1, <1>2, <1>3, <1>4 DEF Aside, DomainsKept, InboxKept, EvKept

\* So is the loss of its link,
LEMMA LinkAside ==
  ASSUME WiresInv, NEW c \in Cockpits, LinkDrop(c) PROVE Aside /\ DomainsKept
<1>1. /\ UNCHANGED <<dps, made, ctl, missed, dropped>>
      /\ sess' = [sess EXCEPT ![c] = "off"] /\ inbox' = [inbox EXCEPT ![c] = << >>]
      /\ ans' = [ans EXCEPT ![c] = << >>] /\ chan' = [chan EXCEPT ![c] = << >>]
      /\ ev' = [ev EXCEPT ![MainOf(c)] = << >>, ![PumpOf(c)] = << >>]
  BY DEF LinkDrop
<1>2. /\ DOMAIN sess = Ends /\ DOMAIN inbox = Ends /\ DOMAIN ans = Ends
      /\ DOMAIN chan = Ends /\ DOMAIN ev = Subscribers
  BY DEF WiresInv
<1>3. DOMAIN ev' = Subscribers /\ ev'[Vehicle] = ev[Vehicle]
  BY <1>1, <1>2, Apart
<1> QED BY <1>1, <1>2, <1>3, Apart DEF Aside, DomainsKept

\* what its pump does,
LEMMA PumpAside ==
  ASSUME WiresInv, NEW c \in Cockpits,
         \/ DrainBacklog(c) \/ PumpSeed(c) \/ PumpWait(c) \/ PumpTransport(c)
         \/ PumpConsumed(c) \/ PumpOther(c) \/ PumpTimeout(c)
  PROVE  Aside /\ DomainsKept
<1>0. /\ DOMAIN sess = Ends /\ DOMAIN inbox = Ends /\ DOMAIN ans = Ends
      /\ DOMAIN chan = Ends /\ DOMAIN ev = Subscribers
  BY DEF WiresInv
<1>1. UNCHANGED <<dps, made, sess, ans, chan, ctl, missed, dropped>>
  BY DEF DrainBacklog, PumpSeed, PumpWait, PumpTransport, PumpConsumed, PumpOther, PumpTimeout,
         Cockpit
<1>2. ASSUME NEW d, NEW rest, Round(c, d, rest) PROVE InboxKept
  <2>1. Asks(c, <<Transport("pump")>>) \/ Asks(c, <<ConsumeData(d, "pump")>>)
    BY <1>2 DEF Round
  <2> QED BY <2>1, AsksC DEF InboxKept
<1>3. InboxKept
  <2>1. CASE PumpSeed(c)
    BY <1>2, <2>1 DEF PumpSeed
  <2>2. CASE PumpWait(c)
    BY <1>0, <1>2, <2>2 DEF PumpWait, InboxKept
  <2>3. CASE PumpTransport(c)
    BY <2>3, AsksC DEF PumpTransport, InboxKept
  <2> QED BY <1>0, <2>1, <2>2, <2>3
          DEF InboxKept, DrainBacklog, PumpConsumed, PumpOther, PumpTimeout
<1>4. EvKept
  <2>1. CASE DrainBacklog(c)
    BY <1>0, <2>1, Apart DEF DrainBacklog, EvKept
  <2>2. CASE PumpWait(c) \/ PumpTransport(c) \/ PumpConsumed(c) \/ PumpOther(c)
    <3>1. Take(PumpOf(c))
      BY <2>2, Zenon DEF PumpWait, PumpTransport, PumpConsumed, PumpOther
    <3> QED BY <3>1, TakeC DEF EvKept
  <2> QED BY <1>0, <2>1, <2>2 DEF EvKept, PumpSeed, PumpTimeout
<1> QED BY <1>0, <1>1, <1>3, <1>4 DEF Aside, DomainsKept, InboxKept, EvKept

\* and the commands and acknowledgements.
LEMMA PlaneAside ==
  ASSUME WiresInv, Plane \/ UNCHANGED controlvars PROVE Aside /\ DomainsKept
<1>1. UNCHANGED <<dps, made, sess, inbox, ans, chan, ev, ctl, missed, dropped>>
  BY DEF Plane, controlvars, wires
<1> QED BY <1>1 DEF WiresInv, Aside, DomainsKept

\* Every step of the control plane keeps the invariant.
LEMMA ServedStep == ASSUME ServedInv, [ControlNext]_controlvars PROVE ServedInv'
<1>0. WiresInv
  BY DEF ServedInv
<1>1. CASE Controller
  <2>1. CASE handle_command
    <3>1. Plane
      BY <2>1, Zenon DEF handle_command
    <3> QED BY <1>0, <3>1, PlaneAside, AsideKeeps
  <2> QED BY <1>1, <2>1, StartKeeps, SetupKeeps, RecvKeeps, SetupOtherKeeps, NewKeeps, RunKeeps,
             CtlExitKeeps DEF Controller
<1>2. CASE UpDrop \/ UpJoin
  BY <1>2, DropKeeps, UpJoinKeeps
<1>3. ASSUME NEW c \in Cockpits, Client(c) PROVE ServedInv'
  <2>1. CASE (\E n \in Seqs, s \in Sigs : emergency_stop(c, n, s)) \/ recv_ack_for(c)
    <3>1. Plane
      BY <2>1, Zenon DEF emergency_stop, recv_ack_for
    <3> QED BY <1>0, <3>1, PlaneAside, AsideKeeps
  <2> QED BY <1>0, <1>3, <2>1, MainAside, LinkAside, PumpAside, AsideKeeps DEF Client
<1>4. ASSUME NEW k \in Ends, Server(k) PROVE ServedInv'
  <2>1. CASE Serve(k)
    BY <1>4, <2>1, ServeCockpit, ServeVehicle DEF Ends
  <2> QED BY <1>4, <2>1, ReplyKeeps, RelayKeeps, ReplayKeeps, ReclaimKeeps DEF Server
<1>5. CASE UNCHANGED controlvars
  BY <1>0, <1>5, PlaneAside, AsideKeeps
<1> QED BY <1>1, <1>2, <1>3, <1>4, <1>5 DEF ControlNext

(* While the vehicle is connected and its controller runs, every open producer of a cockpit is *)
(* routed or on its way to be: the announcements of the setup are kept until setup_recv_side   *)
(* asks for them, the main loop asks for what it is told of, a re-attach repeats what is open, *)
(* and a closing never names a producer that is open again, for ids are not reused.  Only the  *)
(* producers in missed and dropped are left out.                                               *)
THEOREM OpenProducerServedHolds == ControlSpec => []OpenProducerServed
<1>1. ControlInit => ServedInv
  BY ServedStart
<1>2. ServedInv /\ [ControlNext]_controlvars => ServedInv'
  BY ServedStep
<1>3. ServedInv => OpenProducerServed
  <2> SUFFICES ASSUME ServedInv, ctl.pc # "off", sess[Vehicle] = "served",
                      NEW d \in FromCockpits \ (missed \cup dropped)
               PROVE  d \in ctl.routes \/ UnderWay(d)
    BY DEF OpenProducerServed
  <2>1. News(d) \/ d \in PendV \/ d \in ctl.consumed
    BY DEF ServedInv, NewsInv
  <2>2. News(d) \/ d \in PendV \/ Asked(d) => UnderWay(d)
    BY DEF News, Asked, UnderWay, ChanV, EvV, InV, AnsV, PendV
  <2>3. d \in ctl.consumed => ctl.pc = "run"
    BY DEF ServedInv, WiresInv
  <2>4. d \in ctl.consumed => d \in ctl.routes \/ Asked(d)
    BY <2>3 DEF ServedInv, HoldInv
  <2> QED BY <2>1, <2>2, <2>4
<1> QED BY <1>1, <1>2, <1>3, PTL DEF ControlSpec

(***************************************************************************)
(* NoCrossedAnswer: what is under way to a cockpit while a flow waits.     *)
(***************************************************************************)

\* The messages of the pump's rounds; those that end a wait for a transport of
\* flow f, and those that it must not meet.
OfPump(m) == m.t \in {"consume", "consumed"} \/ (m.t \notin {"new", "closed"} /\ m.for = "pump")
Leads(m, f) == m.t = "error" \/ (m.t = "transport" /\ m.for = f)
Foreign(m, f) == m.t = "transport" /\ m.for # f
Open1(m) == m.t = "transport" /\ m.for = "open"

\* A sequence with none of the pump's messages, or with one; the one message of a round,
\* which is in the pump's stream p, the server's answer a or the inbox b.
Free(s) == \A i \in DOMAIN s : ~OfPump(s[i])
Once(s) == \A i, j \in DOMAIN s : OfPump(s[i]) /\ OfPump(s[j]) => i = j
OneRound(p, a, b) == /\ Once(p) /\ Once(a) /\ Once(b)
                     /\ (Free(p) /\ Free(a)) \/ (Free(p) /\ Free(b)) \/ (Free(a) /\ Free(b))

\* Before the first foreign transport in stream s, or behind it in the inbox b,
\* there is one that ends the wait.
Led(s, b, f) ==
  /\ (\E i \in DOMAIN s : Leads(s[i], f)) \/ (\E i \in DOMAIN b : Leads(b[i], f))
  /\ \A i \in DOMAIN s : Foreign(s[i], f) => \E j \in DOMAIN s : j < i /\ Leads(s[j], f)
  /\ \A i \in DOMAIN b : Foreign(b[i], f) => \/ \E j \in DOMAIN s : Leads(s[j], f)
                                             \/ \E j \in DOMAIN b : j < i /\ Leads(b[j], f)

\* The transport of open_control is the only one in the main stream and the inbox.
Lone(e, b) ==
  /\ \A i \in DOMAIN e : e[i].t = "transport" => e[i].for = "open"
  /\ \A i \in DOMAIN b : b[i].t = "transport" => b[i].for = "open"
  /\ \A i, j \in DOMAIN b : b[i].t = "transport" /\ b[j].t = "transport" => i = j
  /\ \A i \in DOMAIN e, j \in DOMAIN b : e[i].t = "transport" => b[j].t # "transport"

\* A cockpit's wires: main stream e, pump stream p, answer a, inbox b, by kinds.
Kinds(a, b) ==
  /\ a = << >> \/ \E m : a = <<m>> /\ m.t \in {"dp", "consumed"}
  /\ \A i \in DOMAIN b : b[i].t \in {"transport", "produce", "consume", "media"}
Pair(mn, pm) ==
  /\ pm.pc \in {"off", "dead", "drain", "wait", "tr", "data"}
  /\ pm.pc = "dead" <=> mn.pc = "gone"
  /\ mn.pc \in {"send", "dp"} => mn.taken
  /\ pm.pc \in {"drain", "wait", "tr", "data"} => mn.taken /\ mn.pc \in {"idle", "recv", "media"}
Paired(mn, pm) ==
  /\ mn.send \in {None, "open"} /\ mn.recv \in {None, "video"} /\ pm.tr \in {None, "pump"}
  /\ \A x \in pm.dcs : x[1] = x[2]
MainWaits(e, b, w) ==
  /\ w = "send" => Lone(e, b)
  /\ w = "dp" => \A i \in DOMAIN b : b[i].t # "transport"
  /\ w = "recv" => Led(e, b, "video")
PumpWaits(p, a, b, pm) ==
  /\ pm.pc \in {"off", "drain"} => Free(a) /\ Free(b)
  /\ pm.pc = "wait" => Free(p) /\ Free(a) /\ Free(b)
  /\ pm.pc \in {"tr", "data"} => OneRound(p, a, b)
  /\ pm.pc = "tr" => Led(p, b, "pump")
  /\ pm.pc = "data" => \A s \in {p, a, b} : \A i \in DOMAIN s :
                          s[i].t \in {"consume", "consumed"} => s[i].dp = pm.cur
  /\ pm.pc \in {"drain", "wait", "tr", "data"} => \A i \in DOMAIN b : ~Open1(b[i])
  /\ pm.pc \in {"wait", "tr", "data"} => \A i \in DOMAIN p : ~Open1(p[i])
CockpitInv(c) ==
  /\ Kinds(ans[c], inbox[c]) /\ Pair(main[c], pump[c])
  /\ c \notin muddled =>
       /\ Paired(main[c], pump[c])
       /\ MainWaits(ev[MainOf(c)], inbox[c], main[c].pc)
       /\ PumpWaits(ev[PumpOf(c)], ans[c], inbox[c], pump[c])

\* A sequence as the provers see it: a function on 1 .. n.
LEMMA SeqFacts ==
  ASSUME NEW s, IsSeq(s)
  PROVE  Len(s) \in Nat /\ DOMAIN s = 1 .. Len(s)
BY DEF IsSeq

\* Its tail,
LEMMA TailFacts ==
  ASSUME NEW s, IsSeq(s), s # << >>
  PROVE  /\ IsSeq(Tail(s)) /\ Len(s) \in Nat /\ Len(s) > 0 /\ DOMAIN s = 1 .. Len(s)
         /\ 1 \in DOMAIN s /\ Head(s) = s[1]
         /\ DOMAIN Tail(s) = 1 .. Len(s) - 1 /\ \A i \in 1 .. Len(s) - 1 : Tail(s)[i] = s[i + 1]
<1>1. PICK S : s \in Seq(S)
  BY DEF IsSeq
<1>2. /\ Tail(s) \in Seq(S) /\ Len(s) \in Nat /\ Len(s) > 0 /\ DOMAIN s = 1 .. Len(s)
      /\ Head(s) = s[1]
      /\ DOMAIN Tail(s) = 1 .. Len(s) - 1 /\ \A i \in 1 .. Len(s) - 1 : Tail(s)[i] = s[i + 1]
  BY <1>1
<1> QED BY <1>2 DEF IsSeq

\* one more element,
LEMMA AppendFacts ==
  ASSUME NEW s, NEW m, IsSeq(s)
  PROVE  /\ IsSeq(Append(s, m)) /\ Len(s) \in Nat /\ DOMAIN s = 1 .. Len(s)
         /\ DOMAIN Append(s, m) = 1 .. Len(s) + 1 /\ Append(s, m)[Len(s) + 1] = m
         /\ \A i \in 1 .. Len(s) : Append(s, m)[i] = s[i]
         /\ s \o <<m>> = Append(s, m)
<1>1. PICK S : s \in Seq(S)
  BY DEF IsSeq
<1>2. s \in Seq(S \cup {m}) /\ m \in S \cup {m}
  BY <1>1
<1>3. /\ Append(s, m) \in Seq(S \cup {m}) /\ Len(s) \in Nat /\ DOMAIN s = 1 .. Len(s)
      /\ DOMAIN Append(s, m) = 1 .. Len(s) + 1 /\ Append(s, m)[Len(s) + 1] = m
      /\ \A i \in 1 .. Len(s) : Append(s, m)[i] = s[i]
  BY <1>2
<1>4. s \o <<m>> = Append(s, m)
  BY <1>2
<1> QED BY <1>3, <1>4 DEF IsSeq

\* What a head taken leaves of the pump's messages,
LEMMA TailOnce ==
  ASSUME NEW s, IsSeq(s), s # << >>, Once(s)
  PROVE  /\ Once(Tail(s)) /\ (Free(s) => Free(Tail(s)))
         /\ OfPump(Head(s)) => Free(Tail(s))
<1>1. /\ Len(s) \in Nat /\ Len(s) > 0 /\ DOMAIN s = 1 .. Len(s)
      /\ 1 \in DOMAIN s /\ Head(s) = s[1]
      /\ DOMAIN Tail(s) = 1 .. Len(s) - 1 /\ \A i \in 1 .. Len(s) - 1 : Tail(s)[i] = s[i + 1]
  BY TailFacts
<1>2. \A i \in DOMAIN Tail(s) : i + 1 \in DOMAIN s /\ i + 1 # 1 /\ Tail(s)[i] = s[i + 1]
  BY <1>1
<1>3. ASSUME NEW i \in DOMAIN Tail(s), NEW j \in DOMAIN Tail(s),
             OfPump(Tail(s)[i]), OfPump(Tail(s)[j])
      PROVE  i = j
  <2>1. i + 1 = j + 1
    BY <1>2, <1>3 DEF Once
  <2> QED BY <1>1, <2>1
<1>4. Free(s) => Free(Tail(s))
  BY <1>2 DEF Free
<1>5. OfPump(Head(s)) => Free(Tail(s))
  BY <1>1, <1>2 DEF Once, Free
<1> QED BY <1>3, <1>4, <1>5 DEF Once

\* and what one more does to them.
LEMMA AppendOnce ==
  ASSUME NEW s, NEW m, IsSeq(s)
  PROVE  /\ Free(s) => Once(Append(s, m))
         /\ Once(s) /\ ~OfPump(m) => Once(Append(s, m))
         /\ Free(s) /\ ~OfPump(m) => Free(Append(s, m))
<1>1. /\ Len(s) \in Nat /\ DOMAIN s = 1 .. Len(s)
      /\ DOMAIN Append(s, m) = 1 .. Len(s) + 1 /\ Append(s, m)[Len(s) + 1] = m
      /\ \A i \in 1 .. Len(s) : Append(s, m)[i] = s[i]
  BY AppendFacts
<1>2. \A i \in DOMAIN Append(s, m) :
         \/ i \in DOMAIN s /\ Append(s, m)[i] = s[i]
         \/ i = Len(s) + 1 /\ Append(s, m)[i] = m
  BY <1>1
<1> QED BY <1>2 DEF Free, Once

\* A sequence without messages of the pump has at most one.
LEMMA FreeOnce == ASSUME NEW s, Free(s) PROVE Once(s)
BY DEF Free, Once

\* A wait stays led when the server answers the next request into its stream,
LEMMA LedServe ==
  ASSUME NEW s, NEW b, NEW f, NEW x, IsSeq(s), IsSeq(b), b # << >>, Led(s, b, f),
         x = Head(b) \/ x.t = "error"
  PROVE  Led(Append(s, x), Tail(b), f)
<1>1. /\ Len(s) \in Nat /\ DOMAIN s = 1 .. Len(s)
      /\ DOMAIN Append(s, x) = 1 .. Len(s) + 1 /\ Append(s, x)[Len(s) + 1] = x
      /\ \A i \in 1 .. Len(s) : Append(s, x)[i] = s[i]
  BY AppendFacts
<1>2. /\ Len(b) \in Nat /\ Len(b) > 0 /\ DOMAIN b = 1 .. Len(b)
      /\ 1 \in DOMAIN b /\ Head(b) = b[1]
      /\ DOMAIN Tail(b) = 1 .. Len(b) - 1 /\ \A i \in 1 .. Len(b) - 1 : Tail(b)[i] = b[i + 1]
  BY TailFacts
<1>3. PICK s2 : s2 = Append(s, x)
  OBVIOUS
<1>4. PICK b2 : b2 = Tail(b)
  OBVIOUS
<1>5. /\ DOMAIN s2 = 1 .. Len(s) + 1 /\ s2[Len(s) + 1] = x /\ \A i \in DOMAIN s : s2[i] = s[i]
      /\ \A i \in DOMAIN s2 : i \in DOMAIN s \/ i = Len(s) + 1
      /\ \A i \in DOMAIN s : i \in DOMAIN s2 /\ i < Len(s) + 1
      /\ Len(s) + 1 \in DOMAIN s2
  BY <1>1, <1>3
<1>6. /\ \A i \in DOMAIN b2 : i + 1 \in DOMAIN b /\ b2[i] = b[i + 1]
      /\ \A i \in DOMAIN b : i # 1 => i - 1 \in DOMAIN b2 /\ b2[i - 1] = b[i]
  BY <1>2, <1>4
<1>7. \A i \in DOMAIN s : Leads(s[i], f) => \E j \in DOMAIN s2 : Leads(s2[j], f)
  BY <1>5
<1>8. CASE x.t = "error"
  <2>1. Leads(x, f) /\ ~Foreign(x, f)
    BY <1>8 DEF Leads, Foreign
  <2>2. \E j \in DOMAIN s2 : Leads(s2[j], f)
    BY <1>5, <2>1
  <2>3. \A i \in DOMAIN s2 : Foreign(s2[i], f) => \E j \in DOMAIN s2 : j < i /\ Leads(s2[j], f)
    BY <1>5, <2>1 DEF Led
  <2> QED BY <1>3, <1>4, <2>2, <2>3 DEF Led
<1>9. CASE x = Head(b)
  <2>1. x = b[1]
    BY <1>2, <1>9
  <2>2. Leads(x, f) => \E j \in DOMAIN s2 : Leads(s2[j], f)
    BY <1>5
  <2>3. Foreign(x, f) => \E j \in DOMAIN s : Leads(s[j], f)
    <3>1. ~\E j \in DOMAIN b : j < 1
      BY <1>2
    <3> QED BY <1>2, <2>1, <3>1 DEF Led
  <2>4. ASSUME NEW i \in DOMAIN s2, Foreign(s2[i], f)
        PROVE  \E j \in DOMAIN s2 : j < i /\ Leads(s2[j], f)
    <3>1. CASE i \in DOMAIN s
      BY <1>5, <2>4, <3>1 DEF Led
    <3>2. CASE i = Len(s) + 1
      BY <1>5, <2>3, <2>4, <3>2
    <3> QED BY <1>5, <3>1, <3>2
  <2>5. ASSUME NEW i \in DOMAIN b2, Foreign(b2[i], f)
        PROVE  \/ \E j \in DOMAIN s2 : Leads(s2[j], f)
               \/ \E j \in DOMAIN b2 : j < i /\ Leads(b2[j], f)
    <3>1. Foreign(b[i + 1], f) /\ i + 1 \in DOMAIN b
      BY <1>6, <2>5
    <3>2. CASE \E j \in DOMAIN s : Leads(s[j], f)
      BY <1>7, <3>2
    <3>3. ASSUME NEW j \in DOMAIN b, j < i + 1, Leads(b[j], f)
          PROVE  \/ \E k \in DOMAIN s2 : Leads(s2[k], f)
                 \/ \E k \in DOMAIN b2 : k < i /\ Leads(b2[k], f)
      <4>1. CASE j = 1
        BY <2>1, <2>2, <3>3, <4>1
      <4>2. CASE j # 1
        <5>1. j - 1 \in DOMAIN b2 /\ b2[j - 1] = b[j]
          BY <1>6, <4>2
        <5>2. j - 1 < i
          BY <1>2, <1>4, <3>3
        <5> QED BY <3>3, <5>1, <5>2
      <4> QED BY <4>1, <4>2
    <3> QED BY <3>1, <3>2, <3>3 DEF Led
  <2>6. (\E i \in DOMAIN s2 : Leads(s2[i], f)) \/ (\E i \in DOMAIN b2 : Leads(b2[i], f))
    <3>1. CASE \E i \in DOMAIN s : Leads(s[i], f)
      BY <1>7, <3>1
    <3>2. ASSUME NEW i \in DOMAIN b, Leads(b[i], f)
          PROVE  (\E j \in DOMAIN s2 : Leads(s2[j], f)) \/ (\E j \in DOMAIN b2 : Leads(b2[j], f))
      <4>1. CASE i = 1
        BY <2>1, <2>2, <3>2, <4>1
      <4> QED BY <1>6, <3>2, <4>1
    <3> QED BY <3>1, <3>2 DEF Led
  <2> QED BY <1>3, <1>4, <2>4, <2>5, <2>6 DEF Led
<1> QED BY <1>8, <1>9

\* when the server passes over a request of another kind,
LEMMA LedSkip ==
  ASSUME NEW s, NEW b, NEW f, IsSeq(b), b # << >>, Led(s, b, f),
         ~Leads(Head(b), f)
  PROVE  Led(s, Tail(b), f)
<1>1. PICK b2 : b2 = Tail(b)
  OBVIOUS
<1>2. /\ Len(b) \in Nat /\ Len(b) > 0 /\ DOMAIN b = 1 .. Len(b)
      /\ 1 \in DOMAIN b /\ Head(b) = b[1]
      /\ DOMAIN b2 = 1 .. Len(b) - 1 /\ \A i \in 1 .. Len(b) - 1 : b2[i] = b[i + 1]
  BY <1>1, TailFacts
<1>3. /\ \A i \in DOMAIN b2 : i + 1 \in DOMAIN b /\ b2[i] = b[i + 1]
      /\ \A i \in DOMAIN b : i # 1 => i - 1 \in DOMAIN b2 /\ b2[i - 1] = b[i]
      /\ \A i \in DOMAIN b : Leads(b[i], f) => i # 1
  BY <1>2
<1>4. ASSUME NEW i \in DOMAIN b2, Foreign(b2[i], f)
      PROVE  \/ \E j \in DOMAIN s : Leads(s[j], f)
             \/ \E j \in DOMAIN b2 : j < i /\ Leads(b2[j], f)
  <2>1. Foreign(b[i + 1], f) /\ i + 1 \in DOMAIN b
    BY <1>3, <1>4
  <2>2. ASSUME NEW j \in DOMAIN b, j < i + 1, Leads(b[j], f)
        PROVE  \E k \in DOMAIN b2 : k < i /\ Leads(b2[k], f)
    <3>1. j - 1 \in DOMAIN b2 /\ b2[j - 1] = b[j]
      BY <1>3, <2>2
    <3>2. j - 1 < i
      BY <1>2, <2>2
    <3> QED BY <2>2, <3>1, <3>2
  <2> QED BY <2>1, <2>2 DEF Led
<1>5. (\E i \in DOMAIN s : Leads(s[i], f)) \/ (\E i \in DOMAIN b2 : Leads(b2[i], f))
  BY <1>3 DEF Led
<1>6. \A i \in DOMAIN s : Foreign(s[i], f) => \E j \in DOMAIN s : j < i /\ Leads(s[j], f)
  BY DEF Led
<1> QED BY <1>1, <1>4, <1>5, <1>6 DEF Led

\* when more is asked for,
LEMMA LedAsks ==
  ASSUME NEW s, NEW b, NEW f, NEW x, IsSeq(b), Led(s, b, f)
  PROVE  Led(s, Append(b, x), f)
<1>1. PICK b2 : b2 = Append(b, x)
  OBVIOUS
<1>2. /\ Len(b) \in Nat /\ DOMAIN b = 1 .. Len(b)
      /\ DOMAIN b2 = 1 .. Len(b) + 1 /\ b2[Len(b) + 1] = x
      /\ \A i \in 1 .. Len(b) : b2[i] = b[i]
  BY <1>1, AppendFacts
<1>3. /\ \A i \in DOMAIN b : i \in DOMAIN b2 /\ b2[i] = b[i] /\ i < Len(b) + 1
      /\ \A i \in DOMAIN b2 : i \in DOMAIN b \/ i = Len(b) + 1
  BY <1>2
<1>4. ASSUME NEW i \in DOMAIN b2, Foreign(b2[i], f)
      PROVE  \/ \E j \in DOMAIN s : Leads(s[j], f)
             \/ \E j \in DOMAIN b2 : j < i /\ Leads(b2[j], f)
  <2>1. CASE i \in DOMAIN b
    BY <1>3, <1>4, <2>1 DEF Led
  <2>2. CASE i = Len(b) + 1
    BY <1>3, <2>2 DEF Led
  <2> QED BY <1>3, <2>1, <2>2
<1>5. (\E i \in DOMAIN s : Leads(s[i], f)) \/ (\E i \in DOMAIN b2 : Leads(b2[i], f))
  BY <1>3 DEF Led
<1> QED BY <1>1, <1>4, <1>5 DEF Led

\* and when its stream gets something else, one at a time or many.
LEMMA LedMore ==
  ASSUME NEW s, NEW t, NEW b, NEW f, IsSeq(s), IsSeq(t), Led(s, b, f),
         \A i \in DOMAIN t : ~Foreign(t[i], f)
  PROVE  Led(s \o t, b, f)
<1>1. PICK S : s \in Seq(S)
  BY DEF IsSeq
<1>2. PICK T : t \in Seq(T)
  BY DEF IsSeq
<1>3. s \in Seq(S \cup T) /\ t \in Seq(S \cup T)
  BY <1>1, <1>2
<1>4. PICK s2 : s2 = s \o t
  OBVIOUS
<1>5. /\ Len(s) \in Nat /\ Len(t) \in Nat
      /\ DOMAIN s = 1 .. Len(s) /\ DOMAIN t = 1 .. Len(t)
      /\ DOMAIN s2 = 1 .. Len(s) + Len(t)
      /\ \A i \in 1 .. Len(s) : s2[i] = s[i]
      /\ \A i \in Len(s) + 1 .. Len(s) + Len(t) : s2[i] = t[i - Len(s)]
  BY <1>3, <1>4
<1>6. /\ \A i \in DOMAIN s : i \in DOMAIN s2 /\ s2[i] = s[i]
      /\ \A i \in DOMAIN s2 : i \in DOMAIN s \/ (i - Len(s) \in DOMAIN t /\ s2[i] = t[i - Len(s)])
  BY <1>5
<1>7. \A i \in DOMAIN s2 : Foreign(s2[i], f) => i \in DOMAIN s
  BY <1>6
<1>8. \A i \in DOMAIN s2 : Foreign(s2[i], f) => \E j \in DOMAIN s2 : j < i /\ Leads(s2[j], f)
  BY <1>6, <1>7 DEF Led
<1>9. (\E i \in DOMAIN s2 : Leads(s2[i], f)) \/ (\E i \in DOMAIN b : Leads(b[i], f))
  BY <1>6 DEF Led
<1>10. (\E j \in DOMAIN s : Leads(s[j], f)) => (\E j \in DOMAIN s2 : Leads(s2[j], f))
  BY <1>6
<1> QED BY <1>4, <1>8, <1>9, <1>10 DEF Led

\* It meets nothing foreign at the head of its stream, and goes on past the rest.
LEMMA LedTake ==
  ASSUME NEW s, NEW b, NEW f, IsSeq(s), s # << >>, Led(s, b, f)
  PROVE  /\ ~Foreign(Head(s), f)
         /\ ~Leads(Head(s), f) => Led(Tail(s), b, f)
<1>1. PICK s2 : s2 = Tail(s)
  OBVIOUS
<1>2. /\ Len(s) \in Nat /\ Len(s) > 0 /\ DOMAIN s = 1 .. Len(s)
      /\ 1 \in DOMAIN s /\ Head(s) = s[1]
      /\ DOMAIN s2 = 1 .. Len(s) - 1 /\ \A i \in 1 .. Len(s) - 1 : s2[i] = s[i + 1]
  BY <1>1, TailFacts
<1>3. /\ \A i \in DOMAIN s2 : i + 1 \in DOMAIN s /\ s2[i] = s[i + 1]
      /\ \A i \in DOMAIN s : i # 1 => i - 1 \in DOMAIN s2 /\ s2[i - 1] = s[i]
  BY <1>2
<1>4. ~Foreign(Head(s), f)
  BY <1>2 DEF Led
<1>5. ASSUME ~Leads(Head(s), f) PROVE Led(Tail(s), b, f)
  <2>1. \A i \in DOMAIN s : Leads(s[i], f) => i # 1
    BY <1>2, <1>5
  <2>2. ASSUME NEW i \in DOMAIN s2, Foreign(s2[i], f)
        PROVE  \E j \in DOMAIN s2 : j < i /\ Leads(s2[j], f)
    <3>1. PICK j \in DOMAIN s : j < i + 1 /\ Leads(s[j], f)
      BY <1>3, <2>2 DEF Led
    <3>2. j - 1 \in DOMAIN s2 /\ s2[j - 1] = s[j]
      BY <1>3, <2>1, <3>1
    <3>3. j - 1 < i
      BY <1>2, <3>1
    <3> QED BY <3>1, <3>2, <3>3
  <2>3. (\E j \in DOMAIN s : Leads(s[j], f)) => (\E j \in DOMAIN s2 : Leads(s2[j], f))
    BY <1>3, <2>1
  <2> QED BY <1>1, <2>2, <2>3 DEF Led
<1> QED BY <1>4, <1>5

\* A wait begins with no transport under way.
LEMMA LedStart ==
  ASSUME NEW s, NEW b, NEW f, IsSeq(b),
         \A i \in DOMAIN s : s[i].t # "transport", \A i \in DOMAIN b : b[i].t # "transport"
  PROVE  Led(s, Append(b, Transport(f)), f)
<1>1. PICK x : x = Transport(f)
  OBVIOUS
<1>2. PICK b2 : b2 = Append(b, x)
  OBVIOUS
<1>3. /\ Len(b) \in Nat /\ DOMAIN b = 1 .. Len(b)
      /\ DOMAIN b2 = 1 .. Len(b) + 1 /\ b2[Len(b) + 1] = x
      /\ \A i \in 1 .. Len(b) : b2[i] = b[i]
  BY <1>2, AppendFacts
<1>4. x.t = "transport" /\ x.for = f
  BY <1>1 DEF Transport
<1>5. Len(b) + 1 \in DOMAIN b2 /\ Leads(b2[Len(b) + 1], f)
  BY <1>3, <1>4 DEF Leads
<1>6. \A i \in DOMAIN b2 : ~Foreign(b2[i], f)
  BY <1>3, <1>4 DEF Foreign
<1>7. \A i \in DOMAIN s : ~Foreign(s[i], f)
  BY DEF Foreign
<1> QED BY <1>1, <1>2, <1>5, <1>6, <1>7 DEF Led

\* The places in a stream to which announcements were added.
LEMMA CatFacts ==
  ASSUME NEW s, NEW t, IsSeq(s), IsSeq(t)
  PROVE  /\ IsSeq(s \o t)
         /\ \A i \in DOMAIN (s \o t) : \/ i \in DOMAIN s /\ (s \o t)[i] = s[i]
                                       \/ \E k \in DOMAIN t : (s \o t)[i] = t[k]
<1>1. PICK S : s \in Seq(S)
  BY DEF IsSeq
<1>2. PICK T : t \in Seq(T)
  BY DEF IsSeq
<1>3. s \in Seq(S \cup T) /\ t \in Seq(S \cup T)
  BY <1>1, <1>2
<1>4. /\ s \o t \in Seq(S \cup T) /\ Len(s) \in Nat /\ Len(t) \in Nat
      /\ DOMAIN s = 1 .. Len(s) /\ DOMAIN t = 1 .. Len(t)
      /\ DOMAIN (s \o t) = 1 .. Len(s) + Len(t)
      /\ \A i \in 1 .. Len(s) : (s \o t)[i] = s[i]
      /\ \A i \in Len(s) + 1 .. Len(s) + Len(t) : (s \o t)[i] = t[i - Len(s)]
  BY <1>3
<1>5. \A i \in DOMAIN (s \o t) : i \notin DOMAIN s =>
         i - Len(s) \in DOMAIN t /\ (s \o t)[i] = t[i - Len(s)]
  BY <1>4
<1> QED BY <1>4, <1>5 DEF IsSeq

\* The empty answer and the answer of one message.
LEMMA AnswerFacts == /\ Free(<< >>) /\ Once(<< >>) /\ DOMAIN << >> = {}
                     /\ \A x : /\ Once(<<x>>) /\ (OfPump(x) \/ Free(<<x>>)) /\ DOMAIN <<x>> = {1}
                               /\ <<x>>[1] = x /\ (Free(<<x>>) => ~OfPump(x))
<1>1. DOMAIN << >> = {} /\ \A x : DOMAIN <<x>> = {1} /\ <<x>>[1] = x
  OBVIOUS
<1> QED BY <1>1 DEF Free, Once

\* The round's one message as the server takes it from the inbox,
LEMMA RoundMoves ==
  ASSUME NEW p, NEW a, NEW b, NEW x, IsSeq(p), IsSeq(b), b # << >>, OneRound(p, a, b),
         OfPump(x) => OfPump(Head(b))
  PROVE  /\ OneRound(p, a, Tail(b)) /\ OneRound(Append(p, x), a, Tail(b))
         /\ a = << >> => OneRound(p, <<x>>, Tail(b))
<1>1. Once(p) /\ Once(a) /\ Once(b) /\ (Free(p) \/ Free(b)) /\ (Free(a) \/ Free(b)) /\ (Free(p) \/ Free(a))
  BY DEF OneRound
<1>2. /\ Once(Tail(b)) /\ (Free(b) => Free(Tail(b))) /\ (OfPump(x) => Free(Tail(b)))
      /\ Free(b) => ~OfPump(x)
  <2>1. Free(b) => ~OfPump(Head(b))
    BY TailFacts DEF Free
  <2> QED BY <1>1, <2>1, TailOnce
<1>3. /\ OfPump(x) => Free(p) /\ Free(a) /\ Once(Append(p, x))
      /\ ~OfPump(x) => Once(Append(p, x)) /\ (Free(p) => Free(Append(p, x)))
  BY <1>1, <1>2, AppendOnce
<1>4. OneRound(p, a, Tail(b))
  BY <1>1, <1>2 DEF OneRound
<1>5. OneRound(Append(p, x), a, Tail(b))
  BY <1>1, <1>2, <1>3 DEF OneRound
<1>6. a = << >> => OneRound(p, <<x>>, Tail(b))
  BY <1>1, <1>2, <1>3, AnswerFacts DEF OneRound
<1> QED BY <1>4, <1>5, <1>6

\* writes the answer,
LEMMA RoundReplies ==
  ASSUME NEW p, NEW x, NEW b, IsSeq(p), OneRound(p, <<x>>, b)
  PROVE  OneRound(p, << >>, b) /\ OneRound(Append(p, x), << >>, b)
<1>1. Free(<<x>>) => ~OfPump(x)
  BY AnswerFacts
<1> QED BY <1>1, AnswerFacts, AppendOnce DEF OneRound

\* as something else arrives,
LEMMA RoundHears ==
  ASSUME NEW p, NEW t, NEW a, NEW b, IsSeq(p), IsSeq(t), Free(t)
  PROVE  /\ OneRound(p, a, b) => OneRound(p \o t, a, b)
         /\ Free(p) => Free(p \o t)
<1>1. PICK q : q = p \o t
  OBVIOUS
<1>2. \A i \in DOMAIN q : OfPump(q[i]) => i \in DOMAIN p /\ OfPump(p[i])
  BY <1>1, CatFacts DEF Free
<1>3. (Once(p) => Once(q)) /\ (Free(p) => Free(q))
  BY <1>2 DEF Free, Once
<1> QED BY <1>1, <1>3 DEF OneRound

\* as the pump takes an event,
LEMMA RoundTakes ==
  ASSUME NEW p, NEW a, NEW b, IsSeq(p), p # << >>, OneRound(p, a, b)
  PROVE  /\ OneRound(Tail(p), a, b)
         /\ OfPump(Head(p)) => Free(Tail(p)) /\ Free(a) /\ Free(b)
<1>1. Free(p) => ~OfPump(Head(p))
  BY TailFacts DEF Free
<1> QED BY <1>1, TailOnce DEF OneRound

\* and as something is asked for.
LEMMA RoundAsks ==
  ASSUME NEW p, NEW a, NEW b, NEW x, IsSeq(b)
  PROVE  /\ Free(p) /\ Free(a) /\ Free(b) => OneRound(p, a, Append(b, x))
         /\ OneRound(p, a, b) /\ ~OfPump(x) => OneRound(p, a, Append(b, x))
         /\ Free(b) /\ ~OfPump(x) => Free(Append(b, x))
BY AppendOnce, FreeOnce DEF OneRound

\* The only transport of open_control, served and answered.
LEMMA LoneServe ==
  ASSUME NEW e, NEW b, NEW x, IsSeq(e), IsSeq(b), b # << >>, Lone(e, b),
         x = Head(b) \/ x.t # "transport"
  PROVE  Lone(e, Tail(b)) /\ Lone(Append(e, x), Tail(b))
<1>1. PICK b2 : b2 = Tail(b)
  OBVIOUS
<1>2. PICK e2 : e2 = Append(e, x)
  OBVIOUS
<1>3. /\ Len(b) \in Nat /\ 1 \in DOMAIN b /\ Head(b) = b[1] /\ DOMAIN b2 = 1 .. Len(b) - 1
      /\ \A i \in DOMAIN b2 : i + 1 \in DOMAIN b /\ i + 1 # 1 /\ b2[i] = b[i + 1]
  BY <1>1, TailFacts
<1>4. \A i \in DOMAIN e2 : (i \in DOMAIN e /\ e2[i] = e[i]) \/ e2[i] = x
  BY <1>2, AppendFacts
<1>5. Lone(e, b2)
  <2>1. ASSUME NEW i \in DOMAIN b2, NEW j \in DOMAIN b2, b2[i].t = "transport", b2[j].t = "transport"
        PROVE  i = j
    <3>1. i + 1 = j + 1
      BY <1>3, <2>1 DEF Lone
    <3> QED BY <1>3, <3>1
  <2>2. /\ \A i \in DOMAIN e : e[i].t = "transport" => e[i].for = "open"
        /\ \A i \in DOMAIN b2 : b2[i].t = "transport" => b2[i].for = "open"
        /\ \A i \in DOMAIN e, j \in DOMAIN b2 : e[i].t = "transport" => b2[j].t # "transport"
    BY <1>3 DEF Lone
  <2> QED BY <2>1, <2>2 DEF Lone
<1>6. x.t = "transport" => x.for = "open" /\ \A i \in DOMAIN b2 : b2[i].t # "transport"
  BY <1>3 DEF Lone
<1>7. Lone(e2, b2)
  BY <1>4, <1>5, <1>6 DEF Lone
<1> QED BY <1>1, <1>2, <1>5, <1>7

\* Something else arrives in the stream, or is passed over there.
LEMMA LoneHears ==
  ASSUME NEW e, NEW b, NEW x, IsSeq(e), Lone(e, b)
  PROVE  /\ x.t # "transport" => Lone(Append(e, x), b)
         /\ e # << >> => Lone(Tail(e), b)
<1>1. ASSUME x.t # "transport" PROVE Lone(Append(e, x), b)
  <2>1. PICK e2 : e2 = Append(e, x)
    OBVIOUS
  <2>2. \A i \in DOMAIN e2 : (i \in DOMAIN e /\ e2[i] = e[i]) \/ e2[i] = x
    BY <2>1, AppendFacts
  <2> QED BY <1>1, <2>1, <2>2 DEF Lone
<1>2. ASSUME e # << >> PROVE Lone(Tail(e), b)
  <2>1. PICK e2 : e2 = Tail(e)
    OBVIOUS
  <2>2. \A i \in DOMAIN e2 : i + 1 \in DOMAIN e /\ e2[i] = e[i + 1]
    BY <1>2, <2>1, TailFacts
  <2> QED BY <2>1, <2>2 DEF Lone
<1> QED BY <1>1, <1>2

\* A condition on every message survives a head taken, and one more that meets it.
LEMMA TailAll ==
  ASSUME NEW s, IsSeq(s), s # << >>
  PROVE  \A i \in DOMAIN Tail(s) : \E j \in DOMAIN s : Tail(s)[i] = s[j]
BY TailFacts

\* The same for one more message.
LEMMA AppendAll ==
  ASSUME NEW s, NEW x, IsSeq(s)
  PROVE  \A i \in DOMAIN Append(s, x) : Append(s, x)[i] = x \/ \E j \in DOMAIN s : Append(s, x)[i] = s[j]
BY AppendFacts

\* What a flow or the pump waits for is still to come when the server has worked out the
\* answer to a request,
LEMMA SaneAnswer ==
  ASSUME NEW e, NEW p, NEW a, NEW b, NEW w, NEW pm, NEW x, IsSeq(p), IsSeq(e), IsSeq(b), b # << >>, a = << >>,
         MainWaits(e, b, w), PumpWaits(p, a, b, pm),
         Head(b).t \in {"produce", "consume"}, x.t \in {"dp", "consumed"},
         OfPump(x) => OfPump(Head(b)),
         x.t = "consumed" => Head(b).t = "consume" /\ x.dp = Head(b).dp
  PROVE  MainWaits(e, Tail(b), w) /\ PumpWaits(p, <<x>>, Tail(b), pm)
<1>1. 1 \in DOMAIN b /\ Head(b) = b[1]
  BY TailFacts
<1>2. PICK b2 : b2 = Tail(b)
  OBVIOUS
<1>3. \A i \in DOMAIN b2 : \E j \in DOMAIN b : b2[i] = b[j]
  BY <1>2, TailAll
<1>4. \A f : ~Leads(Head(b), f)
  BY DEF Leads
<1>5. MainWaits(e, b2, w)
  <2>1. w = "send" => Lone(e, b2)
    BY <1>2, LoneServe DEF MainWaits
  <2>2. w = "dp" => \A i \in DOMAIN b2 : b2[i].t # "transport"
    BY <1>3 DEF MainWaits
  <2>3. w = "recv" => Led(e, b2, "video")
    BY <1>2, <1>4, LedSkip DEF MainWaits
  <2> QED BY <2>1, <2>2, <2>3 DEF MainWaits
<1>6. PumpWaits(p, <<x>>, b2, pm)
  <2>1. Free(b) => Free(b2) /\ Free(<<x>>)
    BY <1>1, <1>3, AnswerFacts DEF Free
  <2>2. pm.pc \in {"tr", "data"} => OneRound(p, <<x>>, b2)
    BY <1>2, RoundMoves DEF PumpWaits
  <2>3. pm.pc = "tr" => Led(p, b2, "pump")
    BY <1>2, <1>4, LedSkip DEF PumpWaits
  <2>4. pm.pc = "data" => \A s \in {p, <<x>>, b2} : \A i \in DOMAIN s :
                             s[i].t \in {"consume", "consumed"} => s[i].dp = pm.cur
    BY <1>1, <1>3, AnswerFacts DEF PumpWaits
  <2>5. pm.pc \in {"drain", "wait", "tr", "data"} => \A i \in DOMAIN b2 : ~Open1(b2[i])
    BY <1>3 DEF PumpWaits
  <2> QED BY <2>1, <2>2, <2>3, <2>4, <2>5 DEF PumpWaits
<1> QED BY <1>2, <1>5, <1>6

\* Who has no stream yet, or none any more.
Deaf == {"off", "joined", "gone"}

\* when it has written the answer at once,
LEMMA SaneWrite ==
  ASSUME NEW e, NEW p, NEW a, NEW b, NEW mn, NEW pm, NEW x, NEW e2, NEW p2,
         IsSeq(p), IsSeq(e), IsSeq(b), b # << >>, Kinds(a, b), Pair(mn, pm),
         MainWaits(e, b, mn.pc), PumpWaits(p, a, b, pm),
         \/ x = Head(b) /\ x.t \in {"transport", "media"}
         \/ x.t = "error" /\ x.for = Head(b).for,
         e2 = IF mn.pc \in Deaf THEN e ELSE Append(e, x),
         p2 = IF mn.pc \in Deaf \/ x.t = "media" THEN p ELSE Append(p, x)
  PROVE  MainWaits(e2, Tail(b), mn.pc) /\ PumpWaits(p2, a, Tail(b), pm)
<1>1. 1 \in DOMAIN b /\ Head(b) = b[1]
  BY TailFacts
<1>2. PICK b2 : b2 = Tail(b)
  OBVIOUS
<1>3. \A i \in DOMAIN b2 : \E j \in DOMAIN b : b2[i] = b[j]
  BY <1>2, TailAll
<1>4. x = Head(b) \/ (x.t = "error" /\ x.t # "transport")
  OBVIOUS
<1>5. MainWaits(e2, b2, mn.pc)
  <2>1. mn.pc \in {"send", "dp", "recv"} => e2 = Append(e, x)
    BY DEF Deaf
  <2>2. mn.pc = "send" => Lone(Append(e, x), b2)
    BY <1>2, <1>4, LoneServe DEF MainWaits
  <2>3. mn.pc = "dp" => \A i \in DOMAIN b2 : b2[i].t # "transport"
    BY <1>3 DEF MainWaits
  <2>4. mn.pc = "recv" => Led(Append(e, x), b2, "video")
    BY <1>2, <1>4, LedServe DEF MainWaits
  <2> QED BY <2>1, <2>2, <2>3, <2>4 DEF MainWaits
<1>6. Head(b).t \in {"transport", "produce", "consume", "media"}
  BY <1>1 DEF Kinds
<1>7. OfPump(x) => OfPump(Head(b))
  BY <1>6 DEF OfPump
<1>8. PumpWaits(p2, a, b2, pm)
  <2>1. Free(b) => Free(b2) /\ ~OfPump(x)
    BY <1>1, <1>3, <1>7 DEF Free
  <2>2. p2 = p \/ p2 = Append(p, x)
    OBVIOUS
  <2>3. \A i \in DOMAIN p2 : p2[i] = x \/ \E j \in DOMAIN p : p2[i] = p[j]
    BY <2>2, AppendAll
  <2>4. Free(p) /\ ~OfPump(x) => Free(p2)
    BY <2>3 DEF Free
  <2>5. pm.pc \in {"tr", "data"} => OneRound(p2, a, b2)
    BY <1>2, <1>7, <2>2, RoundMoves DEF PumpWaits
  <2>6. pm.pc = "tr" => Led(p2, b2, "pump")
    <3>1. CASE pm.pc = "tr" /\ x.t = "media"
      <4>1. p2 = p /\ ~Leads(Head(b), "pump")
        BY <3>1 DEF Leads
      <4> QED BY <1>2, <3>1, <4>1, LedSkip DEF PumpWaits
    <3>2. CASE pm.pc = "tr" /\ x.t # "media"
      <4>1. p2 = Append(p, x)
        BY <3>2 DEF Pair, Deaf
      <4> QED BY <1>2, <1>4, <3>2, <4>1, LedServe DEF PumpWaits
    <3> QED BY <3>1, <3>2
  <2>7. pm.pc = "data" => \A s \in {p2, a, b2} : \A i \in DOMAIN s :
                             s[i].t \in {"consume", "consumed"} => s[i].dp = pm.cur
    BY <1>1, <1>3, <1>4, <2>3 DEF PumpWaits
  <2>8. pm.pc \in {"drain", "wait", "tr", "data"} => ~Open1(x) /\ \A i \in DOMAIN b2 : ~Open1(b2[i])
    BY <1>1, <1>3, <1>4 DEF PumpWaits, Open1
  <2>9. pm.pc \in {"wait", "tr", "data"} => \A i \in DOMAIN p2 : ~Open1(p2[i])
    BY <2>3, <2>8 DEF PumpWaits
  <2> QED BY <2>1, <2>4, <2>5, <2>6, <2>7, <2>8, <2>9 DEF PumpWaits
<1> QED BY <1>2, <1>5, <1>8

\* when it writes the answer it had worked out,
LEMMA SaneReply ==
  ASSUME NEW e, NEW p, NEW b, NEW mn, NEW pm, NEW x, NEW e2, NEW p2,
         IsSeq(p), IsSeq(e), IsSeq(b), Pair(mn, pm), x.t \in {"dp", "consumed"},
         MainWaits(e, b, mn.pc), PumpWaits(p, <<x>>, b, pm),
         e2 = e \/ e2 = Append(e, x), p2 = p \/ p2 = Append(p, x)
  PROVE  MainWaits(e2, b, mn.pc) /\ PumpWaits(p2, << >>, b, pm)
<1>1. IsSeq(<<x>>) /\ DOMAIN <<x>> = {1} /\ <<x>>[1] = x
  BY SmallItems
<1>2. \A f : \A i \in DOMAIN <<x>> : ~Foreign(<<x>>[i], f)
  BY <1>1 DEF Foreign
<1>3. Append(e, x) = e \o <<x>> /\ Append(p, x) = p \o <<x>>
  BY AppendFacts
<1>4. MainWaits(e2, b, mn.pc)
  BY <1>1, <1>2, <1>3, LoneHears, LedMore DEF MainWaits
<1>5. PumpWaits(p2, << >>, b, pm)
  <2>1. \A i \in DOMAIN p2 : p2[i] = x \/ \E j \in DOMAIN p : p2[i] = p[j]
    BY AppendAll
  <2>2. Free(<<x>>) => ~OfPump(x)
    BY AnswerFacts
  <2>3. Free(p) /\ Free(<<x>>) => Free(p2)
    BY <2>1, <2>2 DEF Free
  <2>4. pm.pc \in {"tr", "data"} => OneRound(p2, << >>, b)
    BY RoundReplies DEF PumpWaits
  <2>5. pm.pc = "tr" => Led(p2, b, "pump")
    BY <1>1, <1>2, <1>3, LedMore DEF PumpWaits
  <2>6. pm.pc = "data" => \A s \in {p2, << >>, b} : \A i \in DOMAIN s :
                             s[i].t \in {"consume", "consumed"} => s[i].dp = pm.cur
    <3>1. pm.pc = "data" => \A s \in {p, <<x>>, b} : \A i \in DOMAIN s :
                             s[i].t \in {"consume", "consumed"} => s[i].dp = pm.cur
      BY DEF PumpWaits
    <3>2. pm.pc = "data" => (x.t \in {"consume", "consumed"} => x.dp = pm.cur)
      BY <1>1, <3>1
    <3> QED BY <2>1, <3>1, <3>2, AnswerFacts
  <2>7. pm.pc \in {"wait", "tr", "data"} => \A i \in DOMAIN p2 : ~Open1(p2[i])
    BY <2>1 DEF PumpWaits, Open1
  <2> QED BY <2>3, <2>4, <2>5, <2>6, <2>7, AnswerFacts DEF PumpWaits
<1> QED BY <1>4, <1>5

\* and when the room is told of producers.
LEMMA SaneHears ==
  ASSUME NEW p, NEW a, NEW b, NEW pm, NEW t, IsSeq(p), IsSeq(t),
         \A i \in DOMAIN t : t[i].t \in {"new", "closed"}, PumpWaits(p, a, b, pm)
  PROVE  PumpWaits(p \o t, a, b, pm)
<1>1. /\ Free(t) /\ \A i \in DOMAIN t : ~Open1(t[i]) /\ t[i].t \notin {"consume", "consumed"}
      /\ \A f : \A i \in DOMAIN t : ~Foreign(t[i], f)
  BY DEF Free, OfPump, Open1, Foreign
<1>2. PICK q : q = p \o t
  OBVIOUS
<1>3. \A i \in DOMAIN q : (\E j \in DOMAIN p : q[i] = p[j]) \/ (\E j \in DOMAIN t : q[i] = t[j])
  BY <1>2, CatFacts
<1>4. (Free(p) => Free(q)) /\ (OneRound(p, a, b) => OneRound(q, a, b))
  BY <1>1, <1>2, RoundHears
<1>5. Led(p, b, "pump") => Led(q, b, "pump")
  BY <1>1, <1>2, LedMore
<1>6. pm.pc = "data" => \A s \in {q, a, b} : \A i \in DOMAIN s :
                           s[i].t \in {"consume", "consumed"} => s[i].dp = pm.cur
  BY <1>1, <1>3 DEF PumpWaits
<1>7. pm.pc \in {"wait", "tr", "data"} => \A i \in DOMAIN q : ~Open1(q[i])
  BY <1>1, <1>3 DEF PumpWaits
<1> QED BY <1>2, <1>4, <1>5, <1>6, <1>7 DEF PumpWaits

\* The fields of the two flows' states, and what the room can be told.
MainFields == {"pc", "taken", "dp", "send", "recv"}
PumpFields == {"pc", "seed", "tr", "cur", "dcs"}
NewsOnly(c) == IsSeq(chan[c]) /\ \A i \in DOMAIN chan[c] : chan[c][i].t \in {"new", "closed"}
\* A transport is asked for by one of the three flows.
Flown(s) == \A i \in DOMAIN s : s[i].t = "transport" => s[i].for \in {"open", "video", "pump"}
SeatInv(c) ==
  /\ IsSeq(ev[MainOf(c)]) /\ IsSeq(ev[PumpOf(c)]) /\ IsSeq(inbox[c])
  /\ Flown(ev[MainOf(c)]) /\ Flown(ev[PumpOf(c)]) /\ Flown(inbox[c])
  /\ DOMAIN main[c] = MainFields /\ DOMAIN pump[c] = PumpFields
  /\ NewsOnly(c) /\ CockpitInv(c)
CrossInv == DOMAIN main = Cockpits /\ DOMAIN pump = Cockpits /\ \A c \in Cockpits : SeatInv(c)

\* Nothing of cockpit d changes, but for what the room is told.
Same(d) ==
  /\ ev'[MainOf(d)] = ev[MainOf(d)] /\ ev'[PumpOf(d)] = ev[PumpOf(d)]
  /\ ans'[d] = ans[d] /\ inbox'[d] = inbox[d] /\ main'[d] = main[d] /\ pump'[d] = pump[d]
  /\ d \in muddled => d \in muddled'

\* Then what is kept about it is kept.
LEMMA SameSeat == ASSUME NEW d, SeatInv(d), Same(d), NewsOnly(d)' PROVE SeatInv(d)'
BY DEF SeatInv, Same, CockpitInv, MainOf, PumpOf

\* The streams are different.
LEMMA Streams ==
  /\ \A c, d \in Cockpits : /\ c # d => MainOf(c) # MainOf(d) /\ PumpOf(c) # PumpOf(d)
                            /\ MainOf(c) # PumpOf(d)
  /\ \A c \in Cockpits : /\ MainOf(c) \in SubsOf(c) /\ PumpOf(c) \in SubsOf(c)
                         /\ MainOf(c) \in Subscribers /\ PumpOf(c) \in Subscribers
                         /\ MainOf(c) # Vehicle /\ PumpOf(c) # Vehicle
                         /\ MainOf(c)[1] = c /\ PumpOf(c)[1] = c
                         /\ MainOf(c)[2] = "main" /\ PumpOf(c)[2] = "pump"
  /\ \A c, d \in Cockpits : c # d => MainOf(c) \notin SubsOf(d) /\ PumpOf(c) \notin SubsOf(d)
  /\ \A c \in Cockpits : MainOf(c) \notin SubsOf(Vehicle) /\ PumpOf(c) \notin SubsOf(Vehicle)
<1>1. \A c \in Cockpits : MainOf(c) # Vehicle /\ PumpOf(c) # Vehicle /\ c # Vehicle
  BY Apart
<1>2. \A c \in Cockpits : SubsOf(c) = {c} \X {"main", "pump"}
  BY <1>1 DEF SubsOf
<1> QED BY <1>1, <1>2 DEF MainOf, PumpOf, SubsOf, Subscribers

\* What is written to a session reaches its own streams and no others.
LEMMA DeliverAt ==
  ASSUME NEW c \in Cockpits, NEW m, ev' = Deliver(ev, c, m)
  PROVE  /\ ev'[MainOf(c)] = IF main[c].pc \notin Deaf /\ m.t \in {"transport", "dp", "media", "error"}
                             THEN Append(ev[MainOf(c)], m) ELSE ev[MainOf(c)]
         /\ ev'[PumpOf(c)] = IF /\ main[c].pc \notin Deaf
                                /\ \/ m.t \in {"closed", "transport", "consumed", "error"}
                                   \/ m.t = "new" /\ m.label = "ack"
                             THEN Append(ev[PumpOf(c)], m) ELSE ev[PumpOf(c)]
         /\ \A d \in Cockpits \ {c} : ev'[MainOf(d)] = ev[MainOf(d)] /\ ev'[PumpOf(d)] = ev[PumpOf(d)]
<1>1. \A r \in {MainOf(c), PumpOf(c)} : /\ Listening(r) <=> main[c].pc \notin Deaf
                                        /\ r \in Subscribers /\ r \in SubsOf(c)
  BY Streams DEF Listening, Deaf
<1>2. Heeds(MainOf(c), m) <=> m.t \in {"transport", "dp", "media", "error"}
  BY Streams DEF Heeds
<1>3. Heeds(PumpOf(c), m) <=> \/ m.t \in {"closed", "transport", "consumed", "error"}
                              \/ m.t = "new" /\ m.label = "ack"
  BY Streams DEF Heeds
<1>4. \A d \in Cockpits \ {c} : ev'[MainOf(d)] = ev[MainOf(d)] /\ ev'[PumpOf(d)] = ev[PumpOf(d)]
  BY Streams DEF Deliver
<1>5. \A r \in {MainOf(c), PumpOf(c)} :
         ev'[r] = IF main[c].pc \notin Deaf /\ Heeds(r, m) THEN Append(ev[r], m) ELSE ev[r]
  BY <1>1 DEF Deliver
<1> QED BY <1>2, <1>3, <1>4, <1>5

\* What is written to the vehicle's session reaches no cockpit.
LEMMA DeliverAway ==
  ASSUME NEW m, ev' = Deliver(ev, Vehicle, m), NEW d \in Cockpits
  PROVE  ev'[MainOf(d)] = ev[MainOf(d)] /\ ev'[PumpOf(d)] = ev[PumpOf(d)]
BY Streams DEF Deliver

\* The room is told of producers only.
LEMMA BroadcastNews ==
  ASSUME NEW ms, IsSeq(ms), \A i \in DOMAIN ms : ms[i].t \in {"new", "closed"},
         chan' = Broadcast(chan, ms), NEW d \in Cockpits, NewsOnly(d)
  PROVE  NewsOnly(d)'
<1>1. chan'[d] = chan[d] \o ms \/ chan'[d] = chan[d]
  BY Apart DEF Broadcast
<1>2. PICK q : q = chan[d]
  OBVIOUS
<1>3. IsSeq(q) /\ \A i \in DOMAIN q : q[i].t \in {"new", "closed"}
  BY <1>2 DEF NewsOnly
<1>4. PICK u : u = q \o ms
  OBVIOUS
<1>7. /\ IsSeq(u)
      /\ \A i \in DOMAIN u : \/ i \in DOMAIN q /\ u[i] = q[i]
                             \/ \E k \in DOMAIN ms : u[i] = ms[k]
  BY <1>3, <1>4, CatFacts
<1>8. \A i \in DOMAIN u : u[i].t \in {"new", "closed"}
  BY <1>3, <1>7
<1>5. PICK r : r = chan'[d]
  OBVIOUS
<1>6. IsSeq(r) /\ \A i \in DOMAIN r : r[i].t \in {"new", "closed"}
  BY <1>1, <1>2, <1>3, <1>4, <1>5, <1>7, <1>8
<1> QED BY <1>5, <1>6 DEF NewsOnly

\* A stream of such transports after one more.
LEMMA FlownMore ==
  ASSUME NEW s, NEW x, IsSeq(s), Flown(s), x.t = "transport" => x.for \in {"open", "video", "pump"}
  PROVE  IsSeq(Append(s, x)) /\ Flown(Append(s, x))
<1>1. IsSeq(Append(s, x))
  BY AppendItems
<1>2. PICK r : r = Append(s, x)
  OBVIOUS
<1>3. \A i \in DOMAIN r : r[i] = x \/ \E j \in DOMAIN s : r[i] = s[j]
  BY <1>2, AppendAll
<1> QED BY <1>1, <1>2, <1>3 DEF Flown

\* The server serves a request of a cockpit.
LEMMA CrossServe == ASSUME WiresInv, CrossInv, NEW c \in Cockpits, Serve(c) PROVE CrossInv'
<1>1. PICK m : m = Head(inbox[c])
  OBVIOUS
<1>2. /\ inbox[c] # << >> /\ ans[c] = << >> /\ inbox' = [inbox EXCEPT ![c] = Tail(@)]
      /\ \/ create_data_producer(c, m) \/ create_data_consumer(c, m) \/ Plain(c, m) \/ Refused(c, m)
      /\ UNCHANGED <<main, pump, muddled>>
  BY <1>1 DEF Serve
<1>3. /\ inbox'[c] = Tail(inbox[c]) /\ \A d \in Cockpits \ {c} : inbox'[d] = inbox[d]
  BY <1>2, Apart DEF WiresInv
<1>4. SeatInv(c) /\ CockpitInv(c)
  BY DEF CrossInv, SeatInv
<1>5. /\ IsSeq(inbox'[c]) /\ Kinds(ans[c], inbox'[c]) /\ Flown(inbox'[c])
      /\ m.t \in {"transport", "produce", "consume", "media"}
      /\ m.t = "transport" => m.for \in {"open", "video", "pump"}
  <2>1. IsSeq(inbox[c]) /\ Kinds(ans[c], inbox[c]) /\ Flown(inbox[c])
    BY <1>4 DEF SeatInv, CockpitInv
  <2>2. IsSeq(inbox'[c]) /\ 1 \in DOMAIN inbox[c] /\ m = inbox[c][1]
    BY <1>1, <1>2, <1>3, <2>1, TailFacts
  <2>3. \A i \in DOMAIN inbox'[c] : \E j \in DOMAIN inbox[c] : inbox'[c][i] = inbox[c][j]
    BY <1>2, <1>3, <2>1, TailAll
  <2> QED BY <2>1, <2>2, <2>3 DEF Kinds, Flown
<1>6. CASE create_data_producer(c, m) \/ create_data_consumer(c, m)
  <2>1. PICK x : /\ ans' = [ans EXCEPT ![c] = <<x>>] /\ UNCHANGED ev
                 /\ x.t \in {"dp", "consumed"} /\ x.for = m.for /\ m.t \in {"produce", "consume"}
                 /\ x.t = "consumed" => m.t = "consume" /\ x.dp = m.dp
                 /\ x.t = "dp" => m.t = "produce"
    <3>1. CASE create_data_producer(c, m)
      <4>1. PICK x : x = [t |-> "dp", dp |-> made + 1, for |-> m.for]
        OBVIOUS
      <4>2. ans' = [ans EXCEPT ![c] = <<x>>] /\ UNCHANGED ev /\ m.t = "produce"
        BY <3>1, <4>1 DEF create_data_producer, Answered
      <4> QED BY <4>1, <4>2
    <3>2. CASE create_data_consumer(c, m)
      <4>1. PICK x : x = [t |-> "consumed", dp |-> m.dp, for |-> m.for]
        OBVIOUS
      <4>2. ans' = [ans EXCEPT ![c] = <<x>>] /\ UNCHANGED ev /\ m.t = "consume"
        BY <3>2, <4>1 DEF create_data_consumer, Answered
      <4>3. x.t = "consumed" /\ x.dp = m.dp /\ x.for = m.for
        BY <4>1
      <4> QED BY <4>2, <4>3
    <3> QED BY <1>6, <3>1, <3>2
  <2>2. ans'[c] = <<x>> /\ \A d \in Cockpits \ {c} : ans'[d] = ans[d]
    BY <2>1, Apart DEF WiresInv
  <2>3. \A d \in Cockpits : NewsOnly(d)'
    <3>1. \A d \in Cockpits : NewsOnly(d)
      BY DEF CrossInv, SeatInv
    <3>2. CASE create_data_producer(c, m)
      <4>1. PICK y : y = NewDP(made + 1, c)
        OBVIOUS
      <4>2. chan' = Broadcast(chan, <<y>>) /\ y.t = "new"
        BY <3>2, <4>1, Records DEF create_data_producer
      <4>3. IsSeq(<<y>>) /\ \A i \in DOMAIN <<y>> : <<y>>[i].t \in {"new", "closed"}
        BY <4>2, SmallItems
      <4> QED BY <3>1, <4>2, <4>3, BroadcastNews
    <3>3. CASE create_data_consumer(c, m)
      BY <3>1, <3>3 DEF create_data_consumer, NewsOnly
    <3> QED BY <1>6, <3>2, <3>3
  <2>4. OfPump(x) => OfPump(m)
    BY <2>1 DEF OfPump
  <2>5. Kinds(<<x>>, inbox'[c])
    BY <1>5, <2>1 DEF Kinds
  <2>6. c \notin muddled => /\ MainWaits(ev[MainOf(c)], inbox'[c], main[c].pc)
                            /\ PumpWaits(ev[PumpOf(c)], <<x>>, inbox'[c], pump[c])
    <3> SUFFICES ASSUME c \notin muddled
                 PROVE  /\ MainWaits(ev[MainOf(c)], Tail(inbox[c]), main[c].pc)
                        /\ PumpWaits(ev[PumpOf(c)], <<x>>, Tail(inbox[c]), pump[c])
      BY <1>3
    <3>1. /\ IsSeq(ev[MainOf(c)]) /\ IsSeq(ev[PumpOf(c)]) /\ IsSeq(inbox[c])
          /\ MainWaits(ev[MainOf(c)], inbox[c], main[c].pc)
          /\ PumpWaits(ev[PumpOf(c)], ans[c], inbox[c], pump[c])
      BY <1>4 DEF SeatInv, CockpitInv
    <3>2. /\ Head(inbox[c]).t \in {"produce", "consume"} /\ (OfPump(x) => OfPump(Head(inbox[c])))
          /\ x.t = "consumed" => Head(inbox[c]).t = "consume" /\ x.dp = Head(inbox[c]).dp
      BY <1>1, <2>1, <2>4
    <3>3. x.t \in {"dp", "consumed"} /\ inbox[c] # << >> /\ ans[c] = << >>
      BY <1>2, <2>1
    <3> QED BY <3>1, <3>2, <3>3, SaneAnswer
  <2>7. UNCHANGED <<ev, main, pump, muddled>>
    BY <1>2, <2>1
  <2>8. SeatInv(c)'
    BY <1>4, <1>5, <2>2, <2>3, <2>5, <2>6, <2>7 DEF SeatInv, CockpitInv, MainOf, PumpOf
  <2>9. \A d \in Cockpits \ {c} : Same(d)
    BY <1>3, <2>2, <2>7 DEF Same
  <2> QED BY <2>3, <2>7, <2>8, <2>9, SameSeat DEF CrossInv
<1>7. CASE Plain(c, m) \/ Refused(c, m)
  <2>1. PICK x : /\ ev' = Deliver(ev, c, x) /\ UNCHANGED <<ans, chan>>
                 /\ \/ x = m /\ x.t \in {"transport", "media"}
                    \/ x.t = "error" /\ x.for = m.for
    <3>1. c # Vehicle
      BY Apart
    <3>2. CASE Plain(c, m)
      BY <3>1, <3>2 DEF Plain, Written
    <3>3. CASE Refused(c, m)
      <4>1. PICK x : x = [t |-> "error", for |-> m.for, tracked |-> Tracked(m)]
        OBVIOUS
      <4>2. ev' = Deliver(ev, c, x) /\ UNCHANGED <<ans, chan>>
        BY <3>1, <3>3, <4>1 DEF Refused, Written
      <4> QED BY <4>1, <4>2
    <3> QED BY <1>7, <3>2, <3>3
  <2>2. /\ ev'[MainOf(c)] = IF main[c].pc \in Deaf THEN ev[MainOf(c)] ELSE Append(ev[MainOf(c)], x)
        /\ ev'[PumpOf(c)] = IF main[c].pc \in Deaf \/ x.t = "media" THEN ev[PumpOf(c)]
                            ELSE Append(ev[PumpOf(c)], x)
        /\ \A d \in Cockpits \ {c} : ev'[MainOf(d)] = ev[MainOf(d)] /\ ev'[PumpOf(d)] = ev[PumpOf(d)]
    BY <2>1, DeliverAt
  <2>3. c \notin muddled => /\ MainWaits(ev'[MainOf(c)], inbox'[c], main[c].pc)
                            /\ PumpWaits(ev'[PumpOf(c)], ans[c], inbox'[c], pump[c])
    <3> SUFFICES ASSUME c \notin muddled
                 PROVE  /\ MainWaits(ev'[MainOf(c)], Tail(inbox[c]), main[c].pc)
                        /\ PumpWaits(ev'[PumpOf(c)], ans[c], Tail(inbox[c]), pump[c])
      BY <1>3
    <3>1. /\ IsSeq(ev[MainOf(c)]) /\ IsSeq(ev[PumpOf(c)]) /\ IsSeq(inbox[c])
          /\ Kinds(ans[c], inbox[c]) /\ Pair(main[c], pump[c])
          /\ MainWaits(ev[MainOf(c)], inbox[c], main[c].pc)
          /\ PumpWaits(ev[PumpOf(c)], ans[c], inbox[c], pump[c])
      BY <1>4 DEF SeatInv, CockpitInv
    <3>2. inbox[c] # << >> /\ \/ x = Head(inbox[c]) /\ x.t \in {"transport", "media"}
                              \/ x.t = "error" /\ x.for = Head(inbox[c]).for
      BY <1>1, <1>2, <2>1
    <3>3. PICK e2 : e2 = ev'[MainOf(c)]
      OBVIOUS
    <3>4. PICK p2 : p2 = ev'[PumpOf(c)]
      OBVIOUS
    <3>5. /\ e2 = IF main[c].pc \in Deaf THEN ev[MainOf(c)] ELSE Append(ev[MainOf(c)], x)
          /\ p2 = IF main[c].pc \in Deaf \/ x.t = "media" THEN ev[PumpOf(c)]
                  ELSE Append(ev[PumpOf(c)], x)
      BY <2>2, <3>3, <3>4
    <3>6. MainWaits(e2, Tail(inbox[c]), main[c].pc) /\ PumpWaits(p2, ans[c], Tail(inbox[c]), pump[c])
      BY <3>1, <3>2, <3>5, SaneWrite
    <3> QED BY <3>3, <3>4, <3>6
  <2>4. /\ IsSeq(ev'[MainOf(c)]) /\ IsSeq(ev'[PumpOf(c)])
        /\ Flown(ev'[MainOf(c)]) /\ Flown(ev'[PumpOf(c)])
    BY <1>4, <1>5, <2>1, <2>2, FlownMore DEF SeatInv
  <2>5. UNCHANGED <<ans, chan, main, pump, muddled>>
    BY <1>2, <2>1
  <2>6. \A d \in Cockpits : NewsOnly(d)'
    BY <2>5 DEF CrossInv, SeatInv, NewsOnly
  <2>7. SeatInv(c)'
    BY <1>4, <1>5, <2>3, <2>4, <2>5, <2>6 DEF SeatInv, CockpitInv, MainOf, PumpOf
  <2>8. \A d \in Cockpits \ {c} : Same(d)
    BY <1>3, <2>2, <2>5 DEF Same
  <2> QED BY <2>5, <2>6, <2>7, <2>8, SameSeat DEF CrossInv
<1> QED BY <1>2, <1>6, <1>7

\* The server's other steps for a cockpit's session: the answer is written,
LEMMA CrossReply == ASSUME WiresInv, CrossInv, NEW c \in Cockpits, Reply(c) PROVE CrossInv'
<1>1. SeatInv(c) /\ CockpitInv(c) /\ c # Vehicle
  BY Apart DEF CrossInv, SeatInv
<1>2. PICK x : ans[c] = <<x>> /\ x.t \in {"dp", "consumed"}
  BY <1>1 DEF Reply, CockpitInv, Kinds
<1>3. ans[c][1] = x
  BY <1>2
<1>4. /\ ev' = Deliver(ev, c, x) /\ ans' = [ans EXCEPT ![c] = << >>]
      /\ UNCHANGED <<inbox, chan, main, pump, muddled>>
  BY <1>1, <1>3 DEF Reply
<1>5. ans'[c] = << >> /\ \A d \in Cockpits \ {c} : ans'[d] = ans[d]
  BY <1>4, Apart DEF WiresInv
<1>6. PICK e2 : e2 = ev'[MainOf(c)]
  OBVIOUS
<1>7. PICK p2 : p2 = ev'[PumpOf(c)]
  OBVIOUS
<1>8. /\ e2 = ev[MainOf(c)] \/ e2 = Append(ev[MainOf(c)], x)
      /\ p2 = ev[PumpOf(c)] \/ p2 = Append(ev[PumpOf(c)], x)
      /\ \A d \in Cockpits \ {c} : ev'[MainOf(d)] = ev[MainOf(d)] /\ ev'[PumpOf(d)] = ev[PumpOf(d)]
  BY <1>4, <1>6, <1>7, DeliverAt
<1>9. /\ IsSeq(ev[MainOf(c)]) /\ IsSeq(ev[PumpOf(c)]) /\ IsSeq(inbox[c]) /\ Pair(main[c], pump[c])
      /\ c \notin muddled => /\ MainWaits(ev[MainOf(c)], inbox[c], main[c].pc)
                             /\ PumpWaits(ev[PumpOf(c)], <<x>>, inbox[c], pump[c])
  BY <1>1, <1>2 DEF SeatInv, CockpitInv
<1>10. c \notin muddled => /\ MainWaits(e2, inbox[c], main[c].pc)
                           /\ PumpWaits(p2, << >>, inbox[c], pump[c])
  BY <1>2, <1>8, <1>9, SaneReply
<1>11. IsSeq(e2) /\ IsSeq(p2) /\ Flown(e2) /\ Flown(p2)
  BY <1>1, <1>2, <1>8, FlownMore DEF SeatInv
<1>12. Kinds(<< >>, inbox[c])
  BY <1>1 DEF CockpitInv, Kinds
<1>13. \A d \in Cockpits : NewsOnly(d)'
  BY <1>4 DEF CrossInv, SeatInv, NewsOnly
<1>14. SeatInv(c)'
  BY <1>1, <1>4, <1>5, <1>6, <1>7, <1>10, <1>11, <1>12, <1>13 DEF SeatInv, CockpitInv, MainOf, PumpOf
<1>15. \A d \in Cockpits \ {c} : Same(d)
  BY <1>4, <1>5, <1>8 DEF Same
<1> QED BY <1>4, <1>13, <1>14, <1>15, SameSeat DEF CrossInv

\* or announcements, relayed or replayed, reach its pump.
LEMMA CrossHears ==
  ASSUME CrossInv, NEW c \in Cockpits, NEW t, IsSeq(t),
         \A i \in DOMAIN t : t[i].t \in {"new", "closed"},
         UNCHANGED <<inbox, ans, main, pump, muddled>>,
         \A d \in Cockpits : ev'[MainOf(d)] = ev[MainOf(d)],
         \A d \in Cockpits \ {c} : ev'[PumpOf(d)] = ev[PumpOf(d)],
         ev'[PumpOf(c)] = ev[PumpOf(c)] \/ ev'[PumpOf(c)] = ev[PumpOf(c)] \o t,
         \A d \in Cockpits : NewsOnly(d)'
  PROVE  CrossInv'
<1>1. SeatInv(c) /\ CockpitInv(c)
  BY DEF CrossInv, SeatInv
<1>2. PICK p2 : p2 = ev'[PumpOf(c)]
  OBVIOUS
<1>3. PICK p : p = ev[PumpOf(c)]
  OBVIOUS
<1>4. IsSeq(p) /\ (c \notin muddled => PumpWaits(p, ans[c], inbox[c], pump[c]))
  BY <1>1, <1>3 DEF SeatInv, CockpitInv
<1>5. p2 = p \/ p2 = p \o t
  BY <1>2, <1>3
<1>6. /\ IsSeq(p2) /\ Flown(p2)
      /\ c \notin muddled => PumpWaits(p2, ans[c], inbox[c], pump[c])
  <2>1. PICK q : q = p \o t
    OBVIOUS
  <2>2. /\ IsSeq(q)
        /\ \A i \in DOMAIN q : \/ i \in DOMAIN p /\ q[i] = p[i]
                               \/ \E k \in DOMAIN t : q[i] = t[k]
    BY <1>4, <2>1, CatFacts
  <2>3. Flown(p)
    BY <1>1, <1>3 DEF SeatInv
  <2>4. Flown(q)
    BY <2>2, <2>3 DEF Flown
  <2>5. IsSeq(p2) /\ Flown(p2)
    BY <1>4, <1>5, <2>1, <2>2, <2>3, <2>4
  <2>6. c \notin muddled => PumpWaits(p \o t, ans[c], inbox[c], pump[c])
    BY <1>4, SaneHears
  <2> QED BY <1>4, <1>5, <2>5, <2>6
<1>7. SeatInv(c)'
  BY <1>1, <1>2, <1>6 DEF SeatInv, CockpitInv, MainOf, PumpOf
<1>8. \A d \in Cockpits \ {c} : Same(d)
  BY DEF Same
<1> QED BY <1>7, <1>8, SameSeat DEF CrossInv

\* The broadcasts are relayed one at a time,
LEMMA CrossRelay == ASSUME WiresInv, CrossInv, NEW c \in Cockpits, Relay(c) PROVE CrossInv'
<1>1. PICK m : m = Head(chan[c])
  OBVIOUS
<1>2. /\ chan[c] # << >> /\ ev' = Deliver(ev, c, m) /\ chan' = [chan EXCEPT ![c] = Tail(@)]
      /\ UNCHANGED <<inbox, ans, main, pump, muddled>>
  BY <1>1 DEF Relay
<1>3. \A d \in Cockpits : NewsOnly(d)
  BY DEF CrossInv, SeatInv
<1>4. PICK h : h = chan[c]
  OBVIOUS
<1>5. h # << >> /\ IsSeq(h) /\ \A i \in DOMAIN h : h[i].t \in {"new", "closed"}
  BY <1>2, <1>3, <1>4 DEF NewsOnly
<1>6. IsSeq(Tail(h)) /\ 1 \in DOMAIN h /\ m = h[1] /\ \A i \in DOMAIN Tail(h) : Tail(h)[i].t \in {"new", "closed"}
  BY <1>1, <1>4, <1>5, TailFacts, TailAll
<1>7. chan'[c] = Tail(h) /\ \A d \in Cockpits \ {c} : chan'[d] = chan[d]
  BY <1>2, <1>4, Apart DEF WiresInv
<1>8. \A d \in Cockpits : NewsOnly(d)'
  BY <1>3, <1>6, <1>7 DEF NewsOnly
<1>9. m.t \in {"new", "closed"}
  BY <1>5, <1>6
<1>10. IsSeq(<<m>>) /\ \A i \in DOMAIN <<m>> : <<m>>[i].t \in {"new", "closed"}
  BY <1>9, SmallItems
<1>11. IsSeq(ev[PumpOf(c)])
  BY DEF CrossInv, SeatInv
<1>12. Append(ev[PumpOf(c)], m) = ev[PumpOf(c)] \o <<m>>
  BY <1>11, AppendFacts
<1>13. /\ ev'[MainOf(c)] = ev[MainOf(c)]
       /\ ev'[PumpOf(c)] = ev[PumpOf(c)] \/ ev'[PumpOf(c)] = ev[PumpOf(c)] \o <<m>>
       /\ \A d \in Cockpits \ {c} : ev'[MainOf(d)] = ev[MainOf(d)] /\ ev'[PumpOf(d)] = ev[PumpOf(d)]
  BY <1>2, <1>9, <1>12, DeliverAt
<1> QED BY <1>2, <1>8, <1>10, <1>13, CrossHears

\* Lists of messages about the producers of a finite set.
LEMMA ListOf ==
  ASSUME NEW S, IsFiniteSet(S), NEW ds \in Orders(S), NEW g,
         \A i \in DOMAIN g : g[i].t \in {"new", "closed"}, g = [i \in DOMAIN ds |-> g[i]]
  PROVE  IsSeq(g)
<1>1. Cardinality(S) \in Nat /\ DOMAIN ds = 1 .. Cardinality(S)
  BY OrderItems
<1>2. g \in [1 .. Cardinality(S) -> {g[i] : i \in 1 .. Cardinality(S)}]
  BY <1>1
<1>3. g \in Seq({g[i] : i \in 1 .. Cardinality(S)})
  BY <1>1, <1>2
<1> QED BY <1>3 DEF IsSeq

\* and the open producers replayed to a session that joined.
LEMMA CrossReplay == ASSUME ServedInv, CrossInv, NEW c \in Cockpits, Replay(c) PROVE CrossInv'
<1>1. PICK S : S = OpenOf(Vehicle)
  OBVIOUS
<1>2. c # Vehicle
  BY Apart
<1>3. PICK ds \in Orders(S) :
        ev' = [r \in Subscribers |->
                 IF r \in SubsOf(c) /\ (r = Vehicle \/ r[2] = "pump") /\ Listening(r)
                 THEN ev[r] \o [i \in DOMAIN ds |-> NewDP(ds[i], dps[ds[i]])] ELSE ev[r]]
  BY <1>1, <1>2 DEF Replay
<1>4. PICK g : g = [i \in DOMAIN ds |-> NewDP(ds[i], dps[ds[i]])]
  OBVIOUS
<1>5. S \subseteq 1 .. made
  BY <1>1 DEF ServedInv, IdsInv, OpenOf
<1>6. IsFiniteSet(S)
  BY <1>5, FiniteIds DEF ServedInv
<1>7. g = [i \in DOMAIN ds |-> g[i]] /\ \A i \in DOMAIN g : g[i].t \in {"new", "closed"}
  BY <1>4, Records
<1>8. IsSeq(g)
  BY <1>6, <1>7, ListOf
<1>9. ev' = [r \in Subscribers |->
               IF r \in SubsOf(c) /\ (r = Vehicle \/ r[2] = "pump") /\ Listening(r)
               THEN ev[r] \o g ELSE ev[r]]
  BY <1>3, <1>4
<1>10. /\ \A d \in Cockpits : ev'[MainOf(d)] = ev[MainOf(d)]
       /\ \A d \in Cockpits \ {c} : ev'[PumpOf(d)] = ev[PumpOf(d)]
       /\ ev'[PumpOf(c)] = ev[PumpOf(c)] \/ ev'[PumpOf(c)] = ev[PumpOf(c)] \o g
  <2>1. \A d \in Cockpits : /\ MainOf(d) \in Subscribers /\ MainOf(d) # Vehicle /\ MainOf(d)[2] # "pump"
                            /\ PumpOf(d) \in Subscribers
                            /\ d # c => PumpOf(d) \notin SubsOf(c)
    BY Streams
  <2> QED BY <1>9, <2>1
<1>11. UNCHANGED <<inbox, ans, chan, main, pump, muddled>>
  BY DEF Replay
<1>12. \A d \in Cockpits : NewsOnly(d)'
  BY <1>11 DEF CrossInv, SeatInv, NewsOnly
<1> QED BY <1>7, <1>8, <1>10, <1>11, <1>12, CrossHears

\* Steps that touch no cockpit.
LEMMA CrossAside ==
  ASSUME CrossInv, UNCHANGED <<main, pump, muddled>>,
         \A d \in Cockpits : /\ ev'[MainOf(d)] = ev[MainOf(d)] /\ ev'[PumpOf(d)] = ev[PumpOf(d)]
                             /\ ans'[d] = ans[d] /\ inbox'[d] = inbox[d],
         \A d \in Cockpits : NewsOnly(d)'
  PROVE  CrossInv'
<1>1. \A d \in Cockpits : Same(d)
  BY DEF Same
<1> QED BY <1>1, SameSeat DEF CrossInv

\* A session's producers are reclaimed.
LEMMA CrossReclaim == ASSUME ServedInv, CrossInv, NEW k \in Ends, Reclaim(k) PROVE CrossInv'
<1>1. PICK S : S = OpenOf(k)
  OBVIOUS
<1>2. PICK ds \in Orders(S) : chan' = Broadcast(chan, [i \in DOMAIN ds |-> Closed(ds[i])])
  BY <1>1 DEF Reclaim
<1>3. PICK g : g = [i \in DOMAIN ds |-> Closed(ds[i])]
  OBVIOUS
<1>4. S \subseteq 1 .. made
  BY <1>1 DEF ServedInv, IdsInv, OpenOf
<1>5. IsFiniteSet(S)
  BY <1>4, FiniteIds DEF ServedInv
<1>6. g = [i \in DOMAIN ds |-> g[i]] /\ \A i \in DOMAIN g : g[i].t \in {"new", "closed"}
  BY <1>3, Records
<1>7. IsSeq(g)
  BY <1>5, <1>6, ListOf
<1>8. chan' = Broadcast(chan, g)
  BY <1>2, <1>3
<1>9. \A d \in Cockpits : NewsOnly(d)'
  BY <1>6, <1>7, <1>8, BroadcastNews DEF CrossInv, SeatInv
<1>10. UNCHANGED <<ev, ans, inbox, main, pump, muddled>>
  BY DEF Reclaim
<1> QED BY <1>9, <1>10, CrossAside

\* The server's steps for the vehicle's session.
LEMMA CrossServer ==
  ASSUME ServedInv, CrossInv,
         Serve(Vehicle) \/ Reply(Vehicle) \/ Relay(Vehicle) \/ Replay(Vehicle)
  PROVE  CrossInv'
<1>0. WiresInv /\ \A d \in Cockpits : d # Vehicle
  BY Apart DEF ServedInv
<1>1. UNCHANGED <<main, pump, muddled>>
  BY DEF Serve, Reply, Relay, Replay
<1>2. \A d \in Cockpits : inbox'[d] = inbox[d]
  <2>1. inbox' = inbox \/ inbox' = [inbox EXCEPT ![Vehicle] = Tail(@)]
    BY DEF Serve, Reply, Relay, Replay
  <2> QED BY <1>0, <2>1, Apart DEF WiresInv
<1>3. CASE Serve(Vehicle)
  <2>1. PICK m : \/ create_data_producer(Vehicle, m) \/ create_data_consumer(Vehicle, m)
                 \/ Plain(Vehicle, m) \/ Refused(Vehicle, m)
    BY <1>3 DEF Serve
  <2>2. \A d \in Cockpits : NewsOnly(d)
    BY DEF CrossInv, SeatInv
  <2>3. CASE create_data_producer(Vehicle, m)
    <3>1. PICK y : y = NewDP(made + 1, Vehicle)
      OBVIOUS
    <3>2. chan' = Broadcast(chan, <<y>>) /\ y.t = "new"
      BY <2>3, <3>1, Records DEF create_data_producer
    <3>3. IsSeq(<<y>>) /\ \A i \in DOMAIN <<y>> : <<y>>[i].t \in {"new", "closed"}
      BY <3>2, SmallItems
    <3>4. \A d \in Cockpits : NewsOnly(d)'
      BY <2>2, <3>2, <3>3, BroadcastNews
    <3>5. ev' = ev /\ \A d \in Cockpits : ans'[d] = ans[d]
      BY <1>0, <2>3 DEF create_data_producer, Answered, WiresInv
    <3> QED BY <1>1, <1>2, <3>4, <3>5, CrossAside
  <2>4. CASE create_data_consumer(Vehicle, m)
    <3>1. ev' = ev /\ chan' = chan /\ \A d \in Cockpits : ans'[d] = ans[d]
      BY <1>0, <2>4 DEF create_data_consumer, Answered, WiresInv
    <3> QED BY <1>1, <1>2, <2>2, <3>1, CrossAside DEF NewsOnly
  <2>5. CASE Plain(Vehicle, m) \/ Refused(Vehicle, m)
    <3>1. PICK x : Written(Vehicle, x) /\ chan' = chan
      BY <2>5 DEF Plain, Refused
    <3>2. ans' = ans /\ (ev' = ev \/ ev' = Deliver(ev, Vehicle, x))
      BY <3>1 DEF Written
    <3>3. \A d \in Cockpits : ev'[MainOf(d)] = ev[MainOf(d)] /\ ev'[PumpOf(d)] = ev[PumpOf(d)]
      BY <3>2, DeliverAway
    <3> QED BY <1>1, <1>2, <2>2, <3>1, <3>2, <3>3, CrossAside DEF NewsOnly
  <2> QED BY <2>1, <2>3, <2>4, <2>5
<1>4. CASE Reply(Vehicle)
  <2>1. chan' = chan /\ \A d \in Cockpits : ans'[d] = ans[d]
    BY <1>0, <1>4 DEF Reply, WiresInv
  <2>2. ev' = ev \/ \E x : ev' = Deliver(ev, Vehicle, x)
    BY <1>4 DEF Reply
  <2>3. \A d \in Cockpits : ev'[MainOf(d)] = ev[MainOf(d)] /\ ev'[PumpOf(d)] = ev[PumpOf(d)]
    BY <2>2, DeliverAway
  <2>4. \A d \in Cockpits : NewsOnly(d)'
    BY <2>1 DEF CrossInv, SeatInv, NewsOnly
  <2> QED BY <1>1, <1>2, <2>1, <2>3, <2>4, CrossAside
<1>5. CASE Relay(Vehicle)
  <2>1. ans' = ans /\ \A d \in Cockpits : chan'[d] = chan[d]
    BY <1>0, <1>5 DEF Relay, WiresInv
  <2>2. \E x : ev' = Deliver(ev, Vehicle, x)
    BY <1>5 DEF Relay
  <2>3. \A d \in Cockpits : ev'[MainOf(d)] = ev[MainOf(d)] /\ ev'[PumpOf(d)] = ev[PumpOf(d)]
    BY <2>2, DeliverAway
  <2>4. \A d \in Cockpits : NewsOnly(d)'
    BY <2>1 DEF CrossInv, SeatInv, NewsOnly
  <2> QED BY <1>1, <1>2, <2>1, <2>3, <2>4, CrossAside
<1>6. CASE Replay(Vehicle)
  <2>1. ans' = ans /\ chan' = chan
    BY <1>6 DEF Replay
  <2>2. \A r \in Subscribers : r \notin SubsOf(Vehicle) => ev'[r] = ev[r]
    BY <1>6 DEF Replay
  <2>3. \A d \in Cockpits : ev'[MainOf(d)] = ev[MainOf(d)] /\ ev'[PumpOf(d)] = ev[PumpOf(d)]
    BY <2>2, Streams
  <2>4. \A d \in Cockpits : NewsOnly(d)'
    BY <2>1 DEF CrossInv, SeatInv, NewsOnly
  <2> QED BY <1>1, <1>2, <2>1, <2>3, <2>4, CrossAside
<1> QED BY <1>3, <1>4, <1>5, <1>6

\* The controller's steps and the upstream's.
LEMMA CrossController ==
  ASSUME WiresInv, CrossInv, Controller \/ UpDrop \/ UpJoin PROVE CrossInv'
<1>0. \A d \in Cockpits : d # Vehicle
  BY Apart
<1>1. UNCHANGED <<main, pump, muddled>>
  BY DEF Controller, CtlStart, SetupSend, SetupAck, SetupRecv, SetupOther, OnNewDataProducer,
         OnDataConsumed, OnProducerClosed, OnOther, CtlExit, handle_command, CtlOnly, Plane, UpDrop,
         UpJoin
<1>2. \A d \in Cockpits : ans'[d] = ans[d] /\ chan'[d] = chan[d]
  <2>1. CASE UpDrop
    BY <1>0, <2>1 DEF UpDrop, WiresInv
  <2> QED BY <2>1 DEF Controller, CtlStart, SetupSend, SetupAck, SetupRecv, SetupOther,
             OnNewDataProducer, OnDataConsumed, OnProducerClosed, OnOther, CtlExit, handle_command,
             CtlOnly, Plane, wires, UpJoin
<1>3. \A d \in Cockpits : NewsOnly(d)'
  BY <1>2 DEF CrossInv, SeatInv, NewsOnly
<1>4. ASSUME inbox' = inbox \/ (\E ms : Asks(Vehicle, ms)) \/ (\E ms : Sends(ms))
      PROVE  \A d \in Cockpits : inbox'[d] = inbox[d]
  <2>1. ASSUME NEW ms, Asks(Vehicle, ms) PROVE \A d \in Cockpits : inbox'[d] = inbox[d]
    BY <1>0, <2>1, Apart DEF Asks, WiresInv
  <2>2. ASSUME NEW ms, Sends(ms) PROVE \A d \in Cockpits : inbox'[d] = inbox[d]
    BY <2>1, <2>2 DEF Sends
  <2> QED BY <1>4, <2>1, <2>2
<1>5. ASSUME ev' = ev \/ Take(Vehicle) \/ ev' = [ev EXCEPT ![Vehicle] = << >>]
      PROVE  \A d \in Cockpits : ev'[MainOf(d)] = ev[MainOf(d)] /\ ev'[PumpOf(d)] = ev[PumpOf(d)]
  BY <1>5, Streams DEF Take, WiresInv
<1>6. \A d \in Cockpits : inbox'[d] = inbox[d]
  <2>1. CASE UpDrop
    BY <1>0, <2>1 DEF UpDrop, WiresInv
  <2>2. CASE CtlStart \/ SetupSend \/ SetupAck \/ OnNewDataProducer
    BY <1>4, <2>2 DEF CtlStart, SetupSend, SetupAck, OnNewDataProducer
  <2>3. CASE SetupRecv
    BY <1>4, <2>3 DEF SetupRecv
  <2> QED BY <2>1, <2>2, <2>3 DEF Controller, SetupOther, OnDataConsumed, OnProducerClosed, OnOther,
             CtlExit, handle_command, CtlOnly, Plane, wires, UpJoin
<1>7. \A d \in Cockpits : ev'[MainOf(d)] = ev[MainOf(d)] /\ ev'[PumpOf(d)] = ev[PumpOf(d)]
  <2>1. CASE UpJoin
    BY <2>1, DeliverAway DEF UpJoin
  <2>2. ~UpJoin => ev' = ev \/ Take(Vehicle) \/ ev' = [ev EXCEPT ![Vehicle] = << >>]
    BY DEF Controller, CtlStart, SetupSend, SetupAck, SetupRecv, SetupOther, OnNewDataProducer,
           OnDataConsumed, OnProducerClosed, OnOther, CtlExit, handle_command, Plane, wires, UpDrop
  <2> QED BY <1>5, <2>1, <2>2
<1> QED BY <1>1, <1>2, <1>3, <1>6, <1>7, CrossAside

\* The whole of what is kept about a cockpit's streams e and p, answer a, inbox b and flows.
Shaped(e, p, a, b, mn, pm) ==
  /\ IsSeq(e) /\ IsSeq(p) /\ IsSeq(b) /\ Flown(e) /\ Flown(p) /\ Flown(b)
  /\ DOMAIN mn = MainFields /\ DOMAIN pm = PumpFields /\ Kinds(a, b) /\ Pair(mn, pm)
Settled(e, p, a, b, mn, pm) ==
  Paired(mn, pm) /\ MainWaits(e, b, mn.pc) /\ PumpWaits(p, a, b, pm)

\* A step of cockpit c's own flows leaves the others alone.
OwnFrame(c) ==
  /\ UNCHANGED <<ans, chan>> /\ DOMAIN main' = DOMAIN main /\ DOMAIN pump' = DOMAIN pump
  /\ muddled \subseteq muddled'
  /\ \A d \in Cockpits \ {c} :
       /\ ev'[MainOf(d)] = ev[MainOf(d)] /\ ev'[PumpOf(d)] = ev[PumpOf(d)]
       /\ inbox'[d] = inbox[d] /\ main'[d] = main[d] /\ pump'[d] = pump[d]

\* What is known of a cockpit before its step,
LEMMA Before ==
  ASSUME CrossInv, NEW c \in Cockpits
  PROVE  /\ Shaped(ev[MainOf(c)], ev[PumpOf(c)], ans[c], inbox[c], main[c], pump[c])
         /\ c \notin muddled => Settled(ev[MainOf(c)], ev[PumpOf(c)], ans[c], inbox[c], main[c], pump[c])
BY DEF CrossInv, SeatInv, CockpitInv, Shaped, Settled

\* and what is to be shown after it.
LEMMA OwnStep ==
  ASSUME CrossInv, NEW c \in Cockpits, OwnFrame(c),
         NEW e, NEW p, NEW b, NEW mn, NEW pm,
         e = ev'[MainOf(c)], p = ev'[PumpOf(c)], b = inbox'[c], mn = main'[c], pm = pump'[c],
         Shaped(e, p, ans[c], b, mn, pm),
         c \notin muddled' => Settled(e, p, ans[c], b, mn, pm)
  PROVE  CrossInv'
<1>1. \A d \in Cockpits : NewsOnly(d)'
  BY DEF CrossInv, SeatInv, OwnFrame, NewsOnly
<1>2. SeatInv(c)'
  BY <1>1 DEF SeatInv, CockpitInv, Shaped, Settled, OwnFrame, MainOf, PumpOf
<1>3. \A d \in Cockpits \ {c} : Same(d)
  BY DEF OwnFrame, Same
<1> QED BY <1>1, <1>2, <1>3, SameSeat DEF CrossInv, OwnFrame

\* The main flow takes the head of its stream: what ends its wait is its own, and past
\* anything else it goes on waiting.
LEMMA MainTakes ==
  ASSUME NEW e, NEW b, NEW w, IsSeq(e), e # << >>, Flown(e)
  PROVE  /\ IsSeq(Tail(e)) /\ Flown(Tail(e))
         /\ MainWaits(e, b, w) =>
              /\ w = "send" /\ Head(e).t = "transport" =>
                   Head(e).for = "open" /\ \A i \in DOMAIN b : b[i].t # "transport"
              /\ w = "recv" /\ Head(e).t = "transport" => Head(e).for = "video"
              /\ (w = "recv" => Head(e).t \notin {"transport", "error"}) => MainWaits(Tail(e), b, w)
<1>1. IsSeq(Tail(e)) /\ 1 \in DOMAIN e /\ Head(e) = e[1]
  BY TailFacts
<1>2. Flown(Tail(e))
  <2>1. \A i \in DOMAIN Tail(e) : \E j \in DOMAIN e : Tail(e)[i] = e[j]
    BY TailAll
  <2> QED BY <2>1 DEF Flown
<1>3. ASSUME MainWaits(e, b, w), w = "send", Head(e).t = "transport"
      PROVE  Head(e).for = "open" /\ \A i \in DOMAIN b : b[i].t # "transport"
  BY <1>1, <1>3 DEF MainWaits, Lone
<1>4. ASSUME MainWaits(e, b, w), w = "recv", Head(e).t = "transport" PROVE Head(e).for = "video"
  BY <1>4, LedTake DEF MainWaits, Foreign
<1>5. ASSUME MainWaits(e, b, w), w = "recv" => Head(e).t \notin {"transport", "error"}
      PROVE  MainWaits(Tail(e), b, w)
  <2>1. w = "send" => Lone(Tail(e), b)
    BY <1>5, LoneHears DEF MainWaits
  <2>2. w = "recv" => ~Leads(Head(e), "video") /\ Led(e, b, "video")
    BY <1>5 DEF Leads, MainWaits
  <2>3. w = "recv" => Led(Tail(e), b, "video")
    BY <2>2, LedTake
  <2> QED BY <1>5, <2>1, <2>3 DEF MainWaits
<1> QED BY <1>1, <1>2, <1>3, <1>4, <1>5

\* The same for the pump; the end of a round leaves nothing of it.
LEMMA PumpTakes ==
  ASSUME NEW p, NEW a, NEW b, NEW pm, IsSeq(p), p # << >>, Flown(p)
  PROVE  /\ IsSeq(Tail(p)) /\ Flown(Tail(p))
         /\ PumpWaits(p, a, b, pm) =>
              /\ pm.pc = "tr" /\ Head(p).t = "transport" => Head(p).for = "pump"
              /\ pm.pc = "data" /\ Head(p).t = "consumed" => Head(p).dp = pm.cur
              /\ pm.pc \in {"tr", "data"} /\ OfPump(Head(p)) => Free(Tail(p)) /\ Free(a) /\ Free(b)
              /\ pm.pc \in {"wait", "tr", "data"} =>
                   /\ \A i \in DOMAIN b : ~Open1(b[i])
                   /\ \A i \in DOMAIN Tail(p) : ~Open1(Tail(p)[i])
              /\ (pm.pc = "tr" => Head(p).t \notin {"transport", "error"})
                   => PumpWaits(Tail(p), a, b, pm)
<1>1. IsSeq(Tail(p)) /\ 1 \in DOMAIN p /\ Head(p) = p[1]
  BY TailFacts
<1>2. \A i \in DOMAIN Tail(p) : \E j \in DOMAIN p : Tail(p)[i] = p[j]
  BY TailAll
<1>3. Flown(Tail(p))
  BY <1>2 DEF Flown
<1>4. ASSUME PumpWaits(p, a, b, pm), pm.pc = "tr", Head(p).t = "transport" PROVE Head(p).for = "pump"
  BY <1>4, LedTake DEF PumpWaits, Foreign
<1>5. ASSUME PumpWaits(p, a, b, pm), pm.pc = "data", Head(p).t = "consumed" PROVE Head(p).dp = pm.cur
  BY <1>1, <1>5 DEF PumpWaits
<1>6. ASSUME PumpWaits(p, a, b, pm), pm.pc \in {"tr", "data"}, OfPump(Head(p))
      PROVE  Free(Tail(p)) /\ Free(a) /\ Free(b)
  BY <1>6, RoundTakes DEF PumpWaits
<1>7. ASSUME PumpWaits(p, a, b, pm), pm.pc \in {"wait", "tr", "data"}
      PROVE  /\ \A i \in DOMAIN b : ~Open1(b[i])
             /\ \A i \in DOMAIN Tail(p) : ~Open1(Tail(p)[i])
  BY <1>2, <1>7 DEF PumpWaits
<1>8. ASSUME PumpWaits(p, a, b, pm), pm.pc = "tr" => Head(p).t \notin {"transport", "error"}
      PROVE  PumpWaits(Tail(p), a, b, pm)
  <2>1. Free(p) => Free(Tail(p))
    BY <1>2 DEF Free
  <2>2. pm.pc \in {"tr", "data"} => OneRound(Tail(p), a, b)
    BY <1>8, RoundTakes DEF PumpWaits
  <2>3. pm.pc = "tr" => ~Leads(Head(p), "pump") /\ Led(p, b, "pump")
    BY <1>8 DEF Leads, PumpWaits
  <2>4. pm.pc = "tr" => Led(Tail(p), b, "pump")
    BY <2>3, LedTake
  <2>5. pm.pc = "data" => \A s \in {Tail(p), a, b} : \A i \in DOMAIN s :
                             s[i].t \in {"consume", "consumed"} => s[i].dp = pm.cur
    BY <1>2, <1>8 DEF PumpWaits
  <2> QED BY <1>7, <1>8, <2>1, <2>2, <2>4, <2>5 DEF PumpWaits
<1> QED BY <1>1, <1>3, <1>4, <1>5, <1>6, <1>7, <1>8

\* A request of one flow leaves the other's wait alone.
LEMMA AsksMore ==
  ASSUME NEW e, NEW p, NEW a, NEW b, NEW x, NEW w, NEW pm, IsSeq(b), Flown(b), Kinds(a, b),
         x.t \in {"transport", "produce", "consume", "media"},
         x.t = "transport" => x.for \in {"open", "video", "pump"}
  PROVE  /\ IsSeq(Append(b, x)) /\ Flown(Append(b, x)) /\ Kinds(a, Append(b, x))
         /\ /\ MainWaits(e, b, w)
            /\ x.t = "transport" => w \notin {"send", "dp"}
            => MainWaits(e, Append(b, x), w)
         /\ /\ PumpWaits(p, a, b, pm) /\ ~OfPump(x)
            /\ Open1(x) => pm.pc \notin {"drain", "wait", "tr", "data"}
            => PumpWaits(p, a, Append(b, x), pm)
<1>1. IsSeq(Append(b, x)) /\ Flown(Append(b, x))
  BY FlownMore
<1>2. PICK b2 : b2 = Append(b, x)
  OBVIOUS
<1>3. \A i \in DOMAIN b2 : b2[i] = x \/ \E j \in DOMAIN b : b2[i] = b[j]
  BY <1>2, AppendAll
<1>4. Kinds(a, b2)
  BY <1>3 DEF Kinds
<1>5. ASSUME MainWaits(e, b, w), x.t = "transport" => w \notin {"send", "dp"}
      PROVE  MainWaits(e, b2, w)
  <2>1. w = "recv" => Led(e, b2, "video")
    BY <1>2, <1>5, LedAsks DEF MainWaits
  <2>2. w = "dp" => \A i \in DOMAIN b2 : b2[i].t # "transport"
    BY <1>3, <1>5 DEF MainWaits
  <2>3. ASSUME w = "send" PROVE Lone(e, b2)
    <3>1. Lone(e, b) /\ x.t # "transport"
      BY <1>5, <2>3 DEF MainWaits
    <3>2. \A i \in DOMAIN b2 : b2[i].t = "transport" => i \in DOMAIN b /\ b2[i] = b[i]
      BY <1>2, <3>1, AppendFacts
    <3> QED BY <3>1, <3>2 DEF Lone
  <2> QED BY <2>1, <2>2, <2>3 DEF MainWaits
<1>6. ASSUME PumpWaits(p, a, b, pm), ~OfPump(x),
             Open1(x) => pm.pc \notin {"drain", "wait", "tr", "data"}
      PROVE  PumpWaits(p, a, b2, pm)
  <2>1. Free(b) => Free(b2)
    BY <1>3, <1>6 DEF Free
  <2>2. OneRound(p, a, b) => OneRound(p, a, b2)
    BY <1>2, <1>6, RoundAsks
  <2>3. Led(p, b, "pump") => Led(p, b2, "pump")
    BY <1>2, LedAsks
  <2>4. x.t \notin {"consume", "consumed"}
    BY <1>6 DEF OfPump
  <2>5. pm.pc = "data" => \A s \in {p, a, b2} : \A i \in DOMAIN s :
                             s[i].t \in {"consume", "consumed"} => s[i].dp = pm.cur
    BY <1>3, <1>6, <2>4 DEF PumpWaits
  <2>6. pm.pc \in {"drain", "wait", "tr", "data"} => \A i \in DOMAIN b2 : ~Open1(b2[i])
    BY <1>3, <1>6 DEF PumpWaits
  <2> QED BY <1>6, <2>1, <2>2, <2>3, <2>5, <2>6 DEF PumpWaits
<1> QED BY <1>1, <1>2, <1>4, <1>5, <1>6

\* A cockpit's streams and inbox when one of its flows takes an event or asks for something.
LEMMA TakeMain ==
  ASSUME WiresInv, NEW c \in Cockpits, NEW s, ev' = [ev EXCEPT ![MainOf(c)] = s]
  PROVE  /\ ev'[MainOf(c)] = s /\ ev'[PumpOf(c)] = ev[PumpOf(c)]
         /\ \A d \in Cockpits \ {c} : ev'[MainOf(d)] = ev[MainOf(d)] /\ ev'[PumpOf(d)] = ev[PumpOf(d)]
<1>1. DOMAIN ev = Subscribers
  BY DEF WiresInv
<1> QED BY <1>1, Streams

\* The same for the pump's stream,
LEMMA TakePump ==
  ASSUME WiresInv, NEW c \in Cockpits, NEW s, ev' = [ev EXCEPT ![PumpOf(c)] = s]
  PROVE  /\ ev'[PumpOf(c)] = s /\ ev'[MainOf(c)] = ev[MainOf(c)]
         /\ \A d \in Cockpits \ {c} : ev'[MainOf(d)] = ev[MainOf(d)] /\ ev'[PumpOf(d)] = ev[PumpOf(d)]
<1>1. DOMAIN ev = Subscribers
  BY DEF WiresInv
<1> QED BY <1>1, Streams

\* and for one request.
LEMMA AskMine ==
  ASSUME WiresInv, CrossInv, NEW c \in Cockpits, NEW x, Asks(c, <<x>>)
  PROVE  inbox'[c] = Append(inbox[c], x) /\ \A d \in Cockpits \ {c} : inbox'[d] = inbox[d]
<1>1. IsSeq(inbox[c])
  BY DEF CrossInv, SeatInv
<1>2. inbox[c] \o <<x>> = Append(inbox[c], x)
  BY <1>1, AppendFacts
<1>3. DOMAIN inbox = Ends /\ Cockpits \subseteq Ends
  BY DEF WiresInv, Ends
<1> QED BY <1>2, <1>3 DEF Asks

\* A step of the main flow alone: no request, no event.
LEMMA CrossMainOnly ==
  ASSUME WiresInv, CrossInv, NEW c \in Cockpits, Join(c) \/ Subscribe(c) \/ MainTimeout(c)
  PROVE  CrossInv'
<1>1. PICK e : e = ev[MainOf(c)]
  OBVIOUS
<1>2. PICK p : p = ev[PumpOf(c)]
  OBVIOUS
<1>3. PICK mn : mn = main[c]
  OBVIOUS
<1>4. PICK m2 : m2 = main'[c]
  OBVIOUS
<1>5. /\ Shaped(e, p, ans[c], inbox[c], mn, pump[c])
      /\ c \notin muddled => Settled(e, p, ans[c], inbox[c], mn, pump[c])
      /\ DOMAIN main = Cockpits
  BY <1>1, <1>2, <1>3, Before DEF CrossInv
<1>6. /\ UNCHANGED <<inbox, ev, ans, chan, pump>> /\ DOMAIN main' = Cockpits
      /\ muddled' = muddled \/ muddled' = muddled \cup {c}
      /\ \A d \in Cockpits \ {c} : main'[d] = main[d]
  BY <1>5 DEF Join, Subscribe, MainTimeout, Muddle, Cockpit
<1>7. /\ DOMAIN m2 = MainFields /\ \A f \in MainFields \ {"pc"} : m2[f] = mn[f]
      /\ \/ mn.pc = "off" /\ m2.pc = "joined" /\ UNCHANGED muddled
         \/ mn.pc = "joined" /\ m2.pc = "idle" /\ UNCHANGED muddled
         \/ mn.pc \in {"send", "dp", "recv", "media"} /\ m2.pc = "idle" /\ c \in muddled'
  <2>1. DOMAIN mn = MainFields
    BY <1>5 DEF Shaped
  <2> QED BY <1>3, <1>4, <1>5, <2>1 DEF Join, Subscribe, MainTimeout, Muddle, Wanted, MainFields
<1>8. m2.taken = mn.taken /\ m2.send = mn.send /\ m2.recv = mn.recv
  BY <1>7 DEF MainFields
<1>9. Pair(m2, pump[c])
  BY <1>5, <1>7, <1>8 DEF Shaped, Pair
<1>10. Shaped(e, p, ans[c], inbox[c], m2, pump[c])
  BY <1>5, <1>7, <1>9 DEF Shaped
<1>11. c \notin muddled' => Settled(e, p, ans[c], inbox[c], m2, pump[c])
  BY <1>5, <1>7, <1>8 DEF Settled, Paired, MainWaits
<1>12. OwnFrame(c)
  BY <1>5, <1>6 DEF OwnFrame
<1>13. e = ev'[MainOf(c)] /\ p = ev'[PumpOf(c)] /\ inbox[c] = inbox'[c] /\ pump[c] = pump'[c]
  BY <1>1, <1>2, <1>6
<1> QED BY <1>4, <1>10, <1>11, <1>12, <1>13, OwnStep

\* A wait of the main flow passes something over, or ends with an Error, or with the
\* transport after which the router's capabilities did not come.
LEMMA CrossMainOther ==
  ASSUME WiresInv, CrossInv, NEW c \in Cockpits, MainOther(c) \/ RouterCaps(c)
  PROVE  CrossInv'
<1>1. PICK e : e = ev[MainOf(c)]
  OBVIOUS
<1>2. PICK p : p = ev[PumpOf(c)]
  OBVIOUS
<1>3. PICK mn : mn = main[c]
  OBVIOUS
<1>4. PICK m2 : m2 = main'[c]
  OBVIOUS
<1>5. PICK h : h = Head(e)
  OBVIOUS
<1>6. PICK e2 : e2 = Tail(e)
  OBVIOUS
<1>7. /\ Shaped(e, p, ans[c], inbox[c], mn, pump[c])
      /\ c \notin muddled => Settled(e, p, ans[c], inbox[c], mn, pump[c])
      /\ DOMAIN main = Cockpits
  BY <1>1, <1>2, <1>3, Before DEF CrossInv
<1>8. /\ UNCHANGED <<inbox, ans, chan, pump>> /\ DOMAIN main' = Cockpits
      /\ muddled' = muddled \/ muddled' = muddled \cup {c}
      /\ \A d \in Cockpits \ {c} : main'[d] = main[d]
      /\ Take(MainOf(c)) /\ e # << >>
  BY <1>1, <1>7 DEF MainOther, RouterCaps, Muddle, Cockpit, Event
<1>9. /\ ev'[MainOf(c)] = e2 /\ ev'[PumpOf(c)] = p
      /\ \A d \in Cockpits \ {c} : ev'[MainOf(d)] = ev[MainOf(d)] /\ ev'[PumpOf(d)] = ev[PumpOf(d)]
  <2>1. ev' = [ev EXCEPT ![MainOf(c)] = e2]
    BY <1>1, <1>6, <1>8 DEF Take
  <2> QED BY <1>2, <2>1, TakeMain
<1>10. /\ DOMAIN m2 = MainFields /\ m2.taken = mn.taken /\ m2.send = mn.send
       /\ mn.pc \in {"send", "dp", "recv", "media"}
       /\ \/ m2 = mn /\ h.t # "error" /\ (mn.pc = "recv" => h.t # "transport")
          \/ h.t = "error" /\ m2.pc = "idle" /\ m2.recv = mn.recv
          \/ mn.pc = "recv" /\ h.t = "transport" /\ m2.pc = "idle" /\ m2.recv = h.for
  <2>1. DOMAIN mn = MainFields
    BY <1>7 DEF Shaped
  <2>2. CASE MainOther(c)
    <3>1. /\ mn.pc \in {"send", "dp", "recv", "media"} /\ h.t # Wanted[mn.pc]
          /\ main' = IF h.t = "error" THEN [main EXCEPT ![c].pc = "idle"] ELSE main
      BY <1>1, <1>3, <1>5, <2>2 DEF MainOther, Wanted
    <3>2. mn.pc = "recv" => h.t # "transport"
      BY <3>1 DEF Wanted
    <3> QED BY <1>3, <1>4, <1>7, <2>1, <3>1, <3>2 DEF MainFields
  <2>3. CASE RouterCaps(c)
    <3>1. /\ mn.pc = "recv" /\ h.t = "transport"
          /\ main' = [main EXCEPT ![c].pc = "idle", ![c].recv = h.for]
      BY <1>1, <1>3, <1>5, <2>3 DEF RouterCaps, Event
    <3> QED BY <1>3, <1>4, <1>7, <2>1, <3>1 DEF MainFields
  <2> QED BY <2>2, <2>3
<1>11. Pair(m2, pump[c])
  BY <1>7, <1>10 DEF Shaped, Pair
<1>12. /\ IsSeq(e2) /\ Flown(e2)
       /\ MainWaits(e, inbox[c], mn.pc) =>
            /\ mn.pc = "recv" /\ h.t = "transport" => h.for = "video"
            /\ (mn.pc = "recv" => h.t \notin {"transport", "error"}) => MainWaits(e2, inbox[c], mn.pc)
  BY <1>5, <1>6, <1>7, <1>8, MainTakes DEF Shaped
<1>13. Shaped(e2, p, ans[c], inbox[c], m2, pump[c])
  BY <1>7, <1>10, <1>11, <1>12 DEF Shaped
<1>14. ASSUME c \notin muddled' PROVE Settled(e2, p, ans[c], inbox[c], m2, pump[c])
  <2>1. Settled(e, p, ans[c], inbox[c], mn, pump[c])
    BY <1>7, <1>8, <1>14
  <2>2. MainWaits(e2, inbox[c], m2.pc)
    BY <1>10, <1>12, <2>1 DEF Settled, MainWaits
  <2>3. m2.recv = mn.recv \/ m2.recv = "video"
    BY <1>10, <1>12, <2>1 DEF Settled
  <2> QED BY <1>10, <2>1, <2>2, <2>3 DEF Settled, Paired
<1>15. OwnFrame(c)
  BY <1>7, <1>8, <1>9 DEF OwnFrame
<1>16. inbox[c] = inbox'[c] /\ pump[c] = pump'[c]
  BY <1>8
<1> QED BY <1>4, <1>9, <1>13, <1>14, <1>15, <1>16, OwnStep

\* The main flow asks for its first transport: nothing that could be taken for its answer is
\* under way.
LEMMA CrossOpens ==
  ASSUME WiresInv, CrossInv, NEW c \in Cockpits, open_control(c) PROVE CrossInv'
<1>1. PICK e : e = ev[MainOf(c)]
  OBVIOUS
<1>2. PICK p : p = ev[PumpOf(c)]
  OBVIOUS
<1>3. PICK mn : mn = main[c]
  OBVIOUS
<1>4. PICK m2 : m2 = main'[c]
  OBVIOUS
<1>5. PICK b : b = inbox[c]
  OBVIOUS
<1>6. PICK x : x = Transport("open")
  OBVIOUS
<1>7. PICK b2 : b2 = Append(b, x)
  OBVIOUS
<1>8. /\ Shaped(e, p, ans[c], b, mn, pump[c])
      /\ c \notin muddled => Settled(e, p, ans[c], b, mn, pump[c])
      /\ DOMAIN main = Cockpits
  BY <1>1, <1>2, <1>3, <1>5, Before DEF CrossInv
<1>9. x.t = "transport" /\ x.for = "open" /\ ~OfPump(x) /\ Open1(x)
  BY <1>6 DEF Transport, OfPump, Open1
<1>10. /\ UNCHANGED <<ev, ans, chan, pump>> /\ DOMAIN main' = Cockpits
       /\ muddled' = muddled \/ muddled' = muddled \cup {c}
       /\ \A d \in Cockpits \ {c} : main'[d] = main[d]
       /\ Asks(c, <<x>>)
       /\ Stray(c, MainOf(c), {"open", "video", "pump"}) => c \in muddled'
  BY <1>6, <1>8 DEF open_control, Muddle, Cockpit
<1>11. inbox'[c] = b2 /\ \A d \in Cockpits \ {c} : inbox'[d] = inbox[d]
  BY <1>5, <1>7, <1>10, AskMine
<1>12. /\ DOMAIN m2 = MainFields /\ m2.taken /\ m2.pc = "send" /\ m2.send = mn.send /\ m2.recv = mn.recv
       /\ mn.pc = "idle" /\ ~mn.taken
  <2>1. DOMAIN mn = MainFields
    BY <1>8 DEF Shaped
  <2> QED BY <1>3, <1>4, <1>8, <2>1 DEF open_control, MainFields
<1>13. pump[c].pc = "off" /\ Pair(m2, pump[c])
  BY <1>8, <1>12 DEF Shaped, Pair
<1>14. IsSeq(b) /\ Flown(b) /\ Flown(e) /\ Kinds(ans[c], b)
  BY <1>8 DEF Shaped
<1>15. /\ IsSeq(b2) /\ Flown(b2) /\ Kinds(ans[c], b2)
       /\ PumpWaits(p, ans[c], b, pump[c]) => PumpWaits(p, ans[c], b2, pump[c])
  BY <1>7, <1>9, <1>13, <1>14, AsksMore
<1>16. Shaped(e, p, ans[c], b2, m2, pump[c])
  BY <1>8, <1>12, <1>13, <1>15 DEF Shaped
<1>17. ASSUME c \notin muddled' PROVE Settled(e, p, ans[c], b2, m2, pump[c])
  <2>1. Settled(e, p, ans[c], b, mn, pump[c])
    BY <1>8, <1>10, <1>17
  <2>2. /\ \A i \in DOMAIN e : e[i].t # "transport"
        /\ \A i \in DOMAIN b : b[i].t # "transport"
    <3>1. \A m \in Items(b) \cup Items(e) : ~(m.t = "transport" /\ m.for \in {"open", "video", "pump"})
      BY <1>1, <1>5, <1>10, <1>17 DEF Stray
    <3>2. Items(b) = {b[i] : i \in DOMAIN b} /\ Items(e) = {e[i] : i \in DOMAIN e}
      BY DEF Items, ToSet
    <3> QED BY <1>14, <3>1, <3>2 DEF Flown
  <2>3. \A i \in DOMAIN b2 : b2[i].t = "transport" => i = Len(b) + 1 /\ b2[i] = x
    BY <1>7, <1>14, <2>2, AppendFacts
  <2>4. Lone(e, b2)
    BY <1>9, <2>2, <2>3 DEF Lone
  <2> QED BY <1>12, <1>15, <2>1, <2>4 DEF Settled, Paired, MainWaits
<1>18. OwnFrame(c)
  BY <1>8, <1>10, <1>11 DEF OwnFrame
<1>19. e = ev'[MainOf(c)] /\ p = ev'[PumpOf(c)] /\ pump[c] = pump'[c]
  BY <1>1, <1>2, <1>10
<1> QED BY <1>4, <1>11, <1>16, <1>17, <1>18, <1>19, OwnStep

\* So with the video's, after the stream was read on.
LEMMA CrossConsumes ==
  ASSUME WiresInv, CrossInv, NEW c \in Cockpits, consume(c) PROVE CrossInv'
<1>1. PICK e : e = ev[MainOf(c)]
  OBVIOUS
<1>2. PICK p : p = ev[PumpOf(c)]
  OBVIOUS
<1>3. PICK mn : mn = main[c]
  OBVIOUS
<1>4. PICK m2 : m2 = main'[c]
  OBVIOUS
<1>5. PICK b : b = inbox[c]
  OBVIOUS
<1>6. PICK x : x = Transport("video")
  OBVIOUS
<1>7. PICK b2 : b2 = Append(b, x)
  OBVIOUS
<1>8. /\ Shaped(e, p, ans[c], b, mn, pump[c])
      /\ c \notin muddled => Settled(e, p, ans[c], b, mn, pump[c])
      /\ DOMAIN main = Cockpits
  BY <1>1, <1>2, <1>3, <1>5, Before DEF CrossInv
<1>9. x.t = "transport" /\ x.for = "video" /\ ~OfPump(x) /\ ~Open1(x)
  BY <1>6 DEF Transport, OfPump, Open1
<1>10. PICK n \in 1 .. Len(e) + 1 : ev' = [ev EXCEPT ![MainOf(c)] = SubSeq(e, n, Len(e))]
  BY <1>1 DEF consume
<1>11. PICK e2 : e2 = SubSeq(e, n, Len(e))
  OBVIOUS
<1>12. /\ ev'[MainOf(c)] = e2 /\ ev'[PumpOf(c)] = p
       /\ \A d \in Cockpits \ {c} : ev'[MainOf(d)] = ev[MainOf(d)] /\ ev'[PumpOf(d)] = ev[PumpOf(d)]
  BY <1>2, <1>10, <1>11, TakeMain
<1>13. /\ UNCHANGED <<ans, chan, pump>> /\ DOMAIN main' = Cockpits
       /\ muddled' = muddled \/ muddled' = muddled \cup {c}
       /\ \A d \in Cockpits \ {c} : main'[d] = main[d]
       /\ Asks(c, <<x>>)
       /\ (\E m \in Items(b) \cup Items(ev'[MainOf(c)]) : m.t = "transport") => c \in muddled'
  BY <1>5, <1>6, <1>8 DEF consume, Muddle, Cockpit
<1>14. inbox'[c] = b2 /\ \A d \in Cockpits \ {c} : inbox'[d] = inbox[d]
  BY <1>5, <1>7, <1>13, AskMine
<1>15. /\ DOMAIN m2 = MainFields /\ m2.taken = mn.taken /\ m2.pc = "recv"
       /\ m2.send = mn.send /\ m2.recv = mn.recv /\ mn.pc = "idle"
  <2>1. DOMAIN mn = MainFields
    BY <1>8 DEF Shaped
  <2> QED BY <1>3, <1>4, <1>8, <2>1 DEF consume, MainFields
<1>16. Pair(m2, pump[c])
  BY <1>8, <1>15 DEF Shaped, Pair
<1>17. IsSeq(b) /\ Flown(b) /\ IsSeq(e) /\ Flown(e) /\ Kinds(ans[c], b)
  BY <1>8 DEF Shaped
<1>18. /\ IsSeq(b2) /\ Flown(b2) /\ Kinds(ans[c], b2)
       /\ PumpWaits(p, ans[c], b, pump[c]) => PumpWaits(p, ans[c], b2, pump[c])
  BY <1>7, <1>9, <1>17, AsksMore
<1>19. IsSeq(e2) /\ Flown(e2)
  <2>1. PICK S : e \in Seq(S)
    BY <1>17 DEF IsSeq
  <2>2. /\ e2 \in Seq(S) /\ Len(e) \in Nat
        /\ \A i \in DOMAIN e2 : n + i - 1 \in DOMAIN e /\ e2[i] = e[n + i - 1]
    BY <1>11, <2>1
  <2> QED BY <1>17, <2>2 DEF IsSeq, Flown
<1>20. Shaped(e2, p, ans[c], b2, m2, pump[c])
  BY <1>8, <1>15, <1>16, <1>18, <1>19 DEF Shaped
<1>21. ASSUME c \notin muddled' PROVE Settled(e2, p, ans[c], b2, m2, pump[c])
  <2>1. Settled(e, p, ans[c], b, mn, pump[c])
    BY <1>8, <1>13, <1>21
  <2>2. /\ \A i \in DOMAIN e2 : e2[i].t # "transport"
        /\ \A i \in DOMAIN b : b[i].t # "transport"
    <3>1. \A m \in Items(b) \cup Items(e2) : m.t # "transport"
      BY <1>12, <1>13, <1>21
    <3>2. Items(b) = {b[i] : i \in DOMAIN b} /\ Items(e2) = {e2[i] : i \in DOMAIN e2}
      BY DEF Items, ToSet
    <3> QED BY <3>1, <3>2
  <2>3. Led(e2, b2, "video")
    BY <1>6, <1>7, <1>17, <2>2, LedStart
  <2> QED BY <1>15, <1>18, <2>1, <2>3 DEF Settled, Paired, MainWaits
<1>22. OwnFrame(c)
  BY <1>8, <1>12, <1>13, <1>14 DEF OwnFrame
<1>23. pump[c] = pump'[c]
  BY <1>13
<1> QED BY <1>4, <1>12, <1>14, <1>20, <1>21, <1>22, <1>23, OwnStep

\* The main flow's answer is its own; after the last one of open_control the pump starts.
LEMMA CrossAnswers ==
  ASSUME WiresInv, CrossInv, NEW c \in Cockpits, MainAnswer(c) PROVE CrossInv'
<1>1. PICK e : e = ev[MainOf(c)]
  OBVIOUS
<1>2. PICK p : p = ev[PumpOf(c)]
  OBVIOUS
<1>3. PICK mn : mn = main[c]
  OBVIOUS
<1>4. PICK m2 : m2 = main'[c]
  OBVIOUS
<1>5. PICK b : b = inbox[c]
  OBVIOUS
<1>6. PICK pm : pm = pump[c]
  OBVIOUS
<1>7. PICK h : h = Head(e)
  OBVIOUS
<1>8. PICK e2 : e2 = Tail(e)
  OBVIOUS
<1>9. PICK p2 : p2 = pump'[c]
  OBVIOUS
<1>10. PICK b2 : b2 = inbox'[c]
  OBVIOUS
<1>11. /\ Shaped(e, p, ans[c], b, mn, pm)
       /\ c \notin muddled => Settled(e, p, ans[c], b, mn, pm)
       /\ DOMAIN main = Cockpits /\ DOMAIN pump = Cockpits
  BY <1>1, <1>2, <1>3, <1>5, <1>6, Before DEF CrossInv
<1>12. /\ UNCHANGED <<ans, chan, muddled>>
       /\ Take(MainOf(c)) /\ mn.pc \in DOMAIN Wanted /\ Event(MainOf(c), Wanted[mn.pc])
       /\ pump' = IF mn.pc = "dp" THEN [pump EXCEPT ![c].pc = "drain"] ELSE pump
  <2>1. /\ mn.pc \in DOMAIN Wanted /\ Event(MainOf(c), Wanted[mn.pc]) /\ Take(MainOf(c))
        /\ pump' = IF mn.pc = "dp" THEN [pump EXCEPT ![c].pc = "drain"] ELSE pump
        /\ UNCHANGED muddled /\ Cockpit
    BY <1>3, Zenon DEF MainAnswer
  <2> QED BY <2>1 DEF Cockpit
<1>13. e # << >> /\ h.t = Wanted[mn.pc] /\ mn.pc \in {"send", "dp", "recv", "media"}
  BY <1>1, <1>7, <1>12 DEF Event, Wanted
<1>14. /\ ev'[MainOf(c)] = e2 /\ ev'[PumpOf(c)] = p
       /\ \A d \in Cockpits \ {c} : ev'[MainOf(d)] = ev[MainOf(d)] /\ ev'[PumpOf(d)] = ev[PumpOf(d)]
  <2>1. ev' = [ev EXCEPT ![MainOf(c)] = e2]
    BY <1>1, <1>8, <1>12 DEF Take
  <2> QED BY <1>2, <2>1, TakeMain
<1>15. PICK v : main' = [main EXCEPT ![c] = v]
  BY Zenon DEF MainAnswer
<1>16. PICK ms : Asks(c, ms)
  BY Zenon DEF MainAnswer
<1>17. /\ DOMAIN main' = Cockpits /\ DOMAIN pump' = Cockpits
       /\ \A d \in Cockpits \ {c} : main'[d] = main[d] /\ pump'[d] = pump[d] /\ inbox'[d] = inbox[d]
  BY <1>11, <1>12, <1>15, <1>16 DEF Asks, WiresInv, Ends
<1>18. OwnFrame(c)
  BY <1>11, <1>12, <1>14, <1>17 DEF OwnFrame
<1>19. /\ IsSeq(e) /\ Flown(e) /\ IsSeq(b) /\ Flown(b) /\ Kinds(ans[c], b)
       /\ DOMAIN mn = MainFields /\ DOMAIN pm = PumpFields /\ Pair(mn, pm)
  BY <1>11 DEF Shaped
<1>20. /\ IsSeq(e2) /\ Flown(e2)
       /\ MainWaits(e, b, mn.pc) =>
            /\ mn.pc = "send" /\ h.t = "transport" =>
                 h.for = "open" /\ \A i \in DOMAIN b : b[i].t # "transport"
            /\ mn.pc = "recv" /\ h.t = "transport" => h.for = "video"
  BY <1>7, <1>8, <1>13, <1>19, MainTakes
<1>21. CASE mn.pc = "send"
  <2>1. PICK x : x = Produce("open")
    OBVIOUS
  <2>2. x.t = "produce" /\ ~OfPump(x) /\ ~Open1(x)
    BY <2>1 DEF Produce, OfPump, Open1
  <2>3. main' = [main EXCEPT ![c] = [mn EXCEPT !.pc = "dp", !.send = h.for]] /\ Asks(c, <<x>>)
    BY <1>1, <1>3, <1>7, <1>21, <2>1 DEF MainAnswer
  <2>4. b2 = Append(b, x)
    BY <1>5, <1>10, <2>3, AskMine
  <2>5. /\ DOMAIN m2 = MainFields /\ m2.pc = "dp" /\ m2.send = h.for
        /\ m2.taken = mn.taken /\ m2.recv = mn.recv
    BY <1>4, <1>11, <1>19, <2>3 DEF MainFields
  <2>6. p2 = pm /\ h.t = "transport"
    BY <1>6, <1>9, <1>12, <1>13, <1>21 DEF Wanted
  <2>7. Pair(m2, p2)
    BY <1>19, <1>21, <2>5, <2>6 DEF Pair
  <2>8. /\ IsSeq(b2) /\ Flown(b2) /\ Kinds(ans[c], b2)
        /\ PumpWaits(p, ans[c], b, pm) => PumpWaits(p, ans[c], b2, pm)
    BY <1>19, <2>2, <2>4, AsksMore
  <2>9. Shaped(e2, p, ans[c], b2, m2, p2)
    BY <1>11, <1>20, <2>5, <2>6, <2>7, <2>8 DEF Shaped
  <2>10. ASSUME c \notin muddled PROVE Settled(e2, p, ans[c], b2, m2, p2)
    <3>1. Settled(e, p, ans[c], b, mn, pm)
      BY <1>11, <2>10
    <3>2. h.for = "open" /\ \A i \in DOMAIN b : b[i].t # "transport"
      BY <1>20, <1>21, <2>6, <3>1 DEF Settled
    <3>3. \A i \in DOMAIN b2 : b2[i].t # "transport"
      BY <1>19, <2>2, <2>4, <3>2, AppendAll
    <3> QED BY <2>5, <2>6, <2>8, <3>1, <3>2, <3>3 DEF Settled, Paired, MainWaits
  <2> QED BY <1>4, <1>9, <1>10, <1>12, <1>14, <1>18, <2>9, <2>10, OwnStep
<1>22. CASE mn.pc = "recv"
  <2>1. PICK x : x = [t |-> "media", for |-> "video"]
    OBVIOUS
  <2>2. x.t = "media" /\ ~OfPump(x) /\ ~Open1(x)
    BY <2>1 DEF OfPump, Open1
  <2>3. main' = [main EXCEPT ![c] = [mn EXCEPT !.pc = "media", !.recv = h.for]] /\ Asks(c, <<x>>)
    BY <1>1, <1>3, <1>7, <1>22, <2>1 DEF MainAnswer
  <2>4. b2 = Append(b, x)
    BY <1>5, <1>10, <2>3, AskMine
  <2>5. /\ DOMAIN m2 = MainFields /\ m2.pc = "media" /\ m2.recv = h.for
        /\ m2.taken = mn.taken /\ m2.send = mn.send
    BY <1>4, <1>11, <1>19, <2>3 DEF MainFields
  <2>6. p2 = pm /\ h.t = "transport"
    BY <1>6, <1>9, <1>12, <1>13, <1>22 DEF Wanted
  <2>7. Pair(m2, p2)
    BY <1>19, <1>22, <2>5, <2>6 DEF Pair
  <2>8. /\ IsSeq(b2) /\ Flown(b2) /\ Kinds(ans[c], b2)
        /\ PumpWaits(p, ans[c], b, pm) => PumpWaits(p, ans[c], b2, pm)
    BY <1>19, <2>2, <2>4, AsksMore
  <2>9. Shaped(e2, p, ans[c], b2, m2, p2)
    BY <1>11, <1>20, <2>5, <2>6, <2>7, <2>8 DEF Shaped
  <2>10. ASSUME c \notin muddled PROVE Settled(e2, p, ans[c], b2, m2, p2)
    <3>1. Settled(e, p, ans[c], b, mn, pm)
      BY <1>11, <2>10
    <3>2. h.for = "video"
      BY <1>20, <1>22, <2>6, <3>1 DEF Settled
    <3> QED BY <2>5, <2>6, <2>8, <3>1, <3>2 DEF Settled, Paired, MainWaits
  <2> QED BY <1>4, <1>9, <1>10, <1>12, <1>14, <1>18, <2>9, <2>10, OwnStep
<1>23. CASE mn.pc \in {"dp", "media"}
  <2>1. /\ main' = [main EXCEPT ![c] = IF mn.pc = "dp" THEN [mn EXCEPT !.pc = "idle", !.dp = h.dp]
                                       ELSE [mn EXCEPT !.pc = "idle"]]
        /\ Asks(c, << >>)
    BY <1>1, <1>3, <1>7, <1>23 DEF MainAnswer
  <2>2. b2 = b
    <3>1. PICK S : b \in Seq(S)
      BY <1>19 DEF IsSeq
    <3>2. b \o << >> = b
      BY <3>1
    <3>3. inbox'[c] = inbox[c] \o << >>
      BY <2>1 DEF Asks, WiresInv, Ends
    <3> QED BY <1>5, <1>10, <3>2, <3>3
  <2>3. /\ DOMAIN m2 = MainFields /\ m2.pc = "idle"
        /\ m2.taken = mn.taken /\ m2.send = mn.send /\ m2.recv = mn.recv
    BY <1>4, <1>11, <1>19, <2>1 DEF MainFields
  <2>4. /\ DOMAIN p2 = PumpFields /\ p2.tr = pm.tr /\ p2.dcs = pm.dcs
        /\ mn.pc = "dp" => p2.pc = "drain"
        /\ mn.pc = "media" => p2 = pm
    BY <1>6, <1>9, <1>11, <1>12, <1>19 DEF PumpFields
  <2>5. Pair(m2, p2)
    BY <1>19, <1>23, <2>3, <2>4 DEF Pair
  <2>6. Shaped(e2, p, ans[c], b2, m2, p2)
    BY <1>11, <1>20, <2>2, <2>3, <2>4, <2>5 DEF Shaped
  <2>7. ASSUME c \notin muddled PROVE Settled(e2, p, ans[c], b2, m2, p2)
    <3>1. Settled(e, p, ans[c], b, mn, pm)
      BY <1>11, <2>7
    <3>2. MainWaits(e2, b2, m2.pc)
      BY <2>3 DEF MainWaits
    <3>3. mn.pc = "dp" => pm.pc = "off"
      BY <1>19 DEF Pair
    <3>4. mn.pc = "dp" => Free(ans[c]) /\ Free(b) /\ \A i \in DOMAIN b : ~Open1(b[i])
      BY <3>1, <3>3 DEF Settled, PumpWaits, MainWaits, Open1
    <3>5. PumpWaits(p, ans[c], b2, p2)
      BY <1>23, <2>2, <2>4, <3>1, <3>4 DEF Settled, PumpWaits
    <3> QED BY <2>3, <2>4, <3>1, <3>2, <3>5 DEF Settled, Paired
  <2> QED BY <1>4, <1>9, <1>10, <1>12, <1>14, <1>18, <2>6, <2>7, OwnStep
<1> QED BY <1>13, <1>21, <1>22, <1>23

\* The pump begins: the backlog goes.
LEMMA CrossDrains ==
  ASSUME WiresInv, CrossInv, NEW c \in Cockpits, DrainBacklog(c) PROVE CrossInv'
<1>1. PICK e : e = ev[MainOf(c)]
  OBVIOUS
<1>2. PICK p : p = ev[PumpOf(c)]
  OBVIOUS
<1>3. PICK pm : pm = pump[c]
  OBVIOUS
<1>4. PICK p2 : p2 = pump'[c]
  OBVIOUS
<1>5. /\ Shaped(e, p, ans[c], inbox[c], main[c], pm)
      /\ c \notin muddled => Settled(e, p, ans[c], inbox[c], main[c], pm)
      /\ DOMAIN pump = Cockpits
  BY <1>1, <1>2, <1>3, Before DEF CrossInv
<1>6. /\ UNCHANGED <<inbox, ans, chan, main, muddled>> /\ DOMAIN pump' = Cockpits
      /\ \A d \in Cockpits \ {c} : pump'[d] = pump[d]
  BY <1>5 DEF DrainBacklog, Cockpit
<1>7. /\ ev'[PumpOf(c)] = << >> /\ ev'[MainOf(c)] = e
      /\ \A d \in Cockpits \ {c} : ev'[MainOf(d)] = ev[MainOf(d)] /\ ev'[PumpOf(d)] = ev[PumpOf(d)]
  <2>1. ev' = [ev EXCEPT ![PumpOf(c)] = << >>]
    BY DEF DrainBacklog, Drained
  <2> QED BY <1>1, <2>1, TakePump
<1>8. pm.pc = "drain" /\ DOMAIN p2 = PumpFields /\ p2.pc = "wait" /\ p2.tr = pm.tr /\ p2.dcs = pm.dcs
  <2>1. DOMAIN pm = PumpFields
    BY <1>5 DEF Shaped
  <2> QED BY <1>3, <1>4, <1>5, <2>1 DEF DrainBacklog, PumpFields
<1>9. Pair(main[c], p2)
  BY <1>5, <1>8 DEF Shaped, Pair
<1>10. IsSeq(<< >>) /\ DOMAIN << >> = {} /\ Flown(<< >>) /\ Free(<< >>)
  BY SmallItems, AnswerFacts DEF Flown
<1>11. Shaped(e, << >>, ans[c], inbox[c], main[c], p2)
  BY <1>5, <1>8, <1>9, <1>10 DEF Shaped
<1>12. c \notin muddled' => Settled(e, << >>, ans[c], inbox[c], main[c], p2)
  BY <1>5, <1>6, <1>8, <1>10 DEF Settled, Paired, PumpWaits
<1>13. OwnFrame(c)
  BY <1>5, <1>6, <1>7 DEF OwnFrame
<1>14. inbox[c] = inbox'[c] /\ main[c] = main'[c]
  BY <1>6
<1> QED BY <1>4, <1>7, <1>11, <1>12, <1>13, <1>14, OwnStep

\* A round begins with nothing of an earlier one under way; the first one with no transport
\* that could be taken for the pump's.
LEMMA CrossRound ==
  ASSUME WiresInv, CrossInv, NEW c \in Cockpits, NEW d, NEW rest, Round(c, d, rest), pump[c].pc = "wait",
         UNCHANGED <<ans, chan, main>>, NEW q,
         \/ ev' = ev /\ q = ev[PumpOf(c)]
         \/ Take(PumpOf(c)) /\ ev[PumpOf(c)] # << >> /\ q = Tail(ev[PumpOf(c)])
  PROVE  CrossInv'
<1>1. PICK e : e = ev[MainOf(c)]
  OBVIOUS
<1>2. PICK p : p = ev[PumpOf(c)]
  OBVIOUS
<1>3. PICK pm : pm = pump[c]
  OBVIOUS
<1>4. PICK p2 : p2 = pump'[c]
  OBVIOUS
<1>5. PICK b : b = inbox[c]
  OBVIOUS
<1>6. PICK mn : mn = main[c]
  OBVIOUS
<1>7. /\ Shaped(e, p, ans[c], b, mn, pm)
      /\ c \notin muddled => Settled(e, p, ans[c], b, mn, pm)
      /\ DOMAIN pump = Cockpits
  BY <1>1, <1>2, <1>3, <1>5, <1>6, Before DEF CrossInv
<1>8. IsSeq(p) /\ Flown(p) /\ IsSeq(b) /\ Flown(b) /\ Kinds(ans[c], b) /\ DOMAIN pm = PumpFields /\ Pair(mn, pm)
  BY <1>7 DEF Shaped
<1>9. /\ ev'[PumpOf(c)] = q /\ ev'[MainOf(c)] = e
      /\ \A k \in Cockpits \ {c} : ev'[MainOf(k)] = ev[MainOf(k)] /\ ev'[PumpOf(k)] = ev[PumpOf(k)]
  <2>1. CASE ev' = ev /\ q = ev[PumpOf(c)]
    BY <1>1, <2>1
  <2>2. CASE Take(PumpOf(c)) /\ q = Tail(ev[PumpOf(c)])
    <3>1. ev' = [ev EXCEPT ![PumpOf(c)] = q]
      BY <2>2 DEF Take
    <3> QED BY <1>1, <3>1, TakePump
  <2> QED BY <2>1, <2>2
<1>10. IsSeq(q) /\ Flown(q) /\ \A i \in DOMAIN q : \E j \in DOMAIN p : q[i] = p[j]
  <2>1. CASE q = p
    BY <1>8, <2>1
  <2>2. CASE p # << >> /\ q = Tail(p)
    <3>1. IsSeq(Tail(p)) /\ Flown(Tail(p))
      BY <1>8, <2>2, PumpTakes
    <3>2. \A i \in DOMAIN Tail(p) : \E j \in DOMAIN p : Tail(p)[i] = p[j]
      BY <1>8, <2>2, TailAll
    <3> QED BY <2>2, <3>1, <3>2
  <2> QED BY <1>2, <2>1, <2>2
<1>11. /\ DOMAIN pump' = Cockpits /\ \A k \in Cockpits \ {c} : pump'[k] = pump[k]
       /\ DOMAIN p2 = PumpFields /\ p2.cur = d /\ p2.tr = pm.tr /\ p2.dcs = pm.dcs
       /\ p2.pc = IF pm.tr = None THEN "tr" ELSE "data"
  BY <1>3, <1>4, <1>7, <1>8 DEF Round, PumpFields
<1>12. PICK x : /\ Asks(c, <<x>>)
                /\ \/ pm.tr = None /\ x = Transport("pump") /\ Muddle(c, Stray(c, PumpOf(c), {"video", "pump"}))
                   \/ pm.tr # None /\ x = ConsumeData(d, "pump") /\ UNCHANGED muddled
  BY <1>3 DEF Round
<1>13. /\ pm.tr = None => x.t = "transport" /\ x.for = "pump"
       /\ pm.tr # None => x.t = "consume" /\ x.dp = d
       /\ ~Open1(x)
  BY <1>12 DEF Transport, ConsumeData, Open1
<1>14. PICK b2 : b2 = Append(b, x)
  OBVIOUS
<1>15. inbox'[c] = b2 /\ \A k \in Cockpits \ {c} : inbox'[k] = inbox[k]
  BY <1>5, <1>12, <1>14, AskMine
<1>16. OwnFrame(c)
  BY <1>7, <1>9, <1>11, <1>12, <1>15 DEF OwnFrame, Muddle
<1>17. mn.pc \notin {"send", "dp"} /\ Pair(mn, p2)
  BY <1>3, <1>8, <1>11 DEF Pair
<1>18. /\ IsSeq(b2) /\ Flown(b2) /\ Kinds(ans[c], b2)
       /\ MainWaits(e, b, mn.pc) => MainWaits(e, b2, mn.pc)
  BY <1>8, <1>13, <1>14, <1>17, AsksMore
<1>19. Shaped(e, q, ans[c], b2, mn, p2)
  BY <1>7, <1>10, <1>11, <1>17, <1>18 DEF Shaped
<1>20. ASSUME c \notin muddled' PROVE Settled(e, q, ans[c], b2, mn, p2)
  <2>1. Settled(e, p, ans[c], b, mn, pm)
    BY <1>7, <1>16, <1>20 DEF OwnFrame
  <2>2. /\ Free(p) /\ Free(ans[c]) /\ Free(b)
        /\ \A i \in DOMAIN b : ~Open1(b[i])
        /\ \A i \in DOMAIN p : ~Open1(p[i])
    BY <1>3, <2>1 DEF Settled, PumpWaits
  <2>3. Free(q) /\ \A i \in DOMAIN q : ~Open1(q[i])
    BY <1>10, <2>2 DEF Free
  <2>4. OneRound(q, ans[c], b2)
    BY <1>8, <1>14, <2>2, <2>3, RoundAsks
  <2>5. \A i \in DOMAIN b2 : b2[i] = x \/ \E j \in DOMAIN b : b2[i] = b[j]
    BY <1>8, <1>14, AppendAll
  <2>6. \A i \in DOMAIN b2 : ~Open1(b2[i])
    BY <1>13, <2>2, <2>5
  <2>7. pm.tr = None => Led(q, b2, "pump")
    <3> SUFFICES ASSUME pm.tr = None PROVE Led(q, b2, "pump")
      OBVIOUS
    <3>1. x = Transport("pump") /\ ~Stray(c, PumpOf(c), {"video", "pump"})
      BY <1>12, <1>20 DEF Muddle
    <3>2. \A m \in Items(b) \cup Items(p) : ~(m.t = "transport" /\ m.for \in {"video", "pump"})
      BY <1>2, <1>5, <3>1 DEF Stray
    <3>3. Items(b) = {b[i] : i \in DOMAIN b} /\ Items(p) = {p[i] : i \in DOMAIN p}
      BY DEF Items, ToSet
    <3>4. \A i \in DOMAIN b : b[i].t # "transport"
      BY <1>8, <2>2, <3>2, <3>3 DEF Flown, Open1
    <3>5. \A i \in DOMAIN p : p[i].t # "transport"
      BY <1>8, <2>2, <3>2, <3>3 DEF Flown, Open1
    <3>6. \A i \in DOMAIN q : q[i].t # "transport"
      BY <1>10, <3>5
    <3> QED BY <1>8, <1>14, <3>1, <3>4, <3>6, LedStart
  <2>8. p2.pc = "data" => \A s \in {q, ans[c], b2} : \A i \in DOMAIN s :
                             s[i].t \in {"consume", "consumed"} => s[i].dp = p2.cur
    <3>1. \A s \in {q, ans[c], b} : \A i \in DOMAIN s : s[i].t \notin {"consume", "consumed"}
      BY <2>2, <2>3 DEF Free, OfPump
    <3>2. p2.pc = "data" => x.dp = p2.cur
      BY <1>11, <1>13
    <3> QED BY <2>5, <3>1, <3>2
  <2>9. PumpWaits(q, ans[c], b2, p2)
    BY <1>11, <2>3, <2>4, <2>6, <2>7, <2>8 DEF PumpWaits
  <2> QED BY <1>11, <1>18, <2>1, <2>9 DEF Settled, Paired
<1>21. mn = main'[c]
  BY <1>6
<1> QED BY <1>4, <1>9, <1>15, <1>16, <1>19, <1>20, <1>21, OwnStep

\* The pump starts one for a producer of the backlog,
LEMMA CrossSeed ==
  ASSUME WiresInv, CrossInv, NEW c \in Cockpits, PumpSeed(c) PROVE CrossInv'
<1>1. /\ pump[c].pc = "wait" /\ Round(c, Last(pump[c].seed), Front(pump[c].seed))
      /\ UNCHANGED <<ans, chan, main, ev>>
  BY DEF PumpSeed, Cockpit
<1> QED BY <1>1, CrossRound

\* or for one announced to it; it drops the channel of one that closed.
LEMMA CrossWait ==
  ASSUME WiresInv, CrossInv, NEW c \in Cockpits, PumpWait(c) PROVE CrossInv'
<1>1. PICK h : h = Head(ev[PumpOf(c)])
  OBVIOUS
<1>2. /\ pump[c].pc = "wait" /\ Take(PumpOf(c)) /\ ev[PumpOf(c)] # << >>
      /\ UNCHANGED <<ans, chan, main>>
      /\ \/ Round(c, h.dp, << >>)
         \/ /\ pump' = IF h.t = "closed"
                       THEN [pump EXCEPT ![c].dcs = {x \in @ : x[1] # h.dp}] ELSE pump
            /\ UNCHANGED <<inbox, muddled>>
  BY <1>1 DEF PumpWait, Cockpit
<1>3. CASE Round(c, h.dp, << >>)
  BY <1>2, <1>3, CrossRound
<1>4. ASSUME pump' = IF h.t = "closed"
                     THEN [pump EXCEPT ![c].dcs = {x \in @ : x[1] # h.dp}] ELSE pump,
             UNCHANGED <<inbox, muddled>>
      PROVE  CrossInv'
  <2>1. PICK e : e = ev[MainOf(c)]
    OBVIOUS
  <2>2. PICK p : p = ev[PumpOf(c)]
    OBVIOUS
  <2>3. PICK pm : pm = pump[c]
    OBVIOUS
  <2>4. PICK p2 : p2 = pump'[c]
    OBVIOUS
  <2>5. PICK q : q = Tail(p)
    OBVIOUS
  <2>6. /\ Shaped(e, p, ans[c], inbox[c], main[c], pm)
        /\ c \notin muddled => Settled(e, p, ans[c], inbox[c], main[c], pm)
        /\ DOMAIN pump = Cockpits
    BY <2>1, <2>2, <2>3, Before DEF CrossInv
  <2>7. /\ ev'[PumpOf(c)] = q /\ ev'[MainOf(c)] = e
        /\ \A d \in Cockpits \ {c} : ev'[MainOf(d)] = ev[MainOf(d)] /\ ev'[PumpOf(d)] = ev[PumpOf(d)]
    <3>1. ev' = [ev EXCEPT ![PumpOf(c)] = q]
      BY <1>2, <2>2, <2>5 DEF Take
    <3> QED BY <2>1, <3>1, TakePump
  <2>8. /\ DOMAIN pump' = Cockpits /\ \A d \in Cockpits \ {c} : pump'[d] = pump[d]
        /\ DOMAIN p2 = PumpFields /\ p2.pc = pm.pc /\ p2.tr = pm.tr /\ p2.cur = pm.cur
        /\ p2.dcs \subseteq pm.dcs /\ pm.pc = "wait"
    <3>1. DOMAIN pm = PumpFields
      BY <2>6 DEF Shaped
    <3> QED BY <1>2, <1>4, <2>3, <2>4, <2>6, <3>1 DEF PumpFields
  <2>9. IsSeq(q) /\ Flown(q) /\ (PumpWaits(p, ans[c], inbox[c], pm) => PumpWaits(q, ans[c], inbox[c], pm))
    BY <1>2, <2>2, <2>5, <2>6, <2>8, PumpTakes DEF Shaped
  <2>10. Shaped(e, q, ans[c], inbox[c], main[c], p2)
    BY <2>6, <2>8, <2>9 DEF Shaped, Pair
  <2>11. c \notin muddled' => Settled(e, q, ans[c], inbox[c], main[c], p2)
    <3> SUFFICES ASSUME c \notin muddled PROVE Settled(e, q, ans[c], inbox[c], main[c], p2)
      BY <1>4
    <3>1. PumpWaits(q, ans[c], inbox[c], p2)
      BY <2>6, <2>8, <2>9 DEF Settled, PumpWaits
    <3> QED BY <2>6, <2>8, <3>1 DEF Settled, Paired
  <2>12. OwnFrame(c)
    BY <1>2, <1>4, <2>6, <2>7, <2>8 DEF OwnFrame
  <2>13. inbox[c] = inbox'[c] /\ main[c] = main'[c]
    BY <1>2, <1>4
  <2> QED BY <2>4, <2>7, <2>10, <2>11, <2>12, <2>13, OwnStep
<1> QED BY <1>2, <1>3, <1>4

\* The pump's transport is its own, and its request for the channel the round's only message.
LEMMA CrossTransport ==
  ASSUME WiresInv, CrossInv, NEW c \in Cockpits, PumpTransport(c) PROVE CrossInv'
<1>1. PICK e : e = ev[MainOf(c)]
  OBVIOUS
<1>2. PICK p : p = ev[PumpOf(c)]
  OBVIOUS
<1>3. PICK pm : pm = pump[c]
  OBVIOUS
<1>4. PICK p2 : p2 = pump'[c]
  OBVIOUS
<1>5. PICK b : b = inbox[c]
  OBVIOUS
<1>6. PICK mn : mn = main[c]
  OBVIOUS
<1>7. PICK q : q = Tail(p)
  OBVIOUS
<1>8. PICK h : h = Head(p)
  OBVIOUS
<1>9. PICK x : x = ConsumeData(pm.cur, "pump")
  OBVIOUS
<1>10. PICK b2 : b2 = Append(b, x)
  OBVIOUS
<1>11. /\ Shaped(e, p, ans[c], b, mn, pm)
       /\ c \notin muddled => Settled(e, p, ans[c], b, mn, pm)
       /\ DOMAIN pump = Cockpits
  BY <1>1, <1>2, <1>3, <1>5, <1>6, Before DEF CrossInv
<1>12. IsSeq(p) /\ Flown(p) /\ IsSeq(b) /\ Flown(b) /\ Kinds(ans[c], b) /\ DOMAIN pm = PumpFields /\ Pair(mn, pm)
  BY <1>11 DEF Shaped
<1>13. /\ pm.pc = "tr" /\ p # << >> /\ h.t = "transport" /\ Take(PumpOf(c)) /\ Asks(c, <<x>>)
       /\ pump' = [pump EXCEPT ![c].pc = "data", ![c].tr = h.for]
       /\ UNCHANGED <<ans, chan, main, muddled>>
  BY <1>2, <1>3, <1>8, <1>9 DEF PumpTransport, Event, Cockpit
<1>14. /\ ev'[PumpOf(c)] = q /\ ev'[MainOf(c)] = e
       /\ \A d \in Cockpits \ {c} : ev'[MainOf(d)] = ev[MainOf(d)] /\ ev'[PumpOf(d)] = ev[PumpOf(d)]
  <2>1. ev' = [ev EXCEPT ![PumpOf(c)] = q]
    BY <1>2, <1>7, <1>13 DEF Take
  <2> QED BY <1>1, <2>1, TakePump
<1>15. /\ DOMAIN pump' = Cockpits /\ \A d \in Cockpits \ {c} : pump'[d] = pump[d]
       /\ DOMAIN p2 = PumpFields /\ p2.pc = "data" /\ p2.tr = h.for /\ p2.cur = pm.cur /\ p2.dcs = pm.dcs
  BY <1>3, <1>4, <1>11, <1>12, <1>13 DEF PumpFields
<1>16. x.t = "consume" /\ x.dp = pm.cur /\ ~Open1(x)
  BY <1>9 DEF ConsumeData, Open1
<1>17. inbox'[c] = b2 /\ \A d \in Cockpits \ {c} : inbox'[d] = inbox[d]
  BY <1>5, <1>10, <1>13, AskMine
<1>18. Pair(mn, p2)
  BY <1>12, <1>13, <1>15 DEF Pair
<1>19. /\ IsSeq(b2) /\ Flown(b2) /\ Kinds(ans[c], b2)
       /\ MainWaits(e, b, mn.pc) => MainWaits(e, b2, mn.pc)
  BY <1>10, <1>12, <1>16, AsksMore
<1>20. /\ IsSeq(q) /\ Flown(q)
       /\ PumpWaits(p, ans[c], b, pm) =>
            /\ h.for = "pump"
            /\ OfPump(h) => Free(q) /\ Free(ans[c]) /\ Free(b)
            /\ \A i \in DOMAIN b : ~Open1(b[i])
            /\ \A i \in DOMAIN q : ~Open1(q[i])
  BY <1>7, <1>8, <1>12, <1>13, PumpTakes
<1>21. Shaped(e, q, ans[c], b2, mn, p2)
  BY <1>11, <1>15, <1>18, <1>19, <1>20 DEF Shaped
<1>22. ASSUME c \notin muddled' PROVE Settled(e, q, ans[c], b2, mn, p2)
  <2>1. Settled(e, p, ans[c], b, mn, pm)
    BY <1>11, <1>13, <1>22
  <2>2. h.for = "pump" /\ OfPump(h)
    BY <1>13, <1>20, <2>1 DEF Settled, OfPump
  <2>3. /\ Free(q) /\ Free(ans[c]) /\ Free(b)
        /\ \A i \in DOMAIN b : ~Open1(b[i])
        /\ \A i \in DOMAIN q : ~Open1(q[i])
    BY <1>20, <2>1, <2>2 DEF Settled
  <2>4. OneRound(q, ans[c], b2)
    BY <1>10, <1>12, <2>3, RoundAsks
  <2>5. \A i \in DOMAIN b2 : b2[i] = x \/ \E j \in DOMAIN b : b2[i] = b[j]
    BY <1>10, <1>12, AppendAll
  <2>6. \A s \in {q, ans[c], b2} : \A i \in DOMAIN s :
            s[i].t \in {"consume", "consumed"} => s[i].dp = p2.cur
    <3>1. \A s \in {q, ans[c], b} : \A i \in DOMAIN s : s[i].t \notin {"consume", "consumed"}
      BY <2>3 DEF Free, OfPump
    <3> QED BY <1>15, <1>16, <2>5, <3>1
  <2>7. PumpWaits(q, ans[c], b2, p2)
    BY <1>15, <1>16, <2>3, <2>4, <2>5, <2>6 DEF PumpWaits
  <2> QED BY <1>15, <1>19, <2>1, <2>2, <2>7 DEF Settled, Paired
<1>23. OwnFrame(c)
  BY <1>11, <1>13, <1>14, <1>15, <1>17 DEF OwnFrame
<1>24. mn = main'[c]
  BY <1>6, <1>13
<1> QED BY <1>4, <1>14, <1>17, <1>21, <1>22, <1>23, <1>24, OwnStep

\* The end of a round, by the channel that was asked for or by an Error of the pump's own,
\* leaves nothing of it; past anything else the round goes on.
LEMMA CrossRoundEnds ==
  ASSUME WiresInv, CrossInv, NEW c \in Cockpits, PumpConsumed(c) \/ PumpOther(c) PROVE CrossInv'
<1>1. PICK e : e = ev[MainOf(c)]
  OBVIOUS
<1>2. PICK p : p = ev[PumpOf(c)]
  OBVIOUS
<1>3. PICK pm : pm = pump[c]
  OBVIOUS
<1>4. PICK p2 : p2 = pump'[c]
  OBVIOUS
<1>5. PICK b : b = inbox[c]
  OBVIOUS
<1>6. PICK mn : mn = main[c]
  OBVIOUS
<1>7. PICK q : q = Tail(p)
  OBVIOUS
<1>8. PICK h : h = Head(p)
  OBVIOUS
<1>9. /\ Shaped(e, p, ans[c], b, mn, pm)
      /\ c \notin muddled => Settled(e, p, ans[c], b, mn, pm)
      /\ DOMAIN pump = Cockpits
  BY <1>1, <1>2, <1>3, <1>5, <1>6, Before DEF CrossInv
<1>10. IsSeq(p) /\ Flown(p) /\ DOMAIN pm = PumpFields /\ Pair(mn, pm)
  BY <1>9 DEF Shaped
<1>11. /\ p # << >> /\ Take(PumpOf(c)) /\ UNCHANGED <<inbox, ans, chan, main>>
       /\ muddled' = muddled \/ muddled' = muddled \cup {c}
  BY <1>2 DEF PumpConsumed, PumpOther, Event, Cockpit, Muddle
<1>12. /\ ev'[PumpOf(c)] = q /\ ev'[MainOf(c)] = e
       /\ \A d \in Cockpits \ {c} : ev'[MainOf(d)] = ev[MainOf(d)] /\ ev'[PumpOf(d)] = ev[PumpOf(d)]
  <2>1. ev' = [ev EXCEPT ![PumpOf(c)] = q]
    BY <1>2, <1>7, <1>11 DEF Take
  <2> QED BY <1>1, <2>1, TakePump
<1>13. /\ DOMAIN pump' = Cockpits /\ \A d \in Cockpits \ {c} : pump'[d] = pump[d]
       /\ DOMAIN p2 = PumpFields /\ p2.tr = pm.tr /\ pm.pc \in {"tr", "data"}
       /\ \/ /\ pm.pc = "data" /\ h.t = "consumed" /\ p2.pc = "wait"
             /\ p2.dcs = pm.dcs \/ p2.dcs = {x \in pm.dcs : x[1] # pm.cur} \cup {<<pm.cur, h.dp>>}
          \/ p2 = pm /\ h.t # "error" /\ (pm.pc = "tr" => h.t # "transport")
          \/ h.t = "error" /\ p2.pc = "wait" /\ p2.dcs = pm.dcs /\ (h.for # "pump" => c \in muddled')
  <2>1. CASE PumpConsumed(c)
    <3>1. /\ pm.pc = "data" /\ h.t = "consumed"
          /\ \/ pump' = [pump EXCEPT ![c].pc = "wait",
                     ![c].dcs = {x \in @ : x[1] # pm.cur} \cup {<<pm.cur, h.dp>>}]
             \/ pump' = [pump EXCEPT ![c].pc = "wait"]
      BY <1>2, <1>3, <1>8, <2>1 DEF PumpConsumed, Event
    <3>2. CASE pump' = [pump EXCEPT ![c].pc = "wait"]
      BY <1>3, <1>4, <1>9, <1>10, <3>1, <3>2 DEF PumpFields
    <3>3. CASE pump' = [pump EXCEPT ![c].pc = "wait",
                     ![c].dcs = {x \in @ : x[1] # pm.cur} \cup {<<pm.cur, h.dp>>}]
      BY <1>3, <1>4, <1>9, <1>10, <3>1, <3>3 DEF PumpFields
    <3> QED BY <3>1, <3>2, <3>3
  <2>2. CASE PumpOther(c)
    <3>1. /\ pm.pc \in {"tr", "data"} /\ (pm.pc = "tr" => h.t # "transport")
          /\ pump' = IF h.t = "error" THEN [pump EXCEPT ![c].pc = "wait"] ELSE pump
          /\ h.t = "error" /\ h.for # "pump" => c \in muddled'
      BY <1>2, <1>3, <1>8, <2>2 DEF PumpOther, Muddle
    <3> QED BY <1>3, <1>4, <1>9, <1>10, <3>1 DEF PumpFields
  <2> QED BY <2>1, <2>2
<1>14. Pair(mn, p2)
  BY <1>10, <1>13 DEF Pair
<1>15. /\ IsSeq(q) /\ Flown(q)
       /\ PumpWaits(p, ans[c], b, pm) =>
            /\ pm.pc = "data" /\ h.t = "consumed" => h.dp = pm.cur
            /\ OfPump(h) => Free(q) /\ Free(ans[c]) /\ Free(b)
            /\ \A i \in DOMAIN b : ~Open1(b[i])
            /\ \A i \in DOMAIN q : ~Open1(q[i])
            /\ (pm.pc = "tr" => h.t \notin {"transport", "error"}) => PumpWaits(q, ans[c], b, pm)
  BY <1>7, <1>8, <1>10, <1>11, <1>13, PumpTakes
<1>16. Shaped(e, q, ans[c], b, mn, p2)
  BY <1>9, <1>13, <1>14, <1>15 DEF Shaped
<1>17. ASSUME c \notin muddled' PROVE Settled(e, q, ans[c], b, mn, p2)
  <2>1. Settled(e, p, ans[c], b, mn, pm)
    BY <1>9, <1>11, <1>17
  <2>2. CASE p2 = pm /\ h.t # "error" /\ (pm.pc = "tr" => h.t # "transport")
    BY <1>15, <2>1, <2>2 DEF Settled
  <2>3. CASE p2.pc = "wait" /\ (h.t = "consumed" \/ (h.t = "error" /\ h.for = "pump"))
    <3>1. OfPump(h)
      BY <2>3 DEF OfPump
    <3>2. PumpWaits(q, ans[c], b, p2)
      BY <1>15, <2>1, <2>3, <3>1 DEF Settled, PumpWaits
    <3>3. h.t = "consumed" /\ pm.pc = "data" => h.dp = pm.cur
      BY <1>15, <2>1 DEF Settled
    <3>4. \A x \in p2.dcs : x[1] = x[2]
      <4>1. \A x \in pm.dcs : x[1] = x[2]
        BY <2>1 DEF Settled, Paired
      <4>2. h.t = "consumed" => <<pm.cur, h.dp>>[1] = <<pm.cur, h.dp>>[2] \/ pm.pc # "data"
        BY <3>3
      <4> QED BY <1>13, <2>3, <4>1, <4>2
    <3> QED BY <1>13, <2>1, <3>2, <3>4 DEF Settled, Paired
  <2> QED BY <1>13, <1>17, <2>2, <2>3
<1>18. OwnFrame(c)
  BY <1>9, <1>11, <1>12, <1>13 DEF OwnFrame
<1>19. mn = main'[c] /\ b = inbox'[c]
  BY <1>5, <1>6, <1>11
<1> QED BY <1>4, <1>12, <1>16, <1>17, <1>18, <1>19, OwnStep

\* A round that ran out leaves its answer under way: the cockpit is muddled from here on.
LEMMA CrossPumpTimeout ==
  ASSUME WiresInv, CrossInv, NEW c \in Cockpits, PumpTimeout(c) PROVE CrossInv'
<1>1. PICK e : e = ev[MainOf(c)]
  OBVIOUS
<1>2. PICK p : p = ev[PumpOf(c)]
  OBVIOUS
<1>3. PICK p2 : p2 = pump'[c]
  OBVIOUS
<1>4. /\ Shaped(e, p, ans[c], inbox[c], main[c], pump[c]) /\ DOMAIN pump = Cockpits
  BY <1>1, <1>2, Before DEF CrossInv
<1>5. /\ UNCHANGED <<inbox, ev, ans, chan, main>> /\ muddled' = muddled \cup {c}
      /\ pump[c].pc \in {"tr", "data"} /\ pump' = [pump EXCEPT ![c].pc = "wait"]
  BY DEF PumpTimeout, Muddle, Cockpit
<1>6. /\ DOMAIN pump' = Cockpits /\ \A d \in Cockpits \ {c} : pump'[d] = pump[d]
      /\ DOMAIN p2 = PumpFields /\ p2.pc = "wait"
  BY <1>3, <1>4, <1>5 DEF Shaped, PumpFields
<1>7. Shaped(e, p, ans[c], inbox[c], main[c], p2)
  BY <1>4, <1>5, <1>6 DEF Shaped, Pair
<1>8. OwnFrame(c)
  BY <1>4, <1>5, <1>6 DEF OwnFrame
<1>9. /\ e = ev'[MainOf(c)] /\ p = ev'[PumpOf(c)] /\ inbox[c] = inbox'[c] /\ main[c] = main'[c]
      /\ c \in muddled'
  BY <1>1, <1>2, <1>5
<1> QED BY <1>3, <1>7, <1>8, <1>9, OwnStep

\* A lost link takes everything under way with it.
LEMMA CrossDrop ==
  ASSUME WiresInv, CrossInv, NEW c \in Cockpits, LinkDrop(c) PROVE CrossInv'
<1>1. /\ inbox' = [inbox EXCEPT ![c] = << >>] /\ ans' = [ans EXCEPT ![c] = << >>]
      /\ chan' = [chan EXCEPT ![c] = << >>]
      /\ ev' = [ev EXCEPT ![MainOf(c)] = << >>, ![PumpOf(c)] = << >>]
      /\ main' = [main EXCEPT ![c].pc = "gone"]
      /\ pump' = [pump EXCEPT ![c] = [NoPump EXCEPT !.pc = "dead"]]
      /\ UNCHANGED muddled
  BY DEF LinkDrop
<1>2. /\ DOMAIN inbox = Ends /\ DOMAIN ans = Ends /\ DOMAIN chan = Ends /\ DOMAIN ev = Subscribers
      /\ Cockpits \subseteq Ends /\ DOMAIN main = Cockpits /\ DOMAIN pump = Cockpits
  BY DEF WiresInv, Ends, CrossInv
<1>3. /\ inbox'[c] = << >> /\ ans'[c] = << >> /\ chan'[c] = << >>
      /\ \A d \in Cockpits \ {c} : inbox'[d] = inbox[d] /\ ans'[d] = ans[d] /\ chan'[d] = chan[d]
  BY <1>1, <1>2
<1>4. /\ ev'[MainOf(c)] = << >> /\ ev'[PumpOf(c)] = << >>
      /\ \A d \in Cockpits \ {c} : ev'[MainOf(d)] = ev[MainOf(d)] /\ ev'[PumpOf(d)] = ev[PumpOf(d)]
  BY <1>1, <1>2, Streams
<1>5. PICK m2 : m2 = main'[c]
  OBVIOUS
<1>6. PICK p2 : p2 = pump'[c]
  OBVIOUS
<1>7. PICK mn : mn = main[c]
  OBVIOUS
<1>8. DOMAIN mn = MainFields /\ (c \notin muddled => mn.send \in {None, "open"} /\ mn.recv \in {None, "video"})
  BY <1>7, Before DEF Shaped, Settled, Paired
<1>9. /\ DOMAIN main' = Cockpits /\ \A d \in Cockpits \ {c} : main'[d] = main[d]
      /\ DOMAIN m2 = MainFields /\ m2.pc = "gone" /\ m2.send = mn.send /\ m2.recv = mn.recv
  BY <1>1, <1>2, <1>5, <1>7, <1>8 DEF MainFields
<1>10. /\ DOMAIN pump' = Cockpits /\ \A d \in Cockpits \ {c} : pump'[d] = pump[d]
       /\ DOMAIN p2 = PumpFields /\ p2.pc = "dead" /\ p2.tr = None /\ p2.dcs = {}
  BY <1>1, <1>2, <1>6 DEF PumpFields, NoPump
<1>11. Pair(m2, p2) /\ (c \notin muddled => Paired(m2, p2))
  BY <1>8, <1>9, <1>10 DEF Pair, Paired
<1>12. /\ MainWaits(<< >>, << >>, m2.pc) /\ PumpWaits(<< >>, << >>, << >>, p2) /\ Kinds(<< >>, << >>)
       /\ IsSeq(<< >>) /\ Flown(<< >>) /\ DOMAIN << >> = {}
  BY <1>9, <1>10, SmallItems, AnswerFacts DEF MainWaits, PumpWaits, Kinds, Flown
<1>13. \A d \in Cockpits : NewsOnly(d)'
  BY <1>3, <1>12 DEF CrossInv, SeatInv, NewsOnly
<1>14. SeatInv(c)'
  BY <1>1, <1>3, <1>4, <1>5, <1>6, <1>9, <1>10, <1>11, <1>12, <1>13
     DEF SeatInv, CockpitInv, MainOf, PumpOf
<1>15. \A d \in Cockpits \ {c} : Same(d)
  BY <1>1, <1>3, <1>4, <1>9, <1>10 DEF Same
<1> QED BY <1>9, <1>10, <1>13, <1>14, <1>15, SameSeat DEF CrossInv

\* At the start no flow has asked for anything.
LEMMA CrossStart == ASSUME ControlInit PROVE CrossInv
<1>1. /\ inbox = [k \in Ends |-> << >>] /\ ans = [k \in Ends |-> << >>] /\ chan = [k \in Ends |-> << >>]
      /\ ev = [r \in Subscribers |-> << >>]
      /\ main = [c \in Cockpits |-> NoMain] /\ pump = [c \in Cockpits |-> NoPump]
  BY DEF ControlInit
<1>2. ASSUME NEW c \in Cockpits PROVE SeatInv(c)
  <2>1. /\ inbox[c] = << >> /\ ans[c] = << >> /\ chan[c] = << >>
        /\ ev[MainOf(c)] = << >> /\ ev[PumpOf(c)] = << >> /\ main[c] = NoMain /\ pump[c] = NoPump
    BY <1>1, Streams DEF Ends
  <2>2. /\ MainWaits(<< >>, << >>, NoMain.pc) /\ PumpWaits(<< >>, << >>, << >>, NoPump)
        /\ Kinds(<< >>, << >>) /\ IsSeq(<< >>) /\ Flown(<< >>) /\ DOMAIN << >> = {}
    BY SmallItems, AnswerFacts DEF MainWaits, PumpWaits, Kinds, Flown, NoMain, NoPump
  <2>3. /\ DOMAIN NoMain = MainFields /\ DOMAIN NoPump = PumpFields
        /\ Pair(NoMain, NoPump) /\ Paired(NoMain, NoPump)
    BY DEF NoMain, NoPump, MainFields, PumpFields, Pair, Paired
  <2> QED BY <2>1, <2>2, <2>3 DEF SeatInv, CockpitInv, NewsOnly
<1> QED BY <1>1, <1>2 DEF CrossInv

\* Every step of the control plane keeps the answers apart.
LEMMA CrossStep ==
  ASSUME ServedInv, CrossInv, [ControlNext]_controlvars PROVE CrossInv'
<1>0. WiresInv
  BY DEF ServedInv
<1>1. CASE Plane \/ UNCHANGED controlvars
  <2>1. UNCHANGED <<inbox, ans, chan, ev, main, pump, muddled>>
    BY <1>1 DEF Plane, controlvars, wires
  <2>2. \A d \in Cockpits : NewsOnly(d)'
    BY <2>1 DEF CrossInv, SeatInv, NewsOnly
  <2> QED BY <2>1, <2>2, CrossAside
<1>2. CASE Controller \/ UpDrop \/ UpJoin
  BY <1>0, <1>2, CrossController
<1>3. ASSUME NEW c \in Cockpits, Client(c) PROVE CrossInv'
  <2>1. CASE (\E n \in Seqs, s \in Sigs : emergency_stop(c, n, s)) \/ recv_ack_for(c)
    <3>1. Plane
      BY <2>1, Zenon DEF emergency_stop, recv_ack_for
    <3> QED BY <1>1, <3>1
  <2> QED BY <1>0, <1>3, <2>1, CrossMainOnly, CrossMainOther, CrossOpens, CrossConsumes, CrossAnswers,
             CrossDrop, CrossDrains, CrossSeed, CrossWait, CrossTransport, CrossRoundEnds,
             CrossPumpTimeout DEF Client
<1>4. ASSUME NEW k \in Ends, Server(k) PROVE CrossInv'
  <2>1. CASE k = Vehicle
    BY <1>4, <2>1, CrossServer, CrossReclaim DEF Server
  <2>2. CASE k \in Cockpits
    BY <1>0, <1>4, <2>2, CrossServe, CrossReply, CrossRelay, CrossReplay, CrossReclaim DEF Server
  <2> QED BY <2>1, <2>2 DEF Ends
<1> QED BY <1>1, <1>2, <1>3, <1>4 DEF ControlNext

(* No flow of a cockpit takes another's answer, although answers carry no request id and every *)
(* stream gets all of them: a wait for a transport meets its own, or an Error, before any      *)
(* other flow's, and a round of ack_consumer_pump has exactly one message under way, in the    *)
(* inbox, at the server or in the stream.  Left out are the muddled cockpits: two flows asking *)
(* at once, an answer after its wait was over, an Error that ended a flow not its own.         *)
THEOREM NoCrossedAnswerHolds == ControlSpec => []NoCrossedAnswer
<1>1. ControlInit => ServedInv /\ CrossInv
  BY ServedStart, CrossStart
<1>2. ServedInv /\ CrossInv /\ [ControlNext]_controlvars => (ServedInv /\ CrossInv)'
  BY ServedStep, CrossStep
<1>3. ServedInv /\ CrossInv => NoCrossedAnswer
  BY DEF CrossInv, SeatInv, CockpitInv, Paired, NoCrossedAnswer
<1> QED BY <1>1, <1>2, <1>3, PTL DEF ControlSpec

=============================================================================
