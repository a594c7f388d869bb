-------------------------- MODULE ClientSupervisor --------------------------
(***************************************************************************)
(* The cockpit client's signaling resilience                               *)
(* (mediaservo-client/src/supervisor.rs, session.rs, signal.rs on top of   *)
(* mediaservo-link/src/signal.rs): one link session per generation, a      *)
(* forwarder task per generation, the supervisor that reconnects and       *)
(* replays the consumer slots, and the application that consumes, closes   *)
(* or drops the session.                                                   *)
(*                                                                         *)
(* Each of these is a tokio task (or the application's own thread) on a    *)
(* multi-threaded runtime; a step is what one of them does between two     *)
(* points where another may observe it.                                    *)
(***************************************************************************)
EXTENDS Naturals, Sequences, FiniteSets

CONSTANTS
    Slots,      \* consumer paths the application may open
    MaxGen,     \* bound: link sessions established in all
    MaxFail     \* bound: reconnect attempts that fail with a retryable error

ASSUME BoundsAssumption == MaxGen \in Nat \ {0} /\ MaxFail \in Nat

Gens == 1..MaxGen
REPLAY_ATTEMPTS == 3

VARIABLES
    gen,        \* generation of the session in LinkSignal
    link,       \* per generation: its session_task
    raw,        \* per generation: what ends the forwarder's event stream
    fwd,        \* per generation: its forwarder task
    late,       \* generations whose forwarder subscribed after the shutdown
    dead,       \* the dead mailbox, each notice tagged with its generation
    sup,        \* where run_supervisor stands
    state,      \* the ConnectionState watch
    auto,       \* auto_reconnect
    shutdown,   \* the shutdown watch
    nonce,      \* pending_nonce: the old session's ticket (its generation), or 0
    presented,  \* history: RoomJoins that carried the ticket of a generation
    fails,      \* retryable failures so far
    lock,       \* consume_lock: "free", "app" or "sup"
    path,       \* per slot: not opened, being opened, open, or withdrawn
    pc,         \* per slot: the generation its peer connection was set up on
    todo,       \* slots the running replay has yet to rebuild
    tries,      \* attempts made for the current slot
    lost        \* slots this generation's replay gave up

linkVars == <<gen, link, raw>>
fwdVars  == <<fwd, late, dead>>
supVars  == <<sup, state, nonce, presented, fails, todo, tries, lost>>
appVars  == <<auto, shutdown, path>>
vars     == <<linkVars, fwdVars, supVars, appVars, lock, pc>>

Terminal == {"Failed", "Disconnected"}

TypeOK ==
    /\ gen \in Gens
    /\ link \in [Gens -> {"none", "up", "down"}]
    /\ raw \in [Gens -> {"quiet", "gone", "closed"}]
    /\ fwd \in [Gens -> {"none", "spawned", "run", "exit"}]
    /\ late \subseteq Gens
    /\ dead \in Seq(Gens)
    /\ sup \in {"wait", "connect", "swap", "lock", "replay", "drain", "backoff", "stopped"}
    /\ state \in {"Connected", "Reconnecting"} \cup Terminal
    /\ auto \in BOOLEAN
    /\ shutdown \in BOOLEAN
    /\ nonce \in Gens \cup {0}
    /\ presented \in [Gens -> Nat]
    /\ fails \in 0..MaxFail
    /\ lock \in {"free", "app", "sup"}
    /\ path \in [Slots -> {"unused", "asking", "wrapup", "open", "withdrawn"}]
    /\ pc \in [Slots -> Gens \cup {0}]
    /\ todo \subseteq Slots
    /\ tries \in 0..REPLAY_ATTEMPTS
    /\ lost \subseteq Slots

\* connect_with_engine: the first session is up and its events are subscribed
\* before the supervisor starts; the first forwarder is spawned by start().
Init ==
    /\ gen = 1
    /\ link = [g \in Gens |-> IF g = 1 THEN "up" ELSE "none"]
    /\ raw = [g \in Gens |-> "quiet"]
    /\ fwd = [g \in Gens |-> IF g = 1 THEN "spawned" ELSE "none"]
    /\ late = {}
    /\ dead = <<>>
    /\ sup = "wait"
    /\ state = "Connected"
    /\ auto = TRUE
    /\ shutdown = FALSE
    /\ nonce = 0
    /\ presented = [g \in Gens |-> 0]
    /\ fails = 0
    /\ lock = "free"
    /\ path = [s \in Slots |-> "unused"]
    /\ pc = [s \in Slots |-> 0]
    /\ todo = {}
    /\ tries = 0
    /\ lost = {}

-----------------------------------------------------------------------------
(* session_task of the current link session. *)

\* The session whose socket may end: the one in use, or one just connected
\* that the supervisor has not swapped in yet.
Newest == IF sup = "swap" THEN gen + 1 ELSE gen

\* Close, end of stream, read error or 15 s of silence: Disconnected is sent to
\* whoever has subscribed.  A session not swapped in yet may have no subscriber:
\* the task runs from the moment connect() spawns it.
LinkDrops ==
    /\ link[Newest] = "up"
    /\ link' = [link EXCEPT ![Newest] = "down"]
    /\ \/ raw' = [raw EXCEPT ![Newest] = "gone"]
       \/ sup = "swap" /\ UNCHANGED raw
    /\ UNCHANGED <<gen, fwdVars, supVars, appVars, lock, pc>>

\* A ping or a message cannot be written: the task ends after fire_disconnect,
\* the callback slot nobody fills here, without a Disconnected event.
WriteFails ==
    /\ link[Newest] = "up"
    /\ link' = [link EXCEPT ![Newest] = "down"]
    /\ UNCHANGED <<gen, raw, fwdVars, supVars, appVars, lock, pc>>

-----------------------------------------------------------------------------
(* run_forwarder. *)

\* First poll: it subscribes to the shutdown watch, whose current value counts
\* as seen.
FwdStart(g) ==
    /\ fwd[g] = "spawned"
    /\ fwd' = [fwd EXCEPT ![g] = "run"]
    /\ late' = IF shutdown THEN late \cup {g} ELSE late
    /\ UNCHANGED <<dead, linkVars, supVars, appVars, lock, pc>>

\* biased select, first branch.
FwdShutdown(g) ==
    /\ fwd[g] = "run"
    /\ shutdown /\ g \notin late
    /\ fwd' = [fwd EXCEPT ![g] = "exit"]
    /\ UNCHANGED <<late, dead, linkVars, supVars, appVars, lock, pc>>

\* Disconnected, or the old session released: notify the mailbox and exit.
StaysRunning == "run"
AfterDeath   == "exit"
FwdDeath(g) ==
    /\ fwd[g] = "run"
    /\ ~(shutdown /\ g \notin late)
    /\ raw[g] # "quiet"
    /\ raw' = [raw EXCEPT ![g] = "quiet"]
    /\ dead' = Append(dead, g)
    /\ fwd' = [fwd EXCEPT ![g] = AfterDeath]
    /\ UNCHANGED <<gen, link, late, supVars, appVars, lock, pc>>

-----------------------------------------------------------------------------
(* run_supervisor. *)

\* A dead notice: give up when auto_reconnect is off, else take the old
\* session's ticket and reconnect.
OnDead ==
    /\ sup = "wait"
    /\ dead # <<>>
    /\ dead' = Tail(dead)
    /\ IF ~auto
       THEN /\ state' = "Disconnected"
            /\ sup' = "stopped"
            /\ UNCHANGED nonce
       ELSE /\ state' = "Reconnecting"
            /\ sup' = "connect"
            /\ nonce' \in {0, gen}        \* the server may have issued none
    /\ UNCHANGED <<fwd, late, presented, fails, todo, tries, lost, linkVars, appVars,
                   lock, pc>>

\* pending_nonce.take(): the ticket rides on the first attempt only.
NonceKept    == nonce
NonceTaken   == 0
\* The RoomJoin of an attempt that got that far carries the ticket.
Present ==
    presented' = IF nonce = 0 THEN presented ELSE [presented EXCEPT ![nonce] = @ + 1]

ConnectOk ==
    /\ sup = "connect"
    /\ gen < MaxGen
    /\ Present
    /\ nonce' = NonceTaken
    /\ link' = [link EXCEPT ![gen + 1] = "up"]
    /\ sup' = "swap"
    /\ UNCHANGED <<gen, raw, fwdVars, state, fails, todo, tries, lost, appVars, lock, pc>>

\* A retryable failure, before or after the RoomJoin was sent: back off.
ConnectRetry ==
    /\ sup = "connect"
    /\ fails < MaxFail
    /\ fails' = fails + 1
    /\ Present \/ UNCHANGED presented
    /\ nonce' = NonceTaken
    /\ sup' = "backoff"
    /\ UNCHANGED <<state, todo, tries, lost, linkVars, fwdVars, appVars, lock, pc>>

\* The auth family: Failed, the loop returns.
ConnectRefused ==
    /\ sup = "connect"
    /\ Present
    /\ nonce' = NonceTaken
    /\ state' = "Failed"
    /\ sup' = "stopped"
    /\ UNCHANGED <<fails, todo, tries, lost, linkVars, fwdVars, appVars, lock, pc>>

\* The sleep ends and the inner loop tries again, without a limit.
GoesIdle     == "wait"
AfterBackoff == "connect"
Backoff ==
    /\ sup = "backoff"
    /\ ~shutdown
    /\ sup' = AfterBackoff
    /\ UNCHANGED <<state, nonce, presented, fails, todo, tries, lost, linkVars, fwdVars,
                   appVars, lock, pc>>

\* The new stream is subscribed, the session swapped in (the old one is dropped,
\* which closes its stream) and its forwarder spawned.
Swap ==
    /\ sup = "swap"
    /\ gen' = gen + 1
    /\ raw' = [raw EXCEPT ![gen] = "closed"]
    /\ fwd' = [fwd EXCEPT ![gen + 1] = "spawned"]
    /\ sup' = "lock"
    /\ lost' = {}
    /\ UNCHANGED <<link, late, dead, state, nonce, presented, fails, todo, tries, appVars,
                   lock, pc>>

\* replay_consumers waits for consume_lock, then copies the slots; withdrawn
\* ones (is_dead) are skipped.
LockShared == TRUE
LockFree   == lock = "free"
ReplayStart ==
    /\ sup = "lock"
    /\ LockFree
    /\ lock' = "sup"
    /\ todo' = {s \in Slots : path[s] = "open"}
    /\ tries' = 0
    /\ sup' = "replay"
    /\ UNCHANGED <<state, nonce, presented, fails, lost, linkVars, fwdVars, appVars, pc>>

ReplaySkip(s) ==
    /\ sup = "replay"
    /\ s \in todo
    /\ path[s] = "withdrawn"
    /\ todo' = todo \ {s}
    /\ tries' = 0
    /\ UNCHANGED <<sup, state, nonce, presented, fails, lost, linkVars, fwdVars, appVars,
                   lock, pc>>

\* One attempt of consume_sequence for a slot that has succeeded ...
ReplayOk(s) ==
    /\ sup = "replay"
    /\ s \in todo
    /\ link[gen] = "up"
    /\ pc' = [pc EXCEPT ![s] = gen]
    /\ todo' = todo \ {s}
    /\ tries' = 0
    /\ UNCHANGED <<sup, state, nonce, presented, fails, lost, linkVars, fwdVars, appVars,
                   lock>>

\* ... or failed: REPLAY_ATTEMPTS failures abandon the path.
AttemptsLeft == tries + 1 < REPLAY_ATTEMPTS
ReplayFail(s) ==
    /\ sup = "replay"
    /\ s \in todo
    /\ IF AttemptsLeft
       THEN /\ tries' = tries + 1
            /\ UNCHANGED <<todo, lost>>
       ELSE /\ tries' = 0
            /\ todo' = todo \ {s}
            /\ lost' = lost \cup {s}
    /\ UNCHANGED <<sup, state, nonce, presented, fails, linkVars, fwdVars, appVars, lock, pc>>

ReplayDone ==
    /\ sup = "replay"
    /\ todo = {}
    /\ lock' = "free"
    /\ state' = "Connected"
    /\ sup' = "drain"
    /\ UNCHANGED <<nonce, presented, fails, todo, tries, lost, linkVars, fwdVars, appVars, pc>>

\* A gap between two attempts sees the shutdown before the abort lands: the
\* replay returns and the loop goes on as after a complete one.
ReplayCut ==
    /\ sup = "replay"
    /\ shutdown
    /\ tries > 0
    /\ lock' = "free"
    /\ state' = "Connected"
    /\ sup' = "drain"
    /\ UNCHANGED <<nonce, presented, fails, todo, tries, lost, linkVars, fwdVars, appVars, pc>>

\* while dead_rx.try_recv().is_ok() {}
Drain ==
    /\ sup = "drain"
    /\ dead' = <<>>
    /\ sup' = "wait"
    /\ UNCHANGED <<fwd, late, state, nonce, presented, fails, todo, tries, lost, linkVars,
                   appVars, lock, pc>>

\* abort(), or a select's shutdown branch, at an await of the supervisor.  What
\* the task holds goes with it: the consume_lock guard, or a new session that
\* waited for the swap.
SupStop ==
    /\ shutdown
    /\ sup \notin {"drain", "stopped"}
    /\ sup' = "stopped"
    /\ lock' = IF lock = "sup" THEN "free" ELSE lock
    /\ link' = IF sup = "swap" THEN [link EXCEPT ![gen + 1] = "down"] ELSE link
    /\ UNCHANGED <<gen, raw, state, nonce, presented, fails, todo, tries, lost, fwdVars,
                   appVars, pc>>

-----------------------------------------------------------------------------
(* The application: RoomSession. *)

\* consume: takes consume_lock and starts the sequence on the current session.
Consume(s) ==
    /\ ~shutdown
    /\ LockFree
    /\ path[s] = "unused"
    /\ lock' = "app"
    /\ path' = [path EXCEPT ![s] = "asking"]
    /\ pc' = [pc EXCEPT ![s] = gen]
    /\ UNCHANGED <<auto, shutdown, linkVars, fwdVars, supVars>>

\* The last reply has come, all of them from the session it started on.
ConsumeAnswered(s) ==
    /\ path[s] = "asking"
    /\ pc[s] = gen
    /\ link[gen] = "up"
    /\ path' = [path EXCEPT ![s] = "wrapup"]
    /\ UNCHANGED <<auto, shutdown, linkVars, fwdVars, supVars, lock, pc>>

\* A Disconnected event, an error or a timeout ends the sequence.
ConsumeFails(s) ==
    /\ path[s] \in {"asking", "wrapup"}
    /\ path' = [path EXCEPT ![s] = "unused"]
    /\ lock' = "free"
    /\ UNCHANGED <<auto, shutdown, linkVars, fwdVars, supVars, pc>>

\* SDP, answer and the connect message; the slot is registered under the lock.
ConsumeDone(s) ==
    /\ path[s] = "wrapup"
    /\ path' = [path EXCEPT ![s] = "open"]
    /\ lock' = "free"
    /\ UNCHANGED <<auto, shutdown, linkVars, fwdVars, supVars, pc>>

\* The Consumer is closed: its receiver goes, the slot is dead.
Withdraw(s) ==
    /\ path[s] = "open"
    /\ path' = [path EXCEPT ![s] = "withdrawn"]
    /\ UNCHANGED <<auto, shutdown, linkVars, fwdVars, supVars, lock, pc>>

set_auto_reconnect ==
    /\ ~shutdown
    /\ auto' = ~auto
    /\ UNCHANGED <<shutdown, path, linkVars, fwdVars, supVars, lock, pc>>

\* close(): shutdown, then the session in LinkSignal is taken and ended.
Close ==
    /\ ~shutdown
    /\ \A s \in Slots : path[s] \notin {"asking", "wrapup"}
    /\ shutdown' = TRUE
    /\ link' = [link EXCEPT ![gen] = "down"]
    /\ raw' = [raw EXCEPT ![gen] = "closed"]
    /\ UNCHANGED <<gen, auto, path, fwdVars, supVars, lock, pc>>

\* Drop: shutdown only; the session goes with the last Arc of the context.
DropSession ==
    /\ ~shutdown
    /\ \A s \in Slots : path[s] \notin {"asking", "wrapup"}
    /\ shutdown' = TRUE
    /\ UNCHANGED <<auto, path, linkVars, fwdVars, supVars, lock, pc>>

\* The context is held by the application, the supervisor and the forwarders.
CtxFreed ==
    /\ shutdown
    /\ sup = "stopped"
    /\ \A g \in Gens : fwd[g] \in {"none", "exit"}
    /\ link[gen] = "up"
    /\ link' = [link EXCEPT ![gen] = "down"]
    /\ UNCHANGED <<gen, raw, fwdVars, supVars, appVars, lock, pc>>

-----------------------------------------------------------------------------

SupStep ==
    \/ OnDead \/ ConnectOk \/ ConnectRetry \/ ConnectRefused \/ Backoff \/ Swap
    \/ ReplayStart \/ ReplayDone \/ ReplayCut \/ Drain \/ SupStop
    \/ \E s \in Slots : ReplaySkip(s) \/ ReplayOk(s) \/ ReplayFail(s)

FwdStep(g) == FwdStart(g) \/ FwdShutdown(g) \/ FwdDeath(g)

\* What consume() does by itself once it was called.
ConsumeStep == \E s \in Slots : ConsumeAnswered(s) \/ ConsumeFails(s) \/ ConsumeDone(s)

Next ==
    \/ LinkDrops \/ WriteFails
    \/ \E g \in Gens : FwdStep(g)
    \/ SupStep
    \/ ConsumeStep
    \/ \E s \in Slots : Consume(s) \/ Withdraw(s)
    \/ set_auto_reconnect \/ Close \/ DropSession \/ CtxFreed

Spec == Init /\ [][Next]_vars

\* tokio polls every task that is ready; a wait for a reply ends with it or with
\* RESPONSE_WAIT; consume_lock is a FIFO mutex, so an application that keeps
\* consuming cannot starve the replay; the last Arc dropped frees the context.
FairSpec ==
    /\ Spec
    /\ WF_vars(SupStep)
    /\ SF_vars(ReplayStart)
    /\ \A g \in Gens : WF_vars(FwdStep(g))
    /\ WF_vars(ConsumeStep)
    /\ WF_vars(CtxFreed)

-----------------------------------------------------------------------------

\* One-shot ticket (a2): the ticket of a session is carried by at most one
\* RoomJoin, however often the attempts fail and wherever they fail.
TicketPresentedOnce == \A g \in Gens : presented[g] <= 1

\* The supervisor leaves a session only when that session is dead: no echo of
\* an older generation ever tears down a working link.
OnlyDeadLinksReplaced ==
    sup \in {"connect", "backoff", "swap"} => link[gen] = "down"

\* A notice in the mailbox is always about the session in use: there are no
\* echoes of an old generation for the drain to remove.
NoticesAreCurrent == \A i \in DOMAIN dead : dead[i] = gen

\* "the replay swaps in a new pc": whenever the session serves again, every open
\* path is on the current generation or was given up by this replay, also when
\* the application was in the middle of a consume while the link was replaced.
PathsFollowSession ==
    sup \in {"drain", "wait"} /\ link[gen] = "up" /\ ~shutdown =>
        \A s \in Slots : path[s] = "open" => pc[s] = gen \/ s \in lost

\* The application is not left in Reconnecting: the chain ends by serving again,
\* by a refusal or by the shutdown, whatever fails on the way and however the
\* replay and the application compete for consume_lock.
ReconnectEnds ==
    state = "Reconnecting" ~> (state # "Reconnecting" \/ shutdown)

-----------------------------------------------------------------------------
(* The inductive strengthening of the two invariants on dead notices and of    *)
(* TicketPresentedOnce.                                                        *)

Replacing == {"connect", "backoff", "swap"}

\* Older forwarders have exited, later ones are not spawned; what ends a stream
\* is the death of its session.
ForwarderInv ==
    /\ Newest \in Gens
    /\ \A g \in Gens : (g < gen => fwd[g] = "exit") /\ (g > gen => fwd[g] = "none")
    /\ \A g \in {gen, Newest} : raw[g] # "quiet" => link[g] = "down"
    /\ sup # "stopped" => \A g \in Gens : g > Newest => raw[g] = "quiet"

\* At most one notice is under way, and none while its session is replaced.
MailboxInv ==
    /\ dead # <<>> => dead = <<gen>> /\ fwd[gen] = "exit" /\ link[gen] = "down"
    /\ sup \in Replacing => dead = <<>> /\ fwd[gen] = "exit" /\ link[gen] = "down"

\* The ticket of the session in use is presented only by the attempt that holds it.
NonceInv ==
    /\ \A g \in Gens : presented[g] <= 1 /\ (g > gen => presented[g] = 0)
    /\ sup \in {"wait", "lock", "replay", "drain"} => presented[gen] = 0
    /\ sup = "connect" /\ nonce # 0 => nonce = gen /\ presented[gen] = 0
    /\ sup \in {"backoff", "swap"} => nonce = 0

IInv == TypeOK /\ ForwarderInv /\ MailboxInv /\ NonceInv

-----------------------------------------------------------------------------
(* What comments say, which the code does not keep. *)

\* "a read error = dead connection (same fact as the Close/None arms) - emitting
\* only Error without Disconnected left RST-style drops permanently silent
\* downstream": a dead session in use is never silent.
DeadLinkReported ==
    link[gen] = "down" /\ fwd[gen] = "run" => raw[gen] # "quiet"

\* "drain stale dead notices in the same window (echoes of the old generation
\* during replay)": the drain never swallows the notice of the session in use.
DeathSurvivesDrain ==
    sup = "wait" /\ fwd[gen] = "exit" /\ ~shutdown => dead # <<>>

=============================================================================
