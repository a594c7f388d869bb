------------------------------ MODULE Weaknet ------------------------------
(***************************************************************************)
(* The impairment tool `weaknet` (crates/mediaservo-weaknet): independent  *)
(* processes that share one network interface and one state directory.     *)
(*                                                                         *)
(* `apply` installs a qdisc, then records it in state.json with an expiry, *)
(* then spawns a watchdog process; the impairment is to disappear by       *)
(* itself through two fuses, the watchdog and the lazy sweep that other    *)
(* commands (and the `serve` ticker) do when they find the record expired. *)
(* Writers take a pid lock file; clear, status and the watchdog do not.    *)
(* Any process can be killed between any two steps.                        *)
(*                                                                         *)
(* An action is one step between two points where another process can      *)
(* act: a system call on a shared file, or one run of tc.                  *)
(***************************************************************************)
EXTENDS Integers, FiniteSets

CONSTANTS Procs,        \* command-line processes, one command each
          Serve,        \* the `weaknet serve` process and its expiry ticker
          Cmds,         \* the commands the processes may run
          Duration,     \* the duration of an apply, in clock ticks
          MaxCrash,     \* bound: how many processes may be killed
          NoOne         \* absence of a file, of an owner, of a qdisc

Dog(p) == <<p, "watchdog">>
Dogs == {Dog(p) : p \in Procs}
Commands == Procs \cup {Serve}
Actors == Commands \cup Dogs

\* Processes are told apart from each other and from their absence, and an
\* apply lasts at least one tick (spec::validate_duration).
ASSUME ConstantsOK ==
    /\ Serve \notin Procs
    /\ NoOne \notin Actors
    /\ Commands \cap Dogs = {}
    /\ Cmds \subseteq {"apply", "set", "status", "clear", "check"}
    /\ Duration \in Nat \ {0}
    /\ MaxCrash \in Nat

VARIABLES lock,     \* who created the file now at <statedir>/lock
          inked,    \* who has written "pid starttime" into the file it created
          state,    \* state.json
          kernel,   \* whose qdisc is installed on the interface
          pidfile,  \* the watchdog that watchdog.pid names
          pc,       \* the next step of every process
          cmd,      \* the command a process runs
          tried,    \* who has already reaped a stale lock in this attempt
          seen,     \* the state.json a process has read
          crashes,  \* number of processes killed
          lapse,    \* history: the ways an impairment has lost its record
          stolen    \* history: a live process's lock file has been reaped

files == <<lock, inked, state, kernel, pidfile>>
local == <<pc, cmd, tried, seen>>
history == <<lapse, stolen>>
vars == <<files, local, crashes, history>>

\* What the code keeps of a site: who recorded it, and the ticks left until
\* expires_at_ms (0: now == expires_at_ms, -1: later).
NoState == [by |-> NoOne, left |-> -1]
States == [by : Commands, left : -1 .. Duration] \cup {NoState}

Steps == {"idle", "create", "ink", "check", "reap", "release",
          "heal", "kill", "unpid", "read", "down", "rm",
          "prior", "guard", "install", "write",
          "rekill", "reunpid", "spawn", "pidwrite",
          "crossread", "show", "boot", "sleep", "done", "dead"}

\* A watchdog only waits and sweeps.
DogSteps == {"idle", "boot", "sleep", "read", "down", "rm", "done", "dead"}

Lapses == {"killed", "blind", "unrolled", "unwritten", "rollback", "teardown",
           "crosscheck"}

TypeOK ==
    /\ lock \in Commands \cup {NoOne}
    /\ inked \subseteq Commands
    /\ state \in States
    /\ kernel \in Commands \cup {NoOne}
    /\ pidfile \in Dogs \cup {NoOne}
    /\ pc \in [Actors -> Steps]
    /\ cmd \in [Actors -> Cmds \cup {"tick", "watchdog", "none"}]
    /\ \A d \in Dogs : pc[d] \in DogSteps /\ cmd[d] = "watchdog"
    /\ tried \subseteq Commands
    /\ seen \in [Actors -> States]
    /\ crashes \in 0 .. MaxCrash
    /\ lapse \subseteq Lapses
    /\ stolen \in BOOLEAN

Init ==
    /\ lock = NoOne
    /\ inked = {}
    /\ state = NoState
    /\ kernel = NoOne
    /\ pidfile = NoOne
    /\ pc = [a \in Actors |-> "idle"]
    /\ cmd = [a \in Actors |-> IF a = Serve THEN "tick"
                               ELSE IF a \in Dogs THEN "watchdog" ELSE "none"]
    /\ tried = {}
    /\ seen = [a \in Actors |-> NoState]
    /\ crashes = 0
    /\ lapse = {}
    /\ stolen = FALSE

----------------------------------------------------------------------------
\* Bookkeeping of a step

Alive(a) == pc[a] \notin {"done", "dead"}

Goto(a, step) == pc' = [pc EXCEPT ![a] = step]

\* A command returns; the ticker of serve sleeps until its next round.
ExitStep(a) == IF a = Serve THEN "idle" ELSE "done"

\* Where dispatch (CLI) or the ticker of serve enters a command.
EntryStep(c) == CASE c \in {"apply", "set", "tick"} -> "create"
                  [] c = "status" -> "heal"
                  [] c = "clear"  -> "kill"
                  [] c = "check"  -> "crossread"

\* What follows autoheal_if_expired.
HealedStep(a) == CASE cmd[a] = "set"  -> "prior"
                   [] cmd[a] = "tick" -> "release"
                   [] OTHER           -> ExitStep(a)

Start(p, c) ==
    /\ pc[p] = "idle"
    /\ cmd' = [cmd EXCEPT ![p] = c]
    /\ Goto(p, EntryStep(c))
    /\ UNCHANGED <<files, tried, seen, crashes, history>>

\* The ticker of serve wakes up.
Wake ==
    /\ pc[Serve] = "idle"
    /\ Goto(Serve, EntryStep("tick"))
    /\ UNCHANGED <<files, cmd, tried, seen, crashes, history>>

----------------------------------------------------------------------------
\* state::acquire_write_lock and WriteLock::drop

\* Mutant: the lock file opened with create instead of create_new.
CreateShared(a) ==
    /\ pc[a] = "create"
    /\ lock' = a
    /\ inked' = inked \ {a}
    /\ Goto(a, "ink")
    /\ UNCHANGED <<state, kernel, pidfile, cmd, tried, seen, crashes, history>>

\* create_new on the lock path.
Create(a) ==
    /\ pc[a] = "create"
    /\ IF lock = NoOne
       THEN /\ lock' = a
            /\ inked' = inked \ {a}
            /\ Goto(a, "ink")
       ELSE /\ Goto(a, "check")
            /\ UNCHANGED <<lock, inked>>
    /\ UNCHANGED <<state, kernel, pidfile, cmd, tried, seen, crashes, history>>

\* The owner's pid and start time, written through the open descriptor.
Ink(a) ==
    /\ pc[a] = "ink"
    /\ inked' = inked \cup {a}
    /\ tried' = tried \ {a}
    /\ Goto(a, IF cmd[a] = "apply" THEN "guard" ELSE "heal")
    /\ UNCHANGED <<lock, state, kernel, pidfile, cmd, seen, crashes, history>>

\* holder_alive: a file without an owner counts as held; a dead owner does not.
HolderDead == lock # NoOne /\ lock \in inked /\ ~Alive(lock)

\* The file exists: busy, or unreadable because it has just been removed, ends
\* the command; a dead owner's file is to be reaped.
Check(a) ==
    /\ pc[a] = "check"
    /\ Goto(a, IF HolderDead THEN "reap" ELSE ExitStep(a))
    /\ tried' = IF HolderDead THEN tried ELSE tried \ {a}
    /\ UNCHANGED <<files, cmd, seen, crashes, history>>

\* remove_file on the path, whatever file is there by now; retry once.
Reap(a) ==
    /\ pc[a] = "reap"
    /\ lock' = NoOne
    /\ stolen' = (stolen \/ (lock # NoOne /\ Alive(lock)))
    /\ IF lock = NoOne \/ a \in tried
       THEN Goto(a, ExitStep(a)) /\ tried' = tried \ {a}
       ELSE Goto(a, "create") /\ tried' = tried \cup {a}
    /\ UNCHANGED <<inked, state, kernel, pidfile, cmd, seen, crashes, lapse>>

\* WriteLock::drop removes the path, whoever's file is there.
Release(a) ==
    /\ pc[a] = "release"
    /\ lock' = NoOne
    /\ Goto(a, ExitStep(a))
    /\ UNCHANGED <<inked, state, kernel, pidfile, cmd, tried, seen, crashes, history>>

----------------------------------------------------------------------------
\* Sweeping a site: autoheal_if_expired, clear and watchdog_expire share
\* fuse::kill_watchdog, engine::run_teardown and the removal of state.json

\* Mutant: the ticks left read as an unsigned number.
NeverExpired(s) == s # NoState /\ s.left < -1

\* Strictly later than expires_at_ms.
is_expired(s) == s # NoState /\ s.left < 0

\* autoheal_if_expired reads the record; nothing expired, nothing to do.
AutoHeal(a) ==
    /\ pc[a] = "heal"
    /\ Goto(a, IF is_expired(state) THEN "kill" ELSE HealedStep(a))
    /\ seen' = IF is_expired(state) THEN [seen EXCEPT ![a] = state] ELSE seen
    /\ UNCHANGED <<files, cmd, tried, crashes, history>>

\* What follows fuse::kill_watchdog in its three callers: clear reads the
\* record, the lazy sweep tears down, apply spawns its own watchdog.
AfterKill(a, step) == IF step \in {"rekill", "reunpid"} THEN "spawn"
                      ELSE IF cmd[a] = "clear" THEN "read" ELSE "down"

\* kill_watchdog: TERM to the process the pid file names, if that process
\* still is the one recorded.
KillWatchdog(a) ==
    /\ pc[a] \in {"kill", "rekill"}
    /\ pc' = [x \in Actors |->
                IF x = a THEN (IF pidfile = NoOne THEN AfterKill(a, pc[a])
                               ELSE IF pc[a] = "kill" THEN "unpid" ELSE "reunpid")
                ELSE IF x = pidfile /\ Alive(x) THEN "dead" ELSE pc[x]]
    /\ UNCHANGED <<files, cmd, tried, seen, crashes, history>>

\* kill_watchdog ends by removing the pid file.
ClearPidfile(a) ==
    /\ pc[a] \in {"unpid", "reunpid"}
    /\ pidfile' = NoOne
    /\ Goto(a, AfterKill(a, pc[a]))
    /\ UNCHANGED <<lock, inked, state, kernel, cmd, tried, seen, crashes, history>>

\* clear reads the record; if the channel to tc does not answer it gives up
\* here, the watchdog killed already.
ClearReads(a) ==
    /\ pc[a] = "read"
    /\ cmd[a] = "clear"
    /\ seen' = [seen EXCEPT ![a] = state]
    /\ \E step \in {"down", ExitStep(a)} : Goto(a, step)
    /\ UNCHANGED <<files, cmd, tried, crashes, history>>

\* run_teardown, or without a record clear's removal of the root qdisc: it
\* removes what is installed now. A failure is only a warning.
Teardown(a) ==
    /\ pc[a] = "down"
    /\ \/ kernel' = NoOne /\ lapse' = lapse
       \/ kernel # NoOne /\ kernel' = kernel /\ lapse' = lapse \cup {"teardown"}
    /\ Goto(a, "rm")
    /\ UNCHANGED <<lock, inked, state, pidfile, cmd, tried, seen, crashes, stolen>>

\* A removal of state.json that hits a record the remover has not read.
Blind(a) == state.by \notin {NoOne, seen[a].by}

\* state.json is removed, whichever record it holds by now.
RemoveState(a) ==
    /\ pc[a] = "rm"
    /\ state' = NoState
    /\ lapse' = lapse \cup (IF Blind(a) THEN {"blind"} ELSE {})
                      \cup (IF cmd[a] = "check" THEN {"crosscheck"} ELSE {})
    /\ Goto(a, HealedStep(a))
    /\ UNCHANGED <<lock, inked, kernel, pidfile, cmd, tried, seen, crashes, stolen>>

\* serve's startup_cross_check reads the record ...
CrossReads(a) ==
    /\ pc[a] = "crossread"
    /\ seen' = [seen EXCEPT ![a] = state]
    /\ Goto(a, IF state = NoState THEN ExitStep(a) ELSE "show")
    /\ UNCHANGED <<files, cmd, tried, crashes, history>>

\* ... and drops it if the installed qdisc is not the recorded one (an
\* unreadable tc keeps it).
CrossShows(a) ==
    /\ pc[a] = "show"
    /\ \/ kernel # seen[a].by /\ Goto(a, "rm")
       \/ Goto(a, ExitStep(a))
    /\ UNCHANGED <<files, cmd, tried, seen, crashes, history>>

----------------------------------------------------------------------------
\* engine::replay, for apply and set, under the write lock

\* do_set reads the record it starts from; without one there is no site.
ReadPrior(a) ==
    /\ pc[a] = "prior"
    /\ seen' = [seen EXCEPT ![a] = state]
    /\ Goto(a, IF state = NoState THEN "release" ELSE "guard")
    /\ UNCHANGED <<files, cmd, tried, crashes, history>>

\* guard_foreign_root: a root qdisc that no record explains is not ours.
guard_foreign_root == kernel = NoOne \/ state # NoState

\* The guard and the probes before it pass, or the command gives up.
Guard(a) ==
    /\ pc[a] = "guard"
    /\ \/ guard_foreign_root /\ Goto(a, "install")
       \/ Goto(a, "release")
    /\ UNCHANGED <<files, cmd, tried, seen, crashes, history>>

\* run_steps: the whole skeleton is rebuilt.
Install(a) ==
    /\ pc[a] = "install"
    /\ kernel' = a
    /\ Goto(a, "write")
    /\ UNCHANGED <<lock, inked, state, pidfile, cmd, tried, seen, crashes, history>>

\* Mutant: a failed apply returns without its roll-back.
NoRollBack(a) ==
    /\ kernel' = IF pc[a] = "write" THEN a ELSE kernel
    /\ lapse' = lapse

\* A step of run_steps, the read-back or the verification fails. Apply rolls
\* the root back, unless that fails as well or tc cannot be read back at all;
\* set leaves what it has installed.
RollBack(a) ==
    \/ kernel' = NoOne /\ lapse' = lapse
    \/ kernel' = a /\ lapse' = lapse \cup {"rollback"}

LeaveInstalled(a) ==
    \/ pc[a] = "install" /\ kernel' = kernel /\ lapse' = lapse
    \/ kernel' = a /\ lapse' = lapse \cup {"unrolled"}

ReplayFails(a) ==
    /\ pc[a] \in {"install", "write"}
    /\ IF cmd[a] = "apply" THEN RollBack(a) ELSE LeaveInstalled(a)
    /\ Goto(a, "release")
    /\ UNCHANGED <<lock, inked, state, pidfile, cmd, tried, seen, crashes, stolen>>

\* The expiry of the record: new for apply, the prior one for set.
ExpiryOf(a) == IF cmd[a] = "apply" THEN Duration ELSE seen[a].left

\* State::write_to, atomic. Apply goes on to the watchdog unless its timeline
\* entry fails; set keeps the watchdog there is.
WriteState(a) ==
    /\ pc[a] = "write"
    /\ state' = [by |-> a, left |-> ExpiryOf(a)]
    /\ \/ cmd[a] = "apply" /\ Goto(a, "rekill")
       \/ Goto(a, "release")
    /\ UNCHANGED <<lock, inked, kernel, pidfile, cmd, tried, seen, crashes, history>>

\* State::write_to fails: the command ends without a roll-back.
WriteFails(a) ==
    /\ pc[a] = "write"
    /\ lapse' = lapse \cup {"unwritten"}
    /\ Goto(a, "release")
    /\ UNCHANGED <<files, cmd, tried, seen, crashes, stolen>>

\* spawn_watchdog: the child runs at once, before the pid file names it.
Spawn(a) ==
    /\ pc[a] = "spawn"
    /\ \/ pc' = [pc EXCEPT ![a] = "pidwrite", ![Dog(a)] = "boot"]
       \/ Goto(a, "release")
    /\ UNCHANGED <<files, cmd, tried, seen, crashes, history>>

\* write_pidfile; a failure is only a warning and leaves the child unnamed.
WritePidfile(a) ==
    /\ pc[a] = "pidwrite"
    /\ pidfile' \in {pidfile, Dog(a)}
    /\ Goto(a, "release")
    /\ UNCHANGED <<lock, inked, state, kernel, cmd, tried, seen, crashes, history>>

----------------------------------------------------------------------------
\* The watchdog process

\* watchdog_run reads the expiry once; without a record it has nothing to guard.
DogBoots(d) ==
    /\ pc[d] = "boot"
    /\ seen' = [seen EXCEPT ![d] = state]
    /\ Goto(d, IF state = NoState THEN "done" ELSE "sleep")
    /\ UNCHANGED <<files, cmd, tried, crashes, history>>

\* The deadline it read has come.
DogWakes(d) ==
    /\ pc[d] = "sleep"
    /\ seen[d].left <= 0
    /\ Goto(d, "read")
    /\ UNCHANGED <<files, cmd, tried, seen, crashes, history>>

\* watchdog_expire reads the record anew, and sweeps the site it names
\* without looking at its expiry.
DogReads(d) ==
    /\ pc[d] = "read"
    /\ cmd[d] = "watchdog"
    /\ seen' = [seen EXCEPT ![d] = state]
    /\ Goto(d, IF state = NoState THEN "done" ELSE "down")
    /\ UNCHANGED <<files, cmd, tried, crashes, history>>

----------------------------------------------------------------------------
\* The environment

Aged(s) == IF s = NoState \/ s.left < 0 THEN s ELSE [s EXCEPT !.left = @ - 1]

\* Time passes for the record and for every copy of it.
Tick ==
    /\ \E s \in {state} \cup {seen[a] : a \in Actors} : Aged(s) # s
    /\ state' = Aged(state)
    /\ seen' = [a \in Actors |-> Aged(seen[a])]
    /\ UNCHANGED <<lock, inked, kernel, pidfile, pc, cmd, tried, crashes, history>>

\* SIGKILL, the OOM killer or a power cut of one process. In the middle of
\* run_steps it leaves a partial installation.
Crash(a) ==
    /\ crashes < MaxCrash
    /\ Alive(a)
    /\ pc[a] # "idle" \/ a = Serve
    /\ crashes' = crashes + 1
    /\ \/ pc[a] # "write" /\ UNCHANGED <<kernel, lapse>>
       \/ pc[a] \in {"install", "write"} /\ kernel' = (IF pc[a] = "install" THEN a ELSE kernel)
          /\ lapse' = lapse \cup {"killed"}
    /\ Goto(a, "dead")
    /\ UNCHANGED <<lock, inked, state, pidfile, cmd, tried, seen, stolen>>

----------------------------------------------------------------------------
LockStep(a) == Create(a) \/ Ink(a) \/ Check(a) \/ Reap(a) \/ Release(a)

SweepStep(a) == KillWatchdog(a) \/ ClearPidfile(a) \/ Teardown(a) \/ RemoveState(a)

ReplayStep(p) ==
    \/ ReadPrior(p) \/ Guard(p) \/ Install(p) \/ ReplayFails(p)
    \/ WriteState(p) \/ WriteFails(p) \/ Spawn(p) \/ WritePidfile(p)

ServeStep == Wake \/ LockStep(Serve) \/ AutoHeal(Serve) \/ SweepStep(Serve)

ProcStep(p) ==
    \/ LockStep(p) \/ AutoHeal(p) \/ SweepStep(p) \/ ClearReads(p)
    \/ CrossReads(p) \/ CrossShows(p) \/ ReplayStep(p)

DogStep(d) == DogBoots(d) \/ DogWakes(d) \/ DogReads(d) \/ Teardown(d) \/ RemoveState(d)

Next ==
    \/ \E p \in Procs, c \in Cmds : Start(p, c)
    \/ \E p \in Procs : ProcStep(p)
    \/ ServeStep
    \/ \E d \in Dogs : DogStep(d)
    \/ Tick
    \/ \E a \in Actors : Crash(a)

Spec == Init /\ [][Next]_vars

\* Time passes, and the operating system schedules every process that runs.
FairSpec ==
    /\ Spec
    /\ WF_vars(Tick)
    /\ WF_vars(ServeStep)
    /\ \A p \in Procs : WF_vars(ProcStep(p))
    /\ \A d \in Dogs : WF_vars(DogStep(d))

----------------------------------------------------------------------------
\* Properties

\* The processes between acquire_write_lock and the drop of the WriteLock.
Holders == {a \in Commands :
              \/ pc[a] \in {"ink", "prior", "guard", "install", "write", "rekill",
                            "reunpid", "spawn", "pidwrite", "release"}
              \/ cmd[a] \in {"set", "tick"} /\ pc[a] \in {"heal", "kill", "unpid", "down", "rm"}}

\* As long as no live process's lock file has been reaped, the file at the
\* lock path is the holder's own, so that there is one holder and its drop
\* frees nobody else's lock.
LockIsHolders == ~stolen => \A a \in Holders : lock = a

\* An impairment that is installed while no record names it, and that no
\* writer is about to record, has lost its record in one of the ways the
\* code knowingly or unknowingly leaves open: a kill between the installation
\* and the record, a failed write, roll-back or teardown, a set that is not
\* rolled back, the start-up cross-check, or a removal of a newer record than
\* the one read.
OrphanHasCause ==
    (kernel # NoOne /\ state = NoState /\ \A a \in Commands : pc[a] # "write")
        => lapse # {}

\* A lock file whose creator died before writing its owner into it.
Wedged == lock # NoOne /\ lock \notin inked /\ ~Alive(lock)

\* A recorded site does not outlive its expiry while serve runs: it is swept
\* by its watchdog, by a command or by the ticker, unless an ownerless lock
\* file keeps the ticker out.
RecordExpires ==
    (state # NoState) ~> (state = NoState \/ Wedged \/ pc[Serve] = "dead")

----------------------------------------------------------------------------
\* What comments say

\* state.rs: the write lock has "create_new atomicity + ... liveness reaping".
MutualExclusion == Cardinality(Holders) <= 1
============================================================================
