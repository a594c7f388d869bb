----------------------------- MODULE HostConfig -----------------------------
(***************************************************************************)
(* How a host instance takes a new etc/host.yaml live: the config core     *)
(* (config_core/mod.rs, ledger.rs), the bells that ring it (the boot pass, *)
(* the file watcher and the push applier of host-agent.rs, the commands of *)
(* bin/host.rs) and the push handler of translate.rs.                      *)
(*                                                                         *)
(* The core runs under a file lock; `host stop`, the push handler's writes *)
(* and the operator's editor do not take it.  oxmgr is external: it holds  *)
(* a registry of entries and restarts the dead process of every entry.  A  *)
(* process gets its arguments from the oxfile its entry was made from and  *)
(* reads host.yaml itself (--config) when it starts, so what it runs is a  *)
(* set of configurations.                                                  *)
(***************************************************************************)
EXTENDS Naturals, FiniteSets

CONSTANTS Configs,    \* contents of host.yaml; the hash of a content is itself
          Invalid,    \* refused by translate::validate (a half-written file is one)
          Keyless,    \* valid, but [control].hmac_key_file is missing
          Tokenless,  \* valid, but a token the roster needs is missing
          Wide,       \* configurations whose roster has one app more
          Rewired,    \* configurations that change the agent's command line
          First,      \* the configuration the instance was installed with
          None,
          MaxEdits,   \* bound: local edits of host.yaml
          MaxPushes,  \* bound: ConfigPush messages of the cloud
          MaxCmds,    \* bound: commands of the operator
          MaxFaults   \* bound: deaths, kills, failing oxmgr calls, lock timeouts

VARIABLES file,       \* etc/host.yaml
          ox,         \* the configuration run/oxfile.toml was rendered from
          led,        \* run/config-state.json
          lock,       \* who holds run/config-core.lock
          entry,      \* entry[a]: configuration of the app's registry entry
          proc,       \* proc[a]: configurations the app's process took up
          agent,      \* "down", "boot", "spawn" or "up"
          ex,         \* ex[e]: the run of the core by executor e
          watch,      \* the watcher's baseline and previous sample
          slot,       \* the gateway's pending ConfigPush
          version,    \* the agent's config_version
          baks,       \* highest version with a host.yaml.bak-<version>
          stop,       \* the `host stop` that runs
          edits, pushes, cmds, faults,
          \* history
          doubled,    \* apps started while an older process of theirs lived
          touched,    \* host.yaml or the oxfile was written past the core since the
                      \* last teardown was verified
          missed      \* why the cluster may lag behind the file

hostVars == <<file, ox, led, lock, entry, proc, agent, ex, watch, slot, version,
              baks, stop, edits, pushes, cmds, faults, doubled, touched, missed>>

Apps == {"agent", "streamer", "capturer"}
Executors == {"push", "local", "cli"}
InAgent == {"push", "local"}

ASSUME HostAssumption ==
  First \in Configs /\ None \notin Configs /\ None \notin Executors

\* to_oxfile_with_paths: the app names of a rendered configuration.
Roster(c) == {"agent", "streamer"} \cup (IF c \in Wide THEN {"capturer"} ELSE {})
\* expected_process_names: the names the same configuration expects to run.
expected_process_names(c) == Roster(c)
\* The agent's entry changes only with its own command line.
SameCommand(a, c, d) == c = d \/ (a = "agent" /\ (c \in Rewired <=> d \in Rewired))

Idle == [pc |-> "idle"]
Registered == {a \in Apps : entry[a] # None}
Alive == {a \in Apps : proc[a] # {}}
NoWatch == [baseline |-> None, prev |-> None]
Empty == [running |-> None, pending |-> None, last |-> None,
          flagPending |-> FALSE, flagError |-> FALSE, conflict |-> FALSE]
\* A run of the core that waits for the lock, for the push of version v.
Ring(force, v) == [pc |-> "lock", force |-> force, v |-> v,
                   hash |-> None, led |-> Empty, todo |-> {}]
Fault == faults < MaxFaults /\ faults' = faults + 1
CliRun(e) == e = "cli"

flags_after_commit(l, hash) ==
  [l EXCEPT !.running = hash, !.pending = None, !.flagPending = FALSE,
            !.flagError = FALSE, !.conflict = l.last \notin {None, hash}]

\* reconcile_mismatch, as the condition that there is none.
reconciles(hash) ==
  /\ ox # None
  /\ Registered = Roster(ox)
  /\ expected_process_names(hash) = Roster(ox)

\* noop_liveness: every expected app is running.
AllRunning(c) ==
  \A a \in expected_process_names(c) : a \in Registered /\ a \in Alive

TypeOK ==
  /\ file \in Configs /\ ox \in Configs \cup {None}
  /\ {led.running, led.pending, led.last} \subseteq Configs \cup {None}
  /\ lock \in Executors \cup {None}
  /\ \A a \in Apps : entry[a] \in Configs \cup {None} /\ proc[a] \subseteq Configs
  /\ agent \in {"down", "boot", "spawn", "up"}
  /\ (agent = "down") = (proc["agent"] = {})

HostInit ==
  /\ file = First /\ ox = First
  /\ led = [Empty EXCEPT !.running = First]
  /\ lock = None
  /\ entry = [a \in Apps |-> IF a \in Roster(First) THEN First ELSE None]
  /\ proc = [a \in Apps |-> IF a \in Roster(First) THEN {First} ELSE {}]
  /\ agent = "up"
  /\ ex = [e \in Executors |-> Idle]
  /\ watch = [baseline |-> First, prev |-> First]
  /\ slot = None /\ version = 0 /\ baks = 0
  /\ stop = Idle
  /\ edits = 0 /\ pushes = 0 /\ cmds = 0 /\ faults = 0
  /\ doubled = {} /\ touched = FALSE /\ missed = {}

(***************************************************************************)
(* Processes and the daemon                                                *)
(***************************************************************************)

\* The registry becomes en, the processes pr and the core's runs x.  An agent
\* process that is new boots; one that is gone takes its tasks, its lock, the
\* push in its slot and its version with it.
Cluster(en, pr, fresh, x) ==
  LET gone == pr["agent"] = {}
  IN /\ entry' = en /\ proc' = pr
     /\ IF gone \/ fresh
        THEN /\ agent' = IF gone THEN "down" ELSE "boot"
             /\ ex' = [x EXCEPT !["push"] = Idle,
                                !["local"] = IF gone THEN Idle ELSE [pc |-> "commit"]]
             /\ lock' = IF lock \in InAgent THEN None ELSE lock
             /\ watch' = NoWatch /\ slot' = None
             /\ version' = IF gone THEN 0 ELSE baks
        ELSE ex' = x /\ UNCHANGED <<agent, lock, watch, slot, version>>

Die(a) ==
  /\ a \in Alive /\ Fault
  /\ Cluster(entry, [proc EXCEPT ![a] = {}], FALSE, ex)
  /\ UNCHANGED <<file, ox, led, baks, stop, edits, pushes, cmds,
                 doubled, touched, missed>>

\* restart_policy = "always".
Revive(a) ==
  /\ a \in Registered \ Alive
  /\ Cluster(entry, [proc EXCEPT ![a] = {entry[a], file}], a = "agent", ex)
  /\ UNCHANGED <<file, ox, led, baks, stop, edits, pushes, cmds, faults,
                 doubled, touched, missed>>

\* A process without an entry ends by itself at last.
CorpseEnds(a) ==
  /\ a \in Alive \ Registered
  /\ Cluster(entry, [proc EXCEPT ![a] = {}], FALSE, ex)
  /\ UNCHANGED <<file, ox, led, baks, stop, edits, pushes, cmds, faults,
                 doubled, touched, missed>>

\* The operator saves host.yaml on the vehicle.
Edit(c) ==
  /\ edits < MaxEdits /\ edits' = edits + 1
  /\ c # file /\ file' = c
  /\ touched' = TRUE
  /\ missed' = (IF agent \in {"boot", "spawn"} THEN {"boot"} ELSE {}) \cup
                (IF c = watch.baseline THEN {"baseline"} ELSE {})
  /\ UNCHANGED <<ox, led, lock, entry, proc, agent, ex, watch, slot, version,
                 baks, stop, pushes, cmds, faults, doubled>>

(***************************************************************************)
(* The core                                                                *)
(***************************************************************************)

Set(e, r) == ex' = [ex EXCEPT ![e] = r]

\* What follows a run of the core: a boot pass lets the agent go on, a push
\* that went live moves the version and is recorded, anything else is over.
Return(e, ok) ==
  /\ lock' = IF lock = e THEN None ELSE lock
  /\ agent' = IF e = "local" /\ agent = "boot" THEN "spawn" ELSE agent
  /\ IF e = "push" /\ ok
     THEN version' = ex[e].v /\ Set(e, [pc |-> "record"])
     ELSE Set(e, Idle) /\ UNCHANGED version
  /\ missed' = IF ok THEN missed ELSE missed \cup {"failed"}

\* CoreLock::acquire, and the in-lock read of host.yaml and the ledger.
Acquire(e) ==
  /\ ex[e].pc = "lock" /\ lock = None
  /\ lock' = e
  /\ Set(e, [ex[e] EXCEPT !.pc = "judge", !.hash = file, !.led = led])
  /\ missed' = {}
  /\ UNCHANGED <<file, ox, led, entry, proc, agent, watch, slot, version, baks,
                 stop, edits, pushes, cmds, faults, doubled, touched>>

LockTimeout(e) ==
  /\ ex[e].pc \in {"lock", "commit"} /\ lock # None /\ Fault
  /\ Return(e, FALSE)
  /\ UNCHANGED <<file, ox, led, entry, proc, watch, slot, baks, stop, edits,
                 pushes, cmds, doubled, touched>>

should_reconcile(force, l, hash, flagPending) ==
  force \/ l.running # hash \/ l.pending \notin {None, hash} \/ flagPending

MustRun(e) ==
  \/ should_reconcile(ex[e].force, ex[e].led, ex[e].hash, FALSE)
  \/ ~AllRunning(ex[e].hash)

\* The fingerprint short-circuit.
JudgeNoOp(e) ==
  /\ ex[e].pc = "judge" /\ ~MustRun(e)
  /\ Return(e, TRUE)
  /\ UNCHANGED <<file, ox, led, entry, proc, watch, slot, baks, stop, edits,
                 pushes, cmds, faults, doubled, touched>>

\* A gate of step 1 refuses, or the registry cannot be read for the teardown.
JudgeRefuse(e) ==
  /\ ex[e].pc = "judge" /\ MustRun(e)
  /\ \/ ex[e].hash \in Invalid \cup Keyless \cup Tokenless /\ UNCHANGED faults
     \/ Fault
  /\ Return(e, FALSE)
  /\ UNCHANGED <<file, ox, led, entry, proc, watch, slot, baks, stop, edits,
                 pushes, cmds, doubled, touched>>

\* Staging is rendered and the teardown list taken from the live registry.  A
\* liveness query that fails counts as not running.
JudgeRun(e) ==
  /\ ex[e].pc = "judge"
  /\ \/ MustRun(e) /\ UNCHANGED faults
     \/ ~MustRun(e) /\ Fault
  /\ ex[e].hash \notin Invalid \cup Keyless \cup Tokenless
  /\ Set(e, [ex[e] EXCEPT !.pc = "tear",
               !.todo = IF CliRun(e) THEN Registered ELSE Registered \ {"agent"}])
  /\ UNCHANGED <<file, ox, led, lock, entry, proc, agent, watch, slot, version,
                 baks, stop, edits, pushes, cmds, doubled, touched, missed>>

\* order_teardown: consumers, producers, the agent last.
rank(a) == CASE a = "agent" -> 3 [] a = "streamer" -> 0 [] a = "capturer" -> 1
order_teardown(T) == {a \in T : \A b \in T : rank(a) <= rank(b)}

\* What `oxmgr stop` and `oxmgr delete` of the apps A leave behind when the
\* calls for the apps F fail: K of them keep their entry, all their process.
Deleted(A, F, K, x) ==
  Cluster([a \in Apps |-> IF a \in A \ K THEN None ELSE entry[a]],
          [a \in Apps |-> IF a \in (A \cap Registered) \ F THEN {} ELSE proc[a]],
          FALSE, x)
Removed(A, x) ==
  \/ Deleted(A, {}, {}, x) /\ UNCHANGED faults
  \/ \E a \in A \cap Registered : \E K \in SUBSET {a} :
       Deleted(A, {a}, K, x) /\ Fault

stop_and_delete(e) ==
  /\ ex[e].pc = "tear"
  /\ \E a \in order_teardown(ex[e].todo) :
       Removed({a}, [ex EXCEPT ![e].todo = @ \ {a}])
  /\ UNCHANGED <<file, ox, led, baks, stop, edits, pushes, cmds,
                 doubled, touched, missed>>

\* Mutant: the gate looks at the registry only.
RegistryClean(e) == Registered \subseteq (IF CliRun(e) THEN {} ELSE {"agent"})

\* gate_clean and stop_survivors: nothing is registered and nothing lives,
\* the executing agent aside.
Clean(e) ==
  LET mine == IF CliRun(e) THEN {} ELSE {"agent"}
  IN Registered \subseteq mine /\ Alive \subseteq mine

\* Mutant: pending_apply is noted but not saved before the activation.
PrepareUnsaved(e) ==
  /\ ex[e].pc = "tear" /\ ex[e].todo = {} /\ Clean(e)
  /\ Set(e, [ex[e] EXCEPT !.pc = "activate", !.led.pending = ex[e].hash])
  /\ touched' = (file # ex[e].hash)
  /\ UNCHANGED <<file, ox, led, lock, entry, proc, agent, watch, slot, version,
                 baks, stop, edits, pushes, cmds, faults, doubled, missed>>

\* The teardown gate holds: pending_apply is written before the activation.
Prepare(e) ==
  /\ ex[e].pc = "tear" /\ ex[e].todo = {} /\ Clean(e)
  /\ led' = [ex[e].led EXCEPT !.pending = ex[e].hash]
  /\ Set(e, [ex[e] EXCEPT !.pc = "activate", !.led = led'])
  /\ touched' = (file # ex[e].hash)
  /\ UNCHANGED <<file, ox, lock, entry, proc, agent, watch, slot, version, baks,
                 stop, edits, pushes, cmds, faults, doubled, missed>>

\* The gate is not clean for 15 s, or the registry cannot be read.
Residue(e) ==
  /\ ex[e].pc = "tear" /\ ex[e].todo = {}
  /\ \/ ~Clean(e) /\ UNCHANGED faults
     \/ Clean(e) /\ Fault
  /\ led' = [ex[e].led EXCEPT !.flagPending = TRUE]
  /\ Return(e, FALSE)
  /\ UNCHANGED <<file, ox, entry, proc, watch, slot, baks, stop, edits,
                 pushes, cmds, doubled, touched>>

\* The staged oxfile becomes run/oxfile.toml.
Activate(e) ==
  /\ ex[e].pc = "activate"
  /\ ox' = ex[e].hash
  /\ Set(e, [ex[e] EXCEPT !.pc = "apply"])
  /\ UNCHANGED <<file, led, lock, entry, proc, agent, watch, slot, version, baks,
                 stop, edits, pushes, cmds, faults, doubled, touched, missed>>

\* `oxmgr apply` brings the apps S of the oxfile up: a new app is started, a
\* changed one recreated, the rest left alone; entries outside keep go.
Applied(S, keep, x) ==
  LET New == {a \in S : entry[a] = None \/ ~SameCommand(a, entry[a], ox)}
  IN /\ doubled' = doubled \cup {a \in New : entry[a] = None /\ proc[a] # {}}
     /\ Cluster([a \in Apps |-> IF a \in S THEN ox
                                ELSE IF a \in keep THEN entry[a] ELSE None],
                [a \in Apps |-> IF a \in New THEN {ox, file}
                                ELSE IF a \in S \cup keep \/ entry[a] = None
                                     THEN proc[a] ELSE {}],
                "agent" \in New, x)

\* oxmgr_apply.  A recreated agent ends the run of the core that it executes,
\* and the oxmgr client with it perhaps before the other apps are up.
Apply(e) ==
  /\ ex[e].pc = "apply"
  /\ \/ Applied(Roster(ox), {}, [ex EXCEPT ![e].pc = "reconcile"])
     \/ /\ e \in InAgent /\ ~SameCommand("agent", entry["agent"], ox)
        /\ Applied({"agent"}, Apps, ex)
  /\ UNCHANGED <<file, ox, led, baks, stop, edits, pushes, cmds, faults,
                 touched, missed>>

\* The apply fails after it has brought some apps other than the agent up.
ApplyFails(e) ==
  /\ ex[e].pc = "apply" /\ Fault
  /\ \E S \in SUBSET (Roster(ox) \ {"agent"}) : Applied(S, Apps, [ex EXCEPT ![e].pc = "failed"])
  /\ UNCHANGED <<file, ox, led, baks, stop, edits, pushes, cmds, touched, missed>>

\* step 7.  The oxfile and the registry are read again; a mismatch keeps
\* pending_apply for the boot pass.
Commit(e) ==
  /\ ex[e].pc = "reconcile" /\ reconciles(ex[e].hash)
  /\ led' = flags_after_commit(ex[e].led, ex[e].hash)
  /\ Return(e, TRUE)
  /\ UNCHANGED <<file, ox, entry, proc, watch, slot, baks, stop, edits, pushes,
                 cmds, faults, doubled, touched>>

Mismatch(e) ==
  /\ \/ ex[e].pc = "reconcile" /\ ~reconciles(ex[e].hash)
     \/ ex[e].pc = "failed"
  /\ led' = [ex[e].led EXCEPT !.flagError = TRUE]
  /\ Return(e, FALSE)
  /\ UNCHANGED <<file, ox, entry, proc, watch, slot, baks, stop, edits, pushes,
                 cmds, faults, doubled, touched>>

\* The registry cannot be read for the reconcile: an error, and no ledger row.
ReconcileFails(e) ==
  /\ ex[e].pc = "reconcile" /\ Fault
  /\ Return(e, FALSE)
  /\ UNCHANGED <<file, ox, led, entry, proc, watch, slot, baks, stop, edits,
                 pushes, cmds, doubled, touched>>

(***************************************************************************)
(* The agent's bells                                                       *)
(***************************************************************************)

\* try_commit_pending: the boot pass commits an apply that was interrupted
\* after its activation, if the registry agrees with the oxfile.
BootCommit ==
  /\ ex["local"].pc = "commit" /\ lock = None
  /\ IF led.pending = file /\ reconciles(file)
     THEN /\ led' = flags_after_commit(led, file)
          /\ agent' = "spawn" /\ Set("local", Idle) /\ missed' = {}
     ELSE /\ Set("local", [pc |-> "wake"])
          /\ UNCHANGED <<led, agent, missed>>
  /\ UNCHANGED <<file, ox, lock, entry, proc, watch, slot, version, baks, stop,
                 edits, pushes, cmds, faults, doubled, touched>>

gate_needs_reconcile == should_reconcile(FALSE, led, file, led.flagPending)

\* startup_reconcile_with after the fast path: the gate outside the lock.
Wake ==
  /\ ex["local"].pc = "wake"
  /\ IF gate_needs_reconcile \/ ~AllRunning(file)
     THEN Set("local", Ring(FALSE, 0)) /\ UNCHANGED <<agent, missed>>
     ELSE Set("local", Idle) /\ agent' = "spawn" /\ missed' = {}
  /\ UNCHANGED <<file, ox, led, lock, entry, proc, watch, slot, version, baks,
                 stop, edits, pushes, cmds, faults, doubled, touched>>

\* main: the boot pass is over, the applier and the watcher are spawned; the
\* watcher takes the file as it is now for its baseline.
Spawn ==
  /\ agent = "spawn" /\ agent' = "up"
  /\ watch' = [baseline |-> file, prev |-> None]
  /\ UNCHANGED <<file, ox, led, lock, entry, proc, ex, slot, version, baks, stop,
                 edits, pushes, cmds, faults, doubled, touched, missed>>

\* Mutant: the baseline moves with the first sighting of a change.
WatchDrifts ==
  /\ agent = "up" /\ ex["local"] = Idle
  /\ watch' = [baseline |-> file, prev |-> file]
  /\ IF file # watch.baseline /\ file = watch.prev
     THEN Set("local", Ring(FALSE, 0)) ELSE UNCHANGED ex
  /\ UNCHANGED <<file, ox, led, lock, entry, proc, agent, slot, version, baks,
                 stop, edits, pushes, cmds, faults, doubled, touched, missed>>

\* watch_tick, every 2 s unless the core runs for the last trigger.
WatchTick ==
  /\ agent = "up" /\ ex["local"] = Idle
  /\ LET trigger == file # watch.baseline /\ file = watch.prev
     IN /\ watch' = [baseline |-> IF trigger THEN file ELSE watch.baseline,
                     prev |-> file]
        /\ IF trigger THEN Set("local", Ring(FALSE, 0)) ELSE UNCHANGED ex
  /\ UNCHANGED <<file, ox, led, lock, entry, proc, agent, slot, version, baks,
                 stop, edits, pushes, cmds, faults, doubled, touched, missed>>

\* The gateway stores a ConfigPush; a newer one overwrites it.
PushArrives(c) ==
  /\ pushes < MaxPushes /\ pushes' = pushes + 1
  /\ agent # "down"
  /\ \E v \in 1..pushes' : slot' = [config |-> c, v |-> v]
  /\ UNCHANGED <<file, ox, led, lock, entry, proc, agent, ex, watch, version,
                 baks, stop, edits, cmds, faults, doubled, touched, missed>>

\* handle_config_push: a stale or invalid push is dropped, any other backed
\* up, written to host.yaml and rendered to the oxfile, outside the lock.
TakePush ==
  /\ agent = "up" /\ ex["push"] = Idle /\ slot # None
  /\ slot' = None
  /\ IF slot.v <= version \/ slot.config \in Invalid
     THEN UNCHANGED <<ex, baks>>
     ELSE /\ baks' = IF slot.v > baks THEN slot.v ELSE baks
          /\ Set("push", [pc |-> "write", config |-> slot.config, v |-> slot.v])
  /\ UNCHANGED <<file, ox, led, lock, entry, proc, agent, watch, version, stop,
                 edits, pushes, cmds, faults, doubled, touched, missed>>

PushFile ==
  /\ ex["push"].pc = "write"
  /\ file' = ex["push"].config
  /\ touched' = TRUE /\ missed' = {}
  /\ Set("push", [ex["push"] EXCEPT !.pc = "render"])
  /\ UNCHANGED <<ox, led, lock, entry, proc, agent, watch, slot, version, baks,
                 stop, edits, pushes, cmds, faults, doubled>>

PushOxfile ==
  /\ ex["push"].pc = "render"
  /\ IF ex["push"].config \in Keyless
     THEN /\ Set("push", Idle) /\ UNCHANGED <<ox, touched>>
          /\ missed' = missed \cup {"failed"}
     ELSE /\ ox' = ex["push"].config /\ touched' = TRUE
          /\ Set("push", Ring(FALSE, ex["push"].v)) /\ UNCHANGED missed
  /\ UNCHANGED <<file, led, lock, entry, proc, agent, watch, slot, version, baks,
                 stop, edits, pushes, cmds, faults, doubled>>

\* record_push, under the lock: the file is read again and the ledger loaded.
RecordLoad ==
  /\ ex["push"].pc = "record" /\ lock = None
  /\ lock' = "push"
  /\ Set("push", [pc |-> "save", hash |-> file, led |-> led])
  /\ UNCHANGED <<file, ox, led, entry, proc, agent, watch, slot, version, baks,
                 stop, edits, pushes, cmds, faults, doubled, touched, missed>>

\* Mutant: the conflict lamp is not judged again.
RecordOnly ==
  /\ ex["push"].pc = "save"
  /\ led' = [ex["push"].led EXCEPT !.last = ex["push"].hash]
  /\ lock' = None /\ Set("push", Idle)
  /\ UNCHANGED <<file, ox, entry, proc, agent, watch, slot, version, baks,
                 stop, edits, pushes, cmds, faults, doubled, touched, missed>>

\* The ledger is saved with the cloud's belief.
record_push ==
  LET l == ex["push"].led
      hash == ex["push"].hash
  IN /\ ex["push"].pc = "save"
     /\ led' = [l EXCEPT !.last = hash, !.conflict = l.running \notin {None, hash}]
     /\ lock' = None /\ Set("push", Idle)
     /\ UNCHANGED <<file, ox, entry, proc, agent, watch, slot, version, baks,
                    stop, edits, pushes, cmds, faults, doubled, touched, missed>>

RecordTimeout ==
  /\ ex["push"].pc = "record" /\ lock # None /\ Fault
  /\ Set("push", Idle)
  /\ UNCHANGED <<file, ox, led, lock, entry, proc, agent, watch, slot, version,
                 baks, stop, edits, pushes, cmds, doubled, touched, missed>>

(***************************************************************************)
(* The operator's commands                                                 *)
(***************************************************************************)

Command == cmds < MaxCmds /\ cmds' = cmds + 1

\* `host apply`, and `host start` when no agent holds the gateway's port.
cmd_apply ==
  /\ Command /\ ex["cli"] = Idle
  /\ Set("cli", Ring(FALSE, 0))
  /\ UNCHANGED <<file, ox, led, lock, entry, proc, agent, watch, slot, version,
                 baks, stop, edits, pushes, faults, doubled, touched, missed>>

cmd_restart ==
  /\ Command /\ ex["cli"] = Idle /\ ox # None
  /\ Set("cli", Ring(TRUE, 0))
  /\ UNCHANGED <<file, ox, led, lock, entry, proc, agent, watch, slot, version,
                 baks, stop, edits, pushes, faults, doubled, touched, missed>>

\* The command is interrupted; flock goes with the process.
CliDies ==
  /\ ex["cli"] # Idle /\ Fault
  /\ Set("cli", Idle) /\ missed' = missed \cup {"failed"}
  /\ lock' = IF lock = "cli" THEN None ELSE lock
  /\ UNCHANGED <<file, ox, led, entry, proc, agent, watch, slot, version, baks,
                 stop, edits, pushes, cmds, doubled, touched>>

\* `host stop`, without the lock: the apps of the oxfile,
cmd_stop ==
  /\ Command /\ stop = Idle
  /\ stop' = [pc |-> "left"]
  /\ Removed(IF ox = None THEN {} ELSE Roster(ox), ex)
  /\ missed' = missed \cup {"stopped"}
  /\ UNCHANGED <<file, ox, led, baks, edits, pushes, doubled, touched>>

\* then what is left in the registry,
StopLeftovers ==
  /\ stop.pc = "left" /\ stop' = [pc |-> "check"]
  /\ Removed(Registered, ex)
  /\ missed' = missed \cup {"stopped"}
  /\ UNCHANGED <<file, ox, led, baks, edits, pushes, cmds, doubled, touched>>

\* then the process table: with no survivor the ledger is loaded,
StopCheck ==
  /\ stop.pc = "check"
  /\ stop' = IF Alive = {} /\ led.running # None
             THEN [pc |-> "save", led |-> [led EXCEPT !.running = None]]
             ELSE Idle
  /\ UNCHANGED <<file, ox, led, lock, entry, proc, agent, ex, watch, slot, version,
                 baks, edits, pushes, cmds, faults, doubled, touched, missed>>

\* and saved without its running row.
StopSave ==
  /\ stop.pc = "save" /\ stop' = Idle
  /\ led' = stop.led
  /\ missed' = missed \cup {"stopped"}
  /\ UNCHANGED <<file, ox, lock, entry, proc, agent, ex, watch, slot, version,
                 baks, edits, pushes, cmds, faults, doubled, touched>>

HostNext ==
  \/ \E a \in Apps : Die(a) \/ Revive(a) \/ CorpseEnds(a)
  \/ \E c \in Configs : Edit(c) \/ PushArrives(c)
  \/ \E e \in Executors :
       \/ Acquire(e) \/ LockTimeout(e)
       \/ JudgeNoOp(e) \/ JudgeRefuse(e) \/ JudgeRun(e)
       \/ stop_and_delete(e) \/ Prepare(e) \/ Residue(e) \/ Activate(e)
       \/ Apply(e) \/ ApplyFails(e) \/ Commit(e) \/ Mismatch(e) \/ ReconcileFails(e)
  \/ BootCommit \/ Wake \/ Spawn \/ WatchTick
  \/ TakePush \/ PushFile \/ PushOxfile \/ RecordLoad \/ record_push \/ RecordTimeout
  \/ cmd_apply \/ cmd_restart \/ CliDies
  \/ cmd_stop \/ StopLeftovers \/ StopCheck \/ StopSave

HostSpec == HostInit /\ [][HostNext]_hostVars

(***************************************************************************)
(* Properties                                                              *)
(***************************************************************************)

\* No app but the agent is ever started while an older process of it lives,
\* whatever calls fail, whoever dies and whoever else runs (step 5: never
\* start over corpses).
NoStartOverCorpses == doubled \subseteq {"agent"}

\* The running row tells the truth: with the lock free and no apply pending,
\* and neither host.yaml nor the oxfile written past the core since the last
\* teardown was verified, every process but the agent's runs the configuration
\* of the row and no other.  The next no-op rests on it.
RunningRowIsTrue ==
  lock = None /\ led.pending = None /\ led.running # None /\ ~touched =>
    \A a \in Apps \ {"agent"} : proc[a] \subseteq {led.running}

Quiet ==
  /\ agent = "up" /\ "agent" \in Registered
  /\ slot = None /\ stop = Idle /\ lock = None
  /\ \A e \in Executors : ex[e] = Idle
  /\ watch.prev = file /\ watch.baseline = file

Landed ==
  /\ led.running = file
  /\ Roster(file) \subseteq Registered
  /\ touched \/ Registered \subseteq Roster(file)

\* An edit lands: once the agent is up, no bell is ringing and the watcher has
\* seen the file as it is, the file is what the ledger says is running, its apps
\* are registered, and no others are unless the oxfile was written past the
\* core.  Except when the last run for it was refused or failed, a stop
\* intervened, or the edit fell into the agent's boot or put back the content
\* the watcher holds as its baseline.
EditsLand == Quiet /\ missed = {} => Landed

\* "restart_policy "always" keeps the agent alive - if it is briefly down the
\* daemon relifts it and its boot bell re-reconciles, so there is no orphan gap"
\* (translate.rs:613): an edit made while the agent boots lands too.
NoOrphanGap == Quiet /\ missed \subseteq {"boot"} => Landed

\* The conflict lamp is the comparison of the two rows it stands for, also
\* when a stop and a run of the core overwrite each other's ledger.
LampIsHonest ==
  lock = None /\ led.running # None =>
    led.conflict = (led.last \notin {None, led.running})

=============================================================================
