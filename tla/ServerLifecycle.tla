--------------------------- MODULE ServerLifecycle ---------------------------
(***************************************************************************)
(* The processes of server instances on one machine as `start`, `stop`,    *)
(* `stop -g` and `restart` handle them (lifecycle/mod.rs, reap.rs,         *)
(* inspect.rs).  Every instance directory has its own oxmgr daemon; older  *)
(* installations left entries in the table of the user's default daemon.   *)
(* oxmgr and systemd are external: a daemon revives the dead process of    *)
(* every entry that is on, may die and leave its processes behind, and     *)
(* keeps its table on disk.  A command of the CLI is a sequence of steps;  *)
(* everything else happens between them.                                   *)
(***************************************************************************)
EXTENDS Naturals, FiniteSets

CONSTANTS Dirs,         \* instance directories
          Clash,        \* the directories whose ports overlap
          Enrolled,     \* the directories with an enabled autostart unit
          Apps,         \* the cluster: subset of {"server", "web", "weaknet"}
          Pids,
          Default,      \* home of the default daemon
          Root,         \* a directory above all instances
          Nothing,      \* no entry, no process, no home
          Stale,        \* pid of an entry whose process died unobserved
          MaxCmds,      \* bound: commands of the operator
          MaxFaults,    \* bound: failing calls, deaths, reboots
          MaxHands,     \* bound: processes started by hand
          MaxUpsets     \* bound: faults and hand starts together

VARIABLES daemon,       \* homes whose daemon runs
          table,        \* table[h][a]: entry of the daemon's state.json
          proc,         \* proc[p]: the process with this pid
          cli,          \* the command that runs
          cmds, faults, hands,
          \* history
          quiet,        \* directories whose last command was a stop that returned 0
          spared,       \* pids whose reap step left them alive
          blind         \* directories whose last stop could not read the table

procVars == <<daemon, table, proc, cli, cmds, faults, hands,
              quiet, spared, blind>>

Homes == Dirs \cup {Default}
EntryRecs == [dir : Dirs, pid : Pids \cup {Nothing, Stale}, on : BOOLEAN]
ProcRecs == [app : Apps, dir : Dirs, cwd : Dirs \cup {Root}, home : Homes \cup {Nothing},
             listen : BOOLEAN]

\* The oxfile always has the server and the web.  Directories, homes and pids
\* are not taken for one another, nor for the absence of one.
ASSUME LifeAssumption ==
  /\ {"server", "web"} \subseteq Apps /\ Enrolled \subseteq Dirs
  /\ {Default, Root, Nothing} \cap Dirs = {} /\ Nothing # Default /\ Nothing # Root
  /\ {Nothing, Stale} \cap Pids = {} /\ Nothing # Stale
  /\ Nothing \notin EntryRecs \cup ProcRecs

Live == {p \in Pids : proc[p] # Nothing}
Ours(d) == {p \in Live : proc[p].dir = d}
Idle == [pc |-> "idle"]
Busy == cli.pc # "idle"
overlap(d, u) == d = u \/ {d, u} \subseteq Clash
Upset == faults + hands < MaxUpsets
Fault == faults < MaxFaults /\ Upset /\ faults' = faults + 1
Entries(h) == {a \in Apps : table[h][a] # Nothing}

\* The process set K ends; a daemon that runs notices, one that is down has
\* the old pid in its table.
Ended(K) == [p \in Pids |-> IF p \in K THEN Nothing ELSE proc[p]]
Seen(t, K, up) ==
  [h \in Homes |-> [a \in Apps |->
     IF t[h][a] # Nothing /\ t[h][a].pid \in K
     THEN [t[h][a] EXCEPT !.pid = IF h \in up THEN Nothing ELSE Stale]
     ELSE t[h][a]]]
Without(h, a) == [table EXCEPT ![h][a] = Nothing]

(***************************************************************************)
(* oxmgr, systemd, the kernel and the operator's shell                     *)
(***************************************************************************)
EntryOf(d) == [dir |-> d, pid |-> Nothing, on |-> TRUE]

\* Some instances were started before, and the older layout left the
\* cluster of one instance in the default table.
LifeInit ==
  /\ \E up \in SUBSET Dirs, old \in Dirs \cup {Nothing} :
       /\ daemon = up \cup {Default}
       /\ table = [h \in Homes |-> [a \in Apps |->
            IF h \in up THEN EntryOf(h)
            ELSE IF h = Default /\ old # Nothing THEN EntryOf(old) ELSE Nothing]]
  /\ proc = [p \in Pids |-> Nothing]
  /\ cli = Idle
  /\ cmds = 0 /\ faults = 0 /\ hands = 0
  /\ quiet = {} /\ spared = {} /\ blind = {}

\* The processes that hold the port of an app of d.
PortHolders(a, d) == {p \in Live : /\ proc[p].app = a /\ proc[p].listen
                                   /\ overlap(d, proc[p].dir)}
Launch(a, d, cwd, h) == [app |-> a, dir |-> d, cwd |-> cwd, home |-> h,
                         listen |-> PortHolders(a, d) = {}]

\* A pid no running command still holds.
Fresh == {p \in Pids \ Live : (Busy => p \notin cli.held) /\ p \notin spared}

Revive(h, a) ==
  /\ h \in daemon /\ a \in Entries(h)
  /\ table[h][a].on /\ table[h][a].pid \in {Nothing, Stale}
  /\ \E p \in Fresh :
       /\ proc' = [proc EXCEPT ![p] = Launch(a, table[h][a].dir, table[h][a].dir, h)]
       /\ table' = [table EXCEPT ![h][a].pid = p]
  /\ UNCHANGED <<daemon, cli, cmds, faults, hands, quiet, spared, blind>>

\* A process that found its port taken binds it once it is free.
BindPort(p) ==
  /\ p \in Live /\ ~proc[p].listen
  /\ PortHolders(proc[p].app, proc[p].dir) = {}
  /\ proc' = [proc EXCEPT ![p].listen = TRUE]
  /\ UNCHANGED <<daemon, table, cli, cmds, faults, hands, quiet, spared, blind>>

ProcessDies(p) ==
  /\ p \in Live /\ Fault
  /\ proc' = Ended({p})
  /\ table' = Seen(table, {p}, daemon)
  /\ UNCHANGED <<daemon, cli, cmds, hands, quiet, spared, blind>>

DaemonDies(h) ==
  /\ h \in daemon /\ Fault
  /\ daemon' = daemon \ {h}
  /\ UNCHANGED <<table, proc, cli, cmds, hands, quiet, spared, blind>>

DaemonReturns(h) ==
  /\ h \in ({Default} \cup Enrolled) \ daemon
  /\ daemon' = daemon \cup {h}
  /\ UNCHANGED <<table, proc, cli, cmds, faults, hands, quiet, spared, blind>>

\* Everything ends; the enabled units bring their daemons up.
Reboot ==
  /\ ~Busy /\ Fault
  /\ proc' = [p \in Pids |-> Nothing]
  /\ table' = Seen(table, Live, {})
  /\ daemon' = {Default} \cup Enrolled
  /\ spared' = {}
  /\ UNCHANGED <<cli, cmds, hands, quiet, blind>>

\* A binary of d started in a shell, in its directory or above it.
HandStart(a, d, cwd) ==
  /\ hands < MaxHands /\ Upset /\ hands' = hands + 1
  /\ \E p \in Fresh : proc' = [proc EXCEPT ![p] = Launch(a, d, cwd, Nothing)]
  /\ quiet' = quiet \ {d}
  /\ IF Busy THEN cli' = [cli EXCEPT !.meddled = @ \cup {d}] ELSE UNCHANGED cli
  /\ UNCHANGED <<daemon, table, cmds, faults, spared, blind>>

(***************************************************************************)
(* The CLI: start                                                          *)
(***************************************************************************)
Begin(cmd, d, pc, web) ==
  /\ ~Busy /\ cmds < MaxCmds /\ cmds' = cmds + 1
  /\ cli' = [pc |-> pc, cmd |-> cmd, dir |-> d, on |-> d, web |-> web, todo |-> {},
             plan |-> {}, held |-> {}, found |-> FALSE, failed |-> FALSE, meddled |-> {}]
  /\ quiet' = IF cmd = "stop" THEN quiet ELSE quiet \ {d}
  /\ UNCHANGED <<daemon, table, proc, faults, hands, spared, blind>>

Return == cli' = Idle
Goto(pc) == cli' = [cli EXCEPT !.pc = pc]
At(pc) == cli.pc = pc

cmd_start(d, web) == Begin("start", d, "start", web)
cmd_restart(d, web) == Begin("restart", d, "list", web)
cmd_stop(d) == Begin("stop", d, "list", TRUE)
cmd_stop_global == Begin("stop-g", Nothing, "gscan", TRUE)

\* A process of another instance's server, wherever its port is.
find_other_server_dir(d) ==
  {proc[p].dir : p \in {q \in Live : proc[q].app = "server" /\ proc[q].dir # d}}

ProbedPorts == IF cli.web THEN Apps ELSE Apps \ {"web"}
PortBusy == \E a \in ProbedPorts : PortHolders(a, cli.dir) # {}

start_impl ==
  /\ At("start") /\ ~PortBusy
  /\ Goto("apply")
  /\ UNCHANGED <<daemon, table, proc, cmds, faults, hands, quiet, spared, blind>>

\* No terminal, another key than y, or no old instance found: exit 1.
contention_refused ==
  /\ At("start") /\ PortBusy
  /\ Return
  /\ UNCHANGED <<daemon, table, proc, cmds, faults, hands, quiet, spared, blind>>

\* y: the first other instance in /proc is stopped (stop_cluster_in).
contention_takeover ==
  /\ At("start") /\ PortBusy
  /\ \E od \in find_other_server_dir(cli.dir) :
       cli' = [cli EXCEPT !.pc = "list", !.on = od, !.cmd = "takeover"]
  /\ UNCHANGED <<daemon, table, proc, cmds, faults, hands, quiet, spared, blind>>

\* apply: every app is on; with --only the web's entry is stopped, not deleted.
apply_oxfile ==
  /\ At("apply")
  /\ \/ LET d == cli.dir
            K == IF cli.web \/ table[d]["web"] = Nothing THEN {} ELSE {table[d]["web"].pid} \cap Live
            Applied(a) ==
              IF a = "web" /\ ~cli.web
              THEN IF table[d][a] = Nothing THEN Nothing
                   ELSE [table[d][a] EXCEPT !.on = FALSE, !.pid = Nothing]
              ELSE IF table[d][a] = Nothing THEN EntryOf(d)
                   ELSE [table[d][a] EXCEPT !.on = TRUE]
        IN  /\ daemon' = daemon \cup {d}
            /\ table' = [table EXCEPT ![d] = [a \in Apps |-> Applied(a)]]
            /\ proc' = Ended(K)
            /\ UNCHANGED faults
     \/ /\ Fault
        /\ UNCHANGED <<daemon, table, proc>>
  /\ Return
  /\ UNCHANGED <<cmds, hands, quiet, spared, blind>>

(***************************************************************************)
(* The CLI: stop                                                           *)
(***************************************************************************)

\* An oxmgr call finds its daemon, spawns it, or fails; a daemon that is up
\* fails a call only by a fault.
CallFails(h) == \/ h \notin daemon /\ UNCHANGED faults
                \/ h \in daemon /\ Fault
CallWorks(h) == daemon' = daemon \cup {h} /\ UNCHANGED faults

\* list_registered_apps: an error is taken for "nothing is managed".  (For
\* the history, a stop that reads the table a blind one could not starts anew.)
list_registered_apps ==
  /\ At("list")
  /\ LET d == cli.on IN
     \/ /\ CallWorks(d)
        /\ cli' = [cli EXCEPT !.pc = "names", !.todo = Entries(d), !.found = Entries(d) # {}]
        /\ blind' = blind \ {d}
        /\ quiet' = quiet \ ({d} \cap blind)
     \/ /\ CallFails(d)
        /\ UNCHANGED <<daemon, quiet>>
        /\ Goto(IF cli.cmd = "takeover" THEN "apply" ELSE "sweep")
        /\ blind' = blind \cup {d}
  /\ UNCHANGED <<table, proc, cmds, hands, spared>>

\* Mutant: a failing name is not remembered.
stop_forgets ==
  /\ At("names")
  /\ \E a \in cli.todo :
       LET h == cli.on
           K == IF table[h][a] = Nothing THEN {} ELSE {table[h][a].pid} \cap Live
       IN  /\ \/ CallWorks(h) /\ table' = Without(h, a) /\ proc' = Ended(K)
              \/ CallFails(h) /\ UNCHANGED <<daemon, table, proc>>
           /\ cli' = [cli EXCEPT !.todo = @ \ {a}]
  /\ UNCHANGED <<cmds, hands, quiet, spared, blind>>

\* stop then delete of one name; either may fail, the loop goes on.
stop_cluster ==
  /\ At("names")
  /\ \E a \in cli.todo :
       LET h == cli.on
           K == IF table[h][a] = Nothing THEN {} ELSE {table[h][a].pid} \cap Live
           stopped == [table EXCEPT ![h][a].on = FALSE, ![h][a].pid = Nothing]
       IN  \/ /\ CallWorks(h)
              /\ table' = Without(h, a) /\ proc' = Ended(K)
              /\ cli' = [cli EXCEPT !.todo = @ \ {a}]
           \/ /\ CallFails(h)
              /\ UNCHANGED daemon
              /\ \/ UNCHANGED <<table, proc>>
                 \/ table' = stopped /\ proc' = Ended(K)
              /\ cli' = [cli EXCEPT !.todo = @ \ {a}, !.failed = TRUE]
  /\ UNCHANGED <<cmds, hands, quiet, spared, blind>>

names_done ==
  /\ At("names") /\ cli.todo = {}
  /\ Goto(IF cli.cmd = "takeover" THEN "daemon" ELSE "sweep")
  /\ UNCHANGED <<daemon, table, proc, cmds, faults, hands, quiet, spared, blind>>

\* The entries of a table a process may be taken for: by pid, else by the
\* entry's directory lying under the process's.  The name is not compared.
lookup(h, p) ==
  LET byPid == {a \in Entries(h) : table[h][a].pid = p}
      byCwd == {a \in Entries(h) : proc[p].cwd \in {table[h][a].dir, Root}}
  IN  IF byPid # {} THEN byPid ELSE byCwd

\* Where a step may send its process: the table of the process's own home
\* first, then the instance's and the default one; no entry means a kill.
Routes(p, homes) ==
  LET own == {proc[p].home} \cap homes
      found(H) == {h \in H : lookup(h, p) # {}}
      inst == found(homes \ {Default})
      h == IF found(own) # {} THEN found(own)
           ELSE IF inst # {} THEN inst ELSE found(homes)
  IN  IF h = {} THEN {[pid |-> p, via |-> Nothing, app |-> Nothing, above |-> FALSE]}
      ELSE {[pid |-> p, via |-> x, app |-> a, above |-> proc[p].cwd = Root] :
              x \in h, a \in UNION {lookup(y, p) : y \in h}}

\* reap_plan: one step per process of M.
Plans(M, homes) ==
  {S \in SUBSET UNION {Routes(p, homes) : p \in M} :
     /\ \A s \in S : s.via # Nothing => s.app \in lookup(s.via, s.pid)
     /\ \A p \in M : Cardinality({s \in S : s.pid = p}) = 1}

\* Mutant: the sweep takes every process of the product.
reap_everything ==
  /\ At("sweep")
  /\ \E S \in Plans(Live, {cli.on, Default}) :
       cli' = [cli EXCEPT !.pc = "steps", !.plan = S, !.held = Live]
  /\ UNCHANGED <<daemon, table, proc, cmds, faults, hands, quiet, spared, blind>>

reap_under ==
  /\ At("sweep")
  /\ \E S \in Plans(Ours(cli.on), {cli.on, Default}) :
       cli' = [cli EXCEPT !.pc = "steps", !.plan = S, !.held = Ours(cli.on)]
  /\ UNCHANGED <<daemon, table, proc, cmds, faults, hands, quiet, spared, blind>>

\* -g: every product process, the default table and the processes' homes.
scan_all ==
  /\ At("gscan")
  /\ \E S \in Plans(Live, {Default} \cup ({proc[p].home : p \in Live} \cap Dirs)) :
       cli' = [cli EXCEPT !.pc = "steps", !.plan = S, !.held = Live]
  /\ UNCHANGED <<daemon, table, proc, cmds, faults, hands, quiet, spared, blind>>

registry_has_entry(h, a, p) ==
  table[h][a] # Nothing /\ table[h][a].pid \in {p, Nothing}

\* Mutant: the daemon is not asked before a kill.
NoGate(s) == TRUE

\* The direct-kill gate: no registry, or a dead daemon without the entry.
KillAllowed(s) ==
  \/ s.via = Nothing
  \/ s.via \notin daemon /\ ~registry_has_entry(s.via, s.app, s.pid)

StepDone(s, K) ==
  /\ cli' = [cli EXCEPT !.plan = @ \ {s}]
  /\ spared' = spared \cup ({s.pid} \cap (Live \ K))

execute_via_daemon ==
  /\ At("steps")
  /\ \E s \in {x \in cli.plan : x.via # Nothing} :
       LET K == IF table[s.via][s.app] = Nothing THEN {} ELSE {table[s.via][s.app].pid} \cap Live
       IN  /\ table[s.via][s.app] # Nothing
           /\ CallWorks(s.via)
           /\ table' = Without(s.via, s.app) /\ proc' = Ended(K)
           /\ StepDone(s, K)
  /\ UNCHANGED <<cmds, hands, quiet, blind>>

\* The close failed (also: the entry is gone) and the gate forbids a kill.
execute_skip ==
  /\ At("steps")
  /\ \E s \in {x \in cli.plan : x.via # Nothing /\ ~KillAllowed(x)} :
       /\ IF table[s.via][s.app] = Nothing THEN UNCHANGED faults ELSE CallFails(s.via)
       /\ StepDone(s, {})
  /\ UNCHANGED <<daemon, table, proc, cmds, hands, quiet, blind>>

\* SIGTERM, then SIGKILL; a signal that is refused leaves the process.
execute_kill ==
  /\ At("steps")
  /\ \E s \in {x \in cli.plan : KillAllowed(x)} :
       \/ /\ proc' = Ended({s.pid} \cap Live)
          /\ table' = Seen(table, {s.pid} \cap Live, daemon)
          /\ StepDone(s, {s.pid})
          /\ UNCHANGED faults
       \/ /\ Fault
          /\ StepDone(s, {})
          /\ UNCHANGED <<table, proc>>
  /\ UNCHANGED <<daemon, cmds, hands, quiet, blind>>

steps_done ==
  /\ At("steps") /\ cli.plan = {}
  /\ Goto(IF cli.cmd = "stop-g" THEN "gfinal" ELSE "daemon")
  /\ UNCHANGED <<daemon, table, proc, cmds, faults, hands, quiet, spared, blind>>

\* `daemon stop` when the table had names; its failure is only reported.
stop_daemon ==
  /\ At("daemon")
  /\ LET h == cli.on IN
     \/ ~cli.found /\ UNCHANGED <<daemon, faults>>
     \/ cli.found /\ daemon' = daemon \ {h} /\ UNCHANGED faults
     \/ cli.found /\ h \in daemon /\ Fault /\ UNCHANGED daemon
  /\ Goto(IF cli.cmd = "takeover" THEN "apply" ELSE "verify")
  /\ UNCHANGED <<table, proc, cmds, hands, quiet, spared, blind>>

StopReturns(rc) ==
  /\ IF cli.cmd = "restart" THEN Goto("start") ELSE Return
  /\ quiet' = IF rc = 0 /\ cli.cmd = "stop" /\ cli.on \notin cli.meddled
              THEN quiet \cup {cli.on} ELSE quiet \ {cli.on}

\* The second scan: ours are what it finds and what the sweep handled.
verify_scan ==
  /\ At("verify")
  /\ IF cli.failed
     THEN StopReturns(1)
     ELSE /\ cli' = [cli EXCEPT !.pc = "poll", !.held = @ \cup Ours(cli.on)]
          /\ UNCHANGED quiet
  /\ UNCHANGED <<daemon, table, proc, cmds, faults, hands, spared, blind>>

\* Up to ten looks at the ports: clear once, or ours in each of them.
verify_ports_attribution ==
  /\ At("poll")
  /\ \E rc \in {0, 1} :
       /\ (rc = 0) = (\A p \in cli.held \cap Live : ~proc[p].listen)
       /\ StopReturns(rc)
  /\ UNCHANGED <<daemon, table, proc, cmds, faults, hands, spared, blind>>

\* -g ends with a rescan; what is alive is a failure.
global_final ==
  /\ At("gfinal")
  /\ Return
  /\ UNCHANGED <<daemon, table, proc, cmds, faults, hands, quiet, spared, blind>>

LifeNext ==
  \/ \E h \in Homes : DaemonDies(h) \/ DaemonReturns(h) \/ \E a \in Apps : Revive(h, a)
  \/ \E p \in Pids : BindPort(p) \/ ProcessDies(p)
  \/ Reboot
  \/ \E a \in Apps, d \in Dirs : HandStart(a, d, d) \/ HandStart(a, d, Root)
  \/ \E d \in Dirs, web \in BOOLEAN : cmd_start(d, web) \/ cmd_restart(d, web)
  \/ (\E d \in Dirs : cmd_stop(d)) \/ cmd_stop_global
  \/ start_impl \/ contention_refused \/ contention_takeover \/ apply_oxfile
  \/ list_registered_apps \/ stop_cluster \/ names_done \/ reap_under \/ scan_all
  \/ execute_via_daemon \/ execute_skip \/ execute_kill \/ steps_done
  \/ stop_daemon \/ verify_scan \/ verify_ports_attribution \/ global_final

LifeSpec == LifeInit /\ [][LifeNext]_procVars

(***************************************************************************)
(* Properties                                                              *)
(***************************************************************************)
LifeTypeOK ==
  /\ daemon \subseteq Homes
  /\ proc \in [Pids -> ProcRecs \cup {Nothing}]
  /\ table \in [Homes -> [Apps -> EntryRecs \cup {Nothing}]]
  /\ quiet \subseteq Dirs /\ spared \subseteq Pids /\ blind \subseteq Dirs

(* A stop that returned 0 sticks: until the next command or hand start a   *)
(* live process of the instance is one whose reap step left it alive, one  *)
(* the default daemon revived from a dormant entry, or the table could not *)
(* be read.                                                                *)
StopSticks ==
  \A d \in quiet \ blind : \A p \in Ours(d) :
    p \in spared \/ proc[p].home = Default

(* stop, start and restart of one instance end no process of another one,  *)
(* but for the takeover's victim and for the entry that a process started  *)
(* above the instances is taken for.                                       *)
StopSparesOthers ==
  [][(cli # cli' /\ Busy /\ cli.cmd \in {"start", "stop", "restart"}) =>
       \A p \in Live : proc'[p] = Nothing =>
         \/ proc[p].dir = cli.on
         \/ \E s \in cli.plan : s.above]_procVars

(* The sweep never fights a daemon: a process killed directly is not the   *)
(* process of an entry some running daemon would revive.                   *)
KillsStayDead ==
  [][execute_kill =>
       \A h \in daemon, a \in Apps : table'[h][a] = table[h][a]]_procVars
=============================================================================
