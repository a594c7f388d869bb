-------------------------- MODULE WeaknetScenario --------------------------
(***************************************************************************)
(* The scenario runner of `weaknet` and the commands it excludes: a plan   *)
(* parsed from a document, started by the CLI or by `serve`, driven step   *)
(* by step against the one site of the state directory.                    *)
(*                                                                         *)
(* The write lock is only held within a step.  What keeps others out in    *)
(* between is the job flag in state.json (name, pid, start time), and what *)
(* stops a run is the file scenario.cancel; both are files, read and       *)
(* written without a common lock.  Weaknet models the lock, the fuses and  *)
(* the replay themselves; here a replay is one step under the lock.        *)
(***************************************************************************)
EXTENDS Integers, Sequences, FiniteSets, SequencesExt

CONSTANTS Runs,       \* scenario runs
          Writers,    \* other apply and set requests
          ServeProcess, \* the process of `weaknet serve`
          Names,      \* scenario names (file stems, "inline")
          Launches,   \* what is launched: document, name, by the CLI or serve, --keep
          MaxFaults,  \* bound: kills, stops, exits of serve, sweeps by others
          Error,      \* what a refused document or merge yields
          None

\* Processes are told apart, and from their absence.
ProcessesApart ==
  /\ ServeProcess \notin Runs \cup Writers /\ Runs \cap Writers = {}
  /\ None \notin Runs \cup Writers \cup {ServeProcess, "done", "bad-param"}

\* The documents as_num and as_int let through (a set whose rtt or loss is no
\* number has an unknown key), and the specs.
Settings == [rtt : Int \cup {None}, loss : Nat \cup {None}, ge : BOOLEAN, unknown : BOOLEAN]
Docs == [steps : Seq([at : Int, set : Settings]),
         repeat : {None} \cup [rounds : Int, on : Int, off : Int, set : Settings],
         baseline : {None} \cup Nat, clear : BOOLEAN]
Losses == {"simple", "ge"} \X Nat
Specs == [rtt : Int, loss : {None} \cup Losses]

ASSUME ScenarioAssumption ==
  /\ \A l \in Launches : l.name \in Names /\ (l.keep => l.cli) /\ l.doc \in Docs
  /\ ProcessesApart
  /\ None \notin Int \cup Losses /\ Error \notin Specs
  /\ MaxFaults \in Nat

(***************************************************************************)
(* The plan                                                                *)
(***************************************************************************)

COVERING_MARGIN_SECS == 90
RECOVERY_DWELL_SECS == 25
TAIL_SECS == 15
\* What one set takes: a replay samples its counters over a second.
SetCost == 1

\* A `set` mapping: rtt and loss (None: not given), whether it asks for
\* gemodel, and whether it has a key outside the whitelist.
check_params(p) == ~p.unknown /\ (p.rtt # None => p.rtt >= 0)

override_from(p) == [rtt |-> p.rtt, loss |-> p.loss, ge |-> p.ge]

\* spec::validate; jitter, rate, reorder and seed behave like rtt.
validate(s) == s.rtt <= 2000 /\ (s.loss # None => s.loss[2] <= 100)

DefaultSpec == [rtt |-> 0, loss |-> None]

\* Fields not given are inherited; gemodel without a loss takes the base's.
merge_step(base, ov) ==
  LET pct  == IF ov.loss # None THEN ov.loss
              ELSE IF base.loss = None THEN None ELSE base.loss[2]
      loss == IF ov.ge THEN <<"ge", pct>>
              ELSE IF ov.loss # None THEN <<"simple", ov.loss>> ELSE base.loss
      s    == [rtt |-> IF ov.rtt # None THEN ov.rtt ELSE base.rtt, loss |-> loss]
  IN  IF (ov.ge /\ pct = None) \/ ~validate(s) THEN Error ELSE s

OffOverride == [rtt |-> 0, loss |-> 0, ge |-> FALSE]

\* parse_plan_doc: steps (at_s strictly increasing), then repeat; the total
\* is the later of the last step's tail and the length of the rounds.
parse_plan_doc(d) ==
  LET n    == Len(d.steps)
      r    == d.repeat
      last == IF n = 0 THEN -1 ELSE d.steps[n].at
      tail == IF n = 0 THEN 0 ELSE last + TAIL_SECS
      long == IF r = None THEN tail
              ELSE Max({tail, last, r.rounds * (r.on + r.off)})
      ok   == /\ n > 0 \/ r # None
              /\ \A i \in 1..n : /\ d.steps[i].at >= 0
                                 /\ i > 1 => d.steps[i].at > d.steps[i-1].at
                                 /\ check_params(d.steps[i].set)
              /\ r # None => /\ r.rounds > 0 /\ r.on >= 5 /\ r.off >= 5
                             /\ check_params(r.set)
      step == [i \in 1..n |-> [kind |-> "step", at |-> d.steps[i].at,
                               ov |-> override_from(d.steps[i].set)]]
      rep  == IF r = None THEN << >>
              ELSE << [kind |-> "repeat", rounds |-> r.rounds, on |-> r.on,
                       off |-> r.off, ov |-> override_from(r.set)] >>
  IN  IF ~ok THEN Error
      ELSE [lines |-> step \o rep, total |-> long, clear |-> d.clear,
            baseline |-> IF d.baseline = None THEN long ELSE d.baseline]

first_override(plan) == plan.lines[1].ov

\* One line of the dry run: a repeat is tried for one round, on and off.
DryLine(s, line) ==
  LET on == merge_step(s, line.ov)
  IN  IF line.kind = "step" \/ on = Error THEN on ELSE merge_step(on, OffOverride)

\* The specs of the dry run after each line, from that of the first apply.
DryRun(plan) ==
  LET cur[i \in 0..Len(plan.lines)] ==
        IF i = 0 THEN merge_step(DefaultSpec, first_override(plan))
        ELSE IF cur[i-1] = Error THEN Error ELSE DryLine(cur[i-1], plan.lines[i])
  IN  cur

\* Mutant: only the first step is validated.
validate_first_only(plan) == DryRun(plan)[0] # Error

validate_full_plan(plan) == DryRun(plan)[Len(plan.lines)] # Error

\* Mutant: the baseline is not covered.
CoveringSteps(plan) == plan.total + COVERING_MARGIN_SECS

\* The lifetime the first apply gives the site.
Covering(plan) == plan.baseline + plan.total + COVERING_MARGIN_SECS

\* How long drive works on a plan when nothing stops it: the baseline, the
\* last step's time, the rounds after it, and the dwell after an `--rtt 0`.
Rounds(plan) == LET l == Last(plan.lines)
                IN  IF l.kind = "repeat" THEN l.rounds * (l.on + l.off + 2 * SetCost)
                    ELSE 0
StepTimes(plan) == {l.at : l \in {x \in Range(plan.lines) : x.kind = "step"}}
Recovers(plan) == \E l \in Range(plan.lines) : l.kind = "step" /\ l.ov.rtt = 0
RunLength(plan) ==
  plan.baseline + (IF StepTimes(plan) = {} THEN 0 ELSE Max(StepTimes(plan)) + SetCost)
    + Rounds(plan) + (IF Recovers(plan) THEN RECOVERY_DWELL_SECS ELSE 0)

Impaired(s) == s # None /\ (s.rtt > 0 \/ (s.loss # None /\ s.loss[2] # 0))
----------------------------------------------------------------------------
VARIABLES site,     \* state.json: the spec and the job flag, or None
          installed, \* the spec installed on the interface, or None
          mutex,    \* who holds the write lock, or None
          cancel,   \* scenario.cancel exists
          run,      \* run -> its progress
          wr,       \* writer -> where it is
          down,     \* serve: "up", or a step of its graceful exit, or "out"
          drive,    \* the run whose handle serve holds
          dead,     \* processes that have died
          faults,
          \* history
          touched,  \* runs whose site another actor changed while they drove
          late,     \* runs that could meet a write gated before their flag,
                    \* or a run with the same name
          stuck     \* runs that ended without lifting their flag

marks == <<touched, late, stuck>>
scenariovars == <<site, installed, mutex, cancel, run, wr, down, drive, dead, faults, marks>>

Fresh == [pc |-> "idle", name |-> None, pid |-> None, keep |-> FALSE,
          plan |-> None, line |-> 1, round |-> 1, phase |-> "on",
          cur |-> DefaultSpec, prior |-> None, end |-> None]

ScenarioInit ==
  /\ site = None /\ installed = None /\ mutex = None /\ cancel = FALSE
  /\ run = [r \in Runs |-> Fresh]
  /\ wr = [w \in Writers |-> [pc |-> "idle", kind |-> None]]
  /\ down = "up" /\ drive = None /\ dead = {}
  /\ faults = 0
  /\ touched = {} /\ late = {} /\ stuck = {}

Waiting == {"baseline", "wait", "phase", "dwell"}
Driving == Waiting \cup {"step", "set"}
Ending == {"clear", "uncancel", "unjob"}
Live(r) == run[r].pc \notin {"idle", "over", "refused", "killed"}

job_alive(j) == IF j = None THEN FALSE ELSE j.pid \notin dead
LiveJob == IF site = None THEN FALSE ELSE job_alive(site.job)
Free == mutex = None \/ mutex \in dead
PidOf(r) == run[r].pid
Reaches(r, pc) == run' = [run EXCEPT ![r].pc = pc]
End(r, how) == [run EXCEPT ![r].pc = "clear", ![r].end = how]
\* The process of a CLI run ends with it.
Exited(r) == IF PidOf(r) = r THEN dead \cup {r} ELSE dead
\* The flag on the site is this run's, by name, and its owner is alive.
Owns(r) == IF site = None \/ ~LiveJob THEN FALSE ELSE site.job.name = run[r].name

Line(r) == run[r].plan.lines[run[r].line]
Override(r) == IF Line(r).kind = "repeat" /\ run[r].phase = "off"
               THEN OffOverride ELSE Line(r).ov

\* What follows the wait after a set: the other phase, the next round, the
\* next line, the dwell, or the end.
Advance(r) ==
  LET u == run[r] IN
  IF u.pc = "phase" /\ u.phase = "on"
  THEN [u EXCEPT !.phase = "off", !.pc = "step"]
  ELSE IF u.pc = "phase" /\ u.round < Line(r).rounds
  THEN [u EXCEPT !.phase = "on", !.round = @ + 1, !.pc = "step"]
  ELSE IF u.line < Len(u.plan.lines)
  THEN [u EXCEPT !.line = @ + 1, !.pc = "wait", !.phase = "on"]
  ELSE IF Recovers(u.plan) /\ u.pc # "dwell" THEN [u EXCEPT !.pc = "dwell"]
  ELSE [u EXCEPT !.pc = "clear", !.end = "done"]

\* The runs, other than a, that a change of the site hits while they wait for
\* their next set.  Nothing looks at the site after the last set.
LastWait(r) == run[r].pc \in {"phase", "dwell"} /\ Advance(r).pc \in {"dwell", "clear"}
Hit(a) == {q \in Runs \ {a} : run[q].pc \in Waiting \cup {"step"} /\ ~LastWait(q)}

----------------------------------------------------------------------------
\* Starting: post_scenario_run or the CLI, then start_blocking

Submit(r, l) ==
  /\ run[r].pc = "idle" /\ r \notin dead
  /\ ~l.cli => down = "up" /\ ServeProcess \notin dead
  /\ LET plan == parse_plan_doc(l.doc)
     IN  run' = [run EXCEPT ![r] =
                   IF plan = Error THEN [Fresh EXCEPT !.pc = "refused"]
                   ELSE [Fresh EXCEPT !.pc = "gate", !.name = l.name, !.keep = l.keep,
                                      !.pid = IF l.cli THEN r ELSE ServeProcess, !.plan = plan]]
  /\ UNCHANGED <<site, installed, mutex, cancel, wr, down, drive, dead, faults, marks>>

\* job_gate, without the lock.
Gate(r) ==
  /\ run[r].pc = "gate"
  /\ Reaches(r, IF LiveJob THEN "refused" ELSE "fresh")
  /\ UNCHANGED <<site, installed, mutex, cancel, wr, down, drive, dead, faults, marks>>

\* remove_cancel and the dry run.
DropCancel(r) ==
  /\ run[r].pc = "fresh"
  /\ cancel' = FALSE
  /\ Reaches(r, IF validate_full_plan(run[r].plan) THEN "lock" ELSE "refused")
  /\ UNCHANGED <<site, installed, mutex, wr, down, drive, dead, faults, marks>>

TakeLock(r) ==
  /\ run[r].pc = "lock"
  /\ \/ Free /\ mutex' = r /\ Reaches(r, "apply")
     \/ ~Free /\ Reaches(r, "refused") /\ UNCHANGED mutex
  /\ UNCHANGED <<site, installed, cancel, wr, down, drive, dead, faults, marks>>

\* exec.apply with the parameters of the first step, before any baseline.
ApplyFirst(r) ==
  /\ run[r].pc = "apply"
  /\ \/ LET s == merge_step(DefaultSpec, first_override(run[r].plan))
        IN  /\ installed' = s
            /\ site' = [spec |-> s, job |-> None]
            /\ run' = [run EXCEPT ![r].pc = "flag", ![r].cur = s]
            /\ touched' = touched \cup Hit(r)
            /\ UNCHANGED mutex
     \/ /\ Reaches(r, "refused")
        /\ mutex' = None
        /\ UNCHANGED <<installed, site, touched>>
  /\ UNCHANGED <<cancel, wr, down, drive, dead, faults, late, stuck>>

\* Others that are under way when r writes its flag: it is late for them.
LetIn(r) == IF \/ \E w \in Writers : wr[w].pc # "idle"
               \/ \E q \in Runs \ {r} : Live(q)
            THEN {r} ELSE {}

\* The job flag; a site that has been cleared meanwhile fails the start.
WriteFlag(r) ==
  /\ run[r].pc = "flag"
  /\ mutex' = None
  /\ IF site = None
     THEN Reaches(r, "refused") /\ UNCHANGED <<site, late>>
     ELSE /\ site' = [site EXCEPT !.job = [name |-> run[r].name, pid |-> PidOf(r),
                                           done |-> 0]]
          /\ Reaches(r, "begin")
          /\ late' = late \cup LetIn(r)
                          \cup {q \in Runs \ {r} : Live(q) /\ run[q].name = run[r].name}
  /\ UNCHANGED <<installed, cancel, wr, down, drive, dead, faults, touched, stuck>>

\* scenario-start; if the timeline cannot be written the run is not driven
\* and its flag stays.  Serve keeps the handle of the last run.
Begin(r) ==
  /\ run[r].pc = "begin"
  /\ \/ /\ run' = [run EXCEPT ![r].pc = IF run[r].plan.baseline > 0 THEN "baseline"
                                        ELSE "wait"]
        /\ drive' = IF PidOf(r) = ServeProcess THEN r ELSE drive
        /\ UNCHANGED <<stuck, dead>>
     \/ /\ Reaches(r, "refused")
        /\ stuck' = stuck \cup {r} /\ dead' = Exited(r)
        /\ UNCHANGED drive
  /\ UNCHANGED <<site, installed, mutex, cancel, wr, down, faults, touched, late>>

----------------------------------------------------------------------------
\* drive

\* cancel_reason: the stop file, or a flag that is no longer this run's.
Cancelled(r) == cancel \/ ~Owns(r)

\* A checkpoint of sleep_checked or wait_until.
Checkpoint(r) ==
  /\ run[r].pc \in Waiting
  /\ Cancelled(r)
  /\ run' = End(r, "user")
  /\ UNCHANGED <<site, installed, mutex, cancel, wr, down, drive, dead, faults, marks>>

\* The time of a wait is over (checked before the stop file).
Elapse(r) ==
  /\ run[r].pc \in Waiting
  /\ run' = [run EXCEPT ![r] =
       CASE run[r].pc = "baseline" -> [@ EXCEPT !.pc = "wait"]
         [] run[r].pc = "wait"     -> [@ EXCEPT !.pc = "step"]
         [] OTHER                  -> Advance(r)]
  /\ UNCHANGED <<site, installed, mutex, cancel, wr, down, drive, dead, faults, marks>>

\* Mutant: step_sync does not look whose flag the site carries.
StepLocksUnchecked(r) ==
  /\ run[r].pc = "step"
  /\ \/ ~Free /\ run' = End(r, "lock-busy") /\ UNCHANGED mutex
     \/ /\ Free /\ mutex' = r
        /\ run' = [run EXCEPT ![r].pc = "set",
                              ![r].prior = IF site = None THEN None ELSE site.job]
  /\ UNCHANGED <<site, installed, cancel, wr, down, drive, dead, faults, marks>>

\* step_sync: the lock, and the flag read under it.
StepLocks(r) ==
  /\ run[r].pc = "step"
  /\ \/ ~Free /\ run' = End(r, "lock-busy") /\ UNCHANGED mutex
     \/ /\ Free /\ ~Owns(r)
        /\ run' = End(r, "user") /\ UNCHANGED mutex
     \/ /\ Free /\ Owns(r)
        /\ mutex' = r
        /\ run' = [run EXCEPT ![r].pc = "set",
                              ![r].prior = [site.job EXCEPT !.done = run[r].line]]
  /\ UNCHANGED <<site, installed, cancel, wr, down, drive, dead, faults, marks>>

\* The merge and the replay; the flag that was read is written back.
StepSets(r) ==
  /\ run[r].pc = "set"
  /\ mutex' = None
  /\ LET s == merge_step(run[r].cur, Override(r)) IN
     IF s = Error
     THEN run' = End(r, "bad-param") /\ UNCHANGED <<site, installed, touched, late>>
     ELSE \/ /\ installed' = s
             /\ site' = [spec |-> s, job |-> run[r].prior]
             /\ late' = IF site = None THEN late \cup LetIn(r) ELSE late
             /\ touched' = touched \cup Hit(r)
             /\ run' = [run EXCEPT ![r] =
                  LET u == [@ EXCEPT !.cur = s, !.prior = None]
                  IN  IF Line(r).kind = "repeat" THEN [u EXCEPT !.pc = "phase"]
                      ELSE [Advance(r) EXCEPT !.cur = s, !.prior = None]]
          \/ /\ run' = End(r, "step-failed")
             /\ UNCHANGED <<site, installed, touched, late>>
  /\ UNCHANGED <<cancel, wr, down, drive, dead, faults, stuck>>

\* finish_abort and the end of drive: scenario-end, then the site is cleared
\* unless it is kept.  The clear takes whatever is there, and may fail.
Keeps(r) == run[r].keep \/ (run[r].end = "done" /\ ~run[r].plan.clear)
EndClear(r) ==
  /\ run[r].pc = "clear"
  /\ Reaches(r, "uncancel")
  /\ \/ /\ ~Keeps(r)
        /\ site' = None /\ installed' = None
        /\ touched' = touched \cup Hit(r)
     \/ UNCHANGED <<site, installed, touched>>
  /\ UNCHANGED <<mutex, cancel, wr, down, drive, dead, faults, late, stuck>>

EndUncancel(r) ==
  /\ run[r].pc = "uncancel"
  /\ cancel' = FALSE
  /\ Reaches(r, "unjob")
  /\ UNCHANGED <<site, installed, mutex, wr, down, drive, dead, faults, marks>>

\* Mutant: a run that keeps its site leaves the flag.
EndUnjobKept(r) ==
  /\ run[r].pc = "unjob"
  /\ Reaches(r, "over")
  /\ dead' = Exited(r)
  /\ UNCHANGED <<site, stuck, installed, mutex, cancel, wr, down, drive, faults, touched, late>>

\* clear_own_job: a flag with this name and this process, if the lock is free.
EndUnjob(r) ==
  /\ run[r].pc = "unjob"
  /\ Reaches(r, "over")
  /\ dead' = Exited(r)
  /\ LET mine == IF Owns(r) THEN site.job.pid = PidOf(r) ELSE FALSE IN
     \/ mine /\ Free /\ site' = [site EXCEPT !.job = None] /\ UNCHANGED stuck
     \/ mine /\ ~Free /\ stuck' = stuck \cup {r} /\ UNCHANGED site
     \/ ~mine /\ UNCHANGED <<site, stuck>>
  /\ UNCHANGED <<installed, mutex, cancel, wr, down, drive, faults, touched, late>>

----------------------------------------------------------------------------
\* Everybody else

\* apply and set of the CLI ask job_gate and then take the lock, `up` asks
\* nobody, the REST handlers ask under the lock.
WriterGate(w, k) ==
  /\ wr[w].pc = "idle" /\ wr[w].kind = None
  /\ k \in {"rest-apply", "rest-set"} => down = "up" /\ ServeProcess \notin dead
  /\ wr' = [wr EXCEPT ![w] =
       [kind |-> k, pc |-> IF k \in {"apply", "set"} /\ LiveJob THEN "idle" ELSE "gated"]]
  /\ UNCHANGED <<site, installed, mutex, cancel, run, down, drive, dead, faults, marks>>

WriterLock(w) ==
  /\ wr[w].pc = "gated"
  /\ LET k == wr[w].kind
         go == /\ Free
               /\ k \in {"rest-apply", "rest-set"} => ~LiveJob
               /\ k \in {"set", "rest-set"} => site # None
     IN  \/ go /\ mutex' = w /\ wr' = [wr EXCEPT ![w].pc = "write"]
         \/ ~go /\ wr' = [wr EXCEPT ![w].pc = "idle"] /\ UNCHANGED mutex
  /\ UNCHANGED <<site, installed, cancel, run, down, drive, dead, faults, marks>>

\* The replay: an apply starts a site without a flag, a set keeps the flag
\* there is (the REST one drops a dead owner's).
WriterWrites(w) ==
  /\ wr[w].pc = "write"
  /\ wr' = [wr EXCEPT ![w].pc = "idle"]
  /\ mutex' = None
  /\ LET k == wr[w].kind
         s == [rtt |-> 300, loss |-> None]
         job == IF k \in {"apply", "up", "rest-apply"} \/ site = None THEN None
                ELSE IF k = "rest-set" /\ ~LiveJob THEN None ELSE site.job
     IN  \/ /\ site' = [spec |-> s, job |-> job] /\ installed' = s
            /\ touched' = touched \cup Hit(w)
         \/ UNCHANGED <<site, installed, touched>>
  /\ UNCHANGED <<cancel, run, down, drive, dead, faults, late, stuck>>

Fault == faults < MaxFaults /\ faults' = faults + 1

\* clear, the watchdog or the lazy expiry: lock-free.
Sweep ==
  /\ Fault /\ site # None
  /\ site' = None /\ installed' = None
  /\ touched' = touched \cup Hit(None)
  /\ UNCHANGED <<mutex, cancel, run, wr, down, drive, dead, late, stuck>>

\* What scenario stop does to the two files.
StopEffect ==
  IF LiveJob THEN cancel' = TRUE /\ UNCHANGED site
  ELSE IF site # None /\ site.job # None
  THEN /\ \/ Free /\ site' = [site EXCEPT !.job = None]
          \/ ~Free /\ UNCHANGED site
       /\ UNCHANGED cancel
  ELSE cancel' = FALSE /\ UNCHANGED site

Stop ==
  /\ Fault
  /\ StopEffect
  /\ UNCHANGED <<installed, mutex, run, wr, down, drive, dead, marks>>

\* Serve, or the process of a CLI run, is killed, and the runs in it.
Kill(p) ==
  /\ Fault /\ p \notin dead
  /\ p \in Runs => Live(p) /\ PidOf(p) = p
  /\ dead' = dead \cup {p} \cup {r \in Runs : Live(r) /\ PidOf(r) = p}
  /\ run' = [r \in Runs |-> IF Live(r) /\ PidOf(r) = p
                            THEN [run[r] EXCEPT !.pc = "killed"] ELSE run[r]]
  /\ down' = IF p = ServeProcess THEN "out" ELSE down
  /\ UNCHANGED <<site, installed, mutex, cancel, wr, drive, marks>>

----------------------------------------------------------------------------
\* The graceful exit of serve: stop flag, wait for the drive (two seconds),
\* clear unless the wait ran out, exit with whatever still runs

ShutdownStop ==
  /\ Fault /\ down = "up" /\ ServeProcess \notin dead
  /\ StopEffect
  /\ down' = "await"
  /\ UNCHANGED <<installed, mutex, run, wr, drive, dead, marks>>

ShutdownAwait ==
  /\ down = "await"
  /\ down' = IF \E r \in Runs : r = drive /\ Live(r) THEN "exit" ELSE "clear"
  /\ UNCHANGED <<site, installed, mutex, cancel, run, wr, drive, dead, faults, marks>>

ShutdownClear ==
  /\ down = "clear"
  /\ down' = "exit"
  /\ IF site = None THEN UNCHANGED <<site, installed, touched>>
     ELSE \/ site' = None /\ installed' = None /\ touched' = touched \cup Hit(None)
          \/ UNCHANGED <<site, installed, touched>>
  /\ UNCHANGED <<mutex, cancel, run, wr, drive, dead, faults, late, stuck>>

ShutdownExit ==
  /\ down = "exit"
  /\ down' = "out"
  /\ dead' = dead \cup {ServeProcess} \cup {r \in Runs : Live(r) /\ PidOf(r) = ServeProcess}
  /\ run' = [r \in Runs |-> IF Live(r) /\ PidOf(r) = ServeProcess
                            THEN [run[r] EXCEPT !.pc = "killed"] ELSE run[r]]
  /\ UNCHANGED <<site, installed, mutex, cancel, wr, drive, faults, marks>>

----------------------------------------------------------------------------
Kinds == {"apply", "set", "up", "rest-apply", "rest-set"}

RunStep(r) ==
  \/ Gate(r) \/ DropCancel(r) \/ TakeLock(r) \/ ApplyFirst(r) \/ WriteFlag(r)
  \/ Begin(r) \/ Checkpoint(r) \/ Elapse(r) \/ StepLocks(r) \/ StepSets(r)
  \/ EndClear(r) \/ EndUncancel(r) \/ EndUnjob(r)

Shutdown == ShutdownStop \/ ShutdownAwait \/ ShutdownClear \/ ShutdownExit

ScenarioNext ==
  \/ \E r \in Runs : \/ RunStep(r)
                     \/ \E l \in Launches : Submit(r, l)
  \/ \E w \in Writers : WriterLock(w) \/ WriterWrites(w) \/ \E k \in Kinds : WriterGate(w, k)
  \/ Sweep \/ Stop \/ Shutdown
  \/ \E p \in Runs \cup {ServeProcess} : Kill(p)

ScenarioSpec == ScenarioInit /\ [][ScenarioNext]_scenariovars

----------------------------------------------------------------------------
ScenarioTypeOK ==
  /\ site # None => site.job = None \/ site.job.name \in Names
  /\ mutex \in Runs \cup Writers \cup {None}
  /\ cancel \in BOOLEAN
  /\ \A r \in Runs : run[r].pc \in Driving \cup Ending \cup
       {"idle", "gate", "fresh", "lock", "apply", "flag", "begin", "over", "refused", "killed"}
  /\ down \in {"up", "await", "clear", "exit", "out"}
  /\ drive \in Runs \cup {None}

(* A scenario that ends without `aborted` (the mark that invalidates the    *)
(* judge's verdict) had the site to itself from its flag to its last set:  *)
(* whoever changed the site in between, a sweep, a stop, another run, made *)
(* it end as aborted, unless they were let in before the flag was written  *)
(* or are a run with the same name.                                        *)
DoneMeansAlone ==
  \A r \in Runs :
    (run[r].end = "done" /\ r \in touched) => r \in late

(* A plan that passes the dry run of start_blocking never fails on a merge *)
(* in the middle of a run, in no round and whatever the site was before.   *)
DryRunSuffices == \A r \in Runs : run[r].end # "bad-param"

(* The lifetime a run gives its site covers the whole run, so that the     *)
(* fuses do not end it: for every accepted plan that has only steps or     *)
(* only rounds and not more sets than the margin has seconds.              *)
FuseCoversPlan ==
  \A r \in Runs :
    LET plan == run[r].plan IN
    IF plan = None THEN TRUE
    ELSE LET l == Last(plan.lines) IN
         (IF l.kind = "repeat"
          THEN StepTimes(plan) = {} /\ 2 * l.rounds * SetCost <= COVERING_MARGIN_SECS
          ELSE TRUE)
           => RunLength(plan) <= Covering(plan)

(* No scenario locks everybody out after its end: a flag whose owner is    *)
(* alive belongs to a run that is under way, except when the end of a run  *)
(* found the lock taken, the start could not write its timeline, or a set  *)
(* of an overlapping run with the same name put the flag back.             *)
FlagHasRun ==
  (LiveJob /\ stuck = {} /\ ~\E q \in late : run[q].name = site.job.name) =>
     \E r \in Runs : Live(r) /\ site.job.pid = PidOf(r) /\ site.job.name = run[r].name
=============================================================================
