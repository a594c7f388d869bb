-------------------------- MODULE HostConfigProofs --------------------------
(***************************************************************************)
(* Safety of the host's configuration core, for any set of configurations  *)
(* and any number of edits, pushes, commands and faults.                   *)
(*                                                                         *)
(* Argument.  The core's steps exclude each other by the file lock, which  *)
(* follows the executor's position also when the agent is replaced under   *)
(* it (TypeInv).  On that rest four invariants:                            *)
(*   Cleared   between the teardown gate and the apply nothing but the     *)
(*             agent is registered and nothing but the agent lives;        *)
(*   Lamps     every copy of the ledger that may be saved has an honest    *)
(*             conflict lamp;                                              *)
(*   Era       since a teardown was verified with the file it read, all    *)
(*             that was started is of that file, and so is every running   *)
(*             row that may be saved;                                      *)
(*   Lands     while nothing was missed, somebody still owes a look at the *)
(*             file, or the file has landed.                               *)
(***************************************************************************)
EXTENDS HostConfig, TLAPS

\* Positions of a run: under the lock, and past the teardown gate.
Held == {"judge", "tear", "activate", "apply", "reconcile", "failed"}
Late == {"activate", "apply", "reconcile", "failed"}
Holding == Held \cup {"save"}
Others == Apps \ {"agent"}

Maybe == Configs \cup {None}
Rows == [running : Maybe, pending : Maybe, last : Maybe,
         flagPending : BOOLEAN, flagError : BOOLEAN, conflict : BOOLEAN]

Runs == [pc : Held \cup {"lock"}, force : BOOLEAN, v : Nat, hash : Maybe,
         led : Rows, todo : SUBSET Apps]
Bares == [pc : {"idle", "commit", "wake", "record"}]
Writes == [pc : {"write", "render"}, config : Configs, v : Nat]
Saves == [pc : {"save"}, hash : Configs, led : Rows]
Execs == Runs \cup Bares \cup Writes \cup Saves

\* The executors x: what they hold, and which of them may be where.
ExecsOK(x) ==
  /\ x \in [Executors -> Execs]
  /\ \A e \in Executors : x[e].pc \in Held => x[e].hash \in Configs
  /\ x["local"].pc \notin {"record", "write", "render", "save"}
  /\ x["cli"].pc \notin {"record", "write", "render", "save", "commit", "wake"}
  /\ x["push"].pc \notin {"commit", "wake"}

\* The lock l is held by the executor that is in the core.
Mutex(x, l) ==
  /\ l \in Executors \cup {None}
  /\ \A e \in Executors : x[e].pc \in Holding <=> l = e

\* The tasks of the agent g: none when it is down, the boot pass alone when
\* it boots.
Tasks(x, g) ==
  /\ g = "down" => x["push"] = Idle /\ x["local"] = Idle
  /\ g = "boot" => x["push"] = Idle /\ x["local"].pc # "idle"
  /\ x["local"].pc \in {"commit", "wake"} => g = "boot"

\* The agent g is down exactly when it has no process.
Lives(g, pr) ==
  /\ g \in {"down", "boot", "spawn", "up"}
  /\ (g = "down") <=> (pr["agent"] = {})

ClusterOK(en, pr) == en \in [Apps -> Maybe] /\ pr \in [Apps -> SUBSET Configs]
DataOK ==
  /\ file \in Configs /\ ox \in Configs /\ led \in Rows
  /\ watch \in [baseline : Maybe, prev : Maybe]
  /\ slot # None => slot \in [config : Configs, v : Nat]
  /\ version \in Nat /\ baks \in Nat
  /\ stop \in [pc : {"idle", "left", "check"}] \cup [pc : {"save"}, led : Rows]
  /\ pushes \in Nat

TypeInv ==
  /\ DataOK /\ ClusterOK(entry, proc) /\ ExecsOK(ex)
  /\ Mutex(ex, lock) /\ Tasks(ex, agent) /\ Lives(agent, proc)

----------------------------------------------------------------------------
\* The records of the executors.

LEMMA Bare == Idle \in Bares /\ \A r \in Bares : r \in Execs
<1>1. Idle \in Bares
  BY DEF Idle, Bares
<1> QED BY <1>1 DEF Execs

\* The position of an executor tells which record it holds.
LEMMA Kinds ==
  ASSUME NEW r \in Execs
  PROVE  /\ r.pc \in Held \cup {"lock"} => r \in Runs
         /\ r.pc \in {"write", "render"} => r \in Writes
         /\ r.pc = "save" => r \in Saves
         /\ r.pc \in {"idle", "commit", "wake", "record"} => r \in Bares
BY DEF Execs, Runs, Bares, Writes, Saves, Held

LEMMA RowFields ==
  ASSUME NEW l \in Rows
  PROVE  /\ l.running \in Maybe /\ l.pending \in Maybe /\ l.last \in Maybe
         /\ l.flagPending \in BOOLEAN /\ l.flagError \in BOOLEAN /\ l.conflict \in BOOLEAN
BY DEF Rows

LEMMA RunFields ==
  ASSUME NEW r \in Runs
  PROVE  /\ r.pc \in Held \cup {"lock"} /\ r.force \in BOOLEAN /\ r.v \in Nat
         /\ r.hash \in Maybe /\ r.led \in Rows /\ r.todo \subseteq Apps
BY DEF Runs

LEMMA EmptyRow == Empty \in Rows
BY DEF Empty, Rows, Maybe

LEMMA RingFields ==
  ASSUME NEW b \in BOOLEAN, NEW n \in Nat
  PROVE  Ring(b, n) \in Execs /\ Ring(b, n) \in Runs /\ Ring(b, n).pc = "lock"
BY EmptyRow DEF Ring, Runs, Execs, Held, Maybe

\* The ways a run of the core goes on.
Begin(r, h, l) == [r EXCEPT !.pc = "judge", !.hash = h, !.led = l]
Tear(r, t) == [r EXCEPT !.pc = "tear", !.todo = t]
Left(r, t) == [r EXCEPT !.todo = t]
Ready(r, l) == [r EXCEPT !.pc = "activate", !.led = l]
At(r, p) == [r EXCEPT !.pc = p]

LEMMA BeginFields ==
  ASSUME NEW r \in Runs, NEW h \in Configs, NEW l \in Rows
  PROVE  LET q == Begin(r, h, l)
         IN q \in Runs /\ q \in Execs /\ q.pc = "judge" /\ q.hash = h /\ q.led = l
BY DEF Begin, Runs, Execs, Held, Maybe

LEMMA TearFields ==
  ASSUME NEW r \in Runs, NEW t \in SUBSET Apps
  PROVE  LET q == Tear(r, t)
         IN /\ q \in Runs /\ q \in Execs /\ q.pc = "tear"
            /\ q.hash = r.hash /\ q.led = r.led
BY DEF Tear, Runs, Execs, Held, Maybe

LEMMA LeftFields ==
  ASSUME NEW r \in Runs, NEW t \in SUBSET Apps
  PROVE  LET q == Left(r, t)
         IN /\ q \in Runs /\ q \in Execs /\ q.pc = r.pc
            /\ q.hash = r.hash /\ q.led = r.led
BY DEF Left, Runs, Execs, Held, Maybe

LEMMA ReadyFields ==
  ASSUME NEW r \in Runs, NEW l \in Rows
  PROVE  LET q == Ready(r, l)
         IN /\ q \in Runs /\ q \in Execs /\ q.pc = "activate"
            /\ q.hash = r.hash /\ q.led = l
BY DEF Ready, Runs, Execs, Held, Maybe

LEMMA AtFields ==
  ASSUME NEW r \in Runs, NEW p \in Held
  PROVE  LET q == At(r, p)
         IN /\ q \in Runs /\ q \in Execs /\ q.pc = p
            /\ q.hash = r.hash /\ q.led = r.led
BY DEF At, Runs, Execs, Held, Maybe

----------------------------------------------------------------------------
\* What the actions do to the executors.

\* Executor e goes to q, the others stay.
Goes(e, q) ==
  /\ ex' \in [Executors -> Execs] /\ ex'[e] = q
  /\ \A d \in Executors \ {e} : ex'[d] = ex[d]

LEMMA SetGoes ==
  ASSUME TypeInv, NEW e \in Executors, NEW q \in Execs, Set(e, q)
  PROVE  Goes(e, q)
BY DEF TypeInv, ExecsOK, Set, Goes

\* How a step of executor e keeps the executors' invariants: it holds the
\* lock l afterwards or not.
LEMMA GoesOK ==
  ASSUME TypeInv, NEW e \in Executors, NEW q \in Execs, NEW l, Goes(e, q),
         q.pc \in Held => q.hash \in Configs,
         e = "local" => q.pc \notin {"record", "write", "render", "save"},
         e = "cli" => q.pc \notin {"record", "write", "render", "save", "commit", "wake"},
         e = "push" => q.pc \notin {"commit", "wake"},
         \/ q.pc \in Holding /\ l = e /\ (lock = None \/ lock = e)
         \/ q.pc \notin Holding /\ l = (IF lock = e THEN None ELSE lock)
         \/ q.pc \notin Holding /\ ex[e].pc \notin Holding /\ l = lock
  PROVE  ExecsOK(ex') /\ Mutex(ex', l)
<1> USE DEF TypeInv, Goes
<1>1. ExecsOK(ex')
  BY DEF ExecsOK, Executors
<1>2. l \in Executors \cup {None}
  BY DEF Mutex
<1>3. ASSUME NEW d \in Executors PROVE ex'[d].pc \in Holding <=> l = d
  <2>1. CASE d = e
    BY <2>1, HostAssumption DEF Mutex
  <2>2. CASE d # e
    BY <2>2, HostAssumption DEF Mutex
  <2> QED BY <2>1, <2>2
<1> QED BY <1>1, <1>2, <1>3 DEF Mutex

\* The end of a run of the core.
LEMMA ReturnDoes ==
  ASSUME TypeInv, NEW e \in Executors, NEW ok \in BOOLEAN, Return(e, ok),
         ex[e].pc \in Held \cup {"lock", "commit"}, ex[e].pc = "commit" => ~ok
  PROVE  \E q \in Execs :
           /\ Goes(e, q)
           /\ \/ q = Idle
              \/ e = "push" /\ ok /\ q.pc = "record"
           /\ ExecsOK(ex') /\ Mutex(ex', lock') /\ Tasks(ex', agent')
           /\ agent' = (IF e = "local" /\ agent = "boot" THEN "spawn" ELSE agent)
           /\ version' \in Nat
           /\ missed' = (IF ok THEN missed ELSE missed \cup {"failed"})
           /\ lock' = (IF lock = e THEN None ELSE lock)
<1> DEFINE q == IF e = "push" /\ ok THEN [pc |-> "record"] ELSE Idle
<1>1. q \in Execs /\ q.pc \in {"idle", "record"} /\ (e # "push" => q = Idle)
  BY Bare DEF Execs, Bares, Idle
<1>2. Set(e, q)
  BY DEF Return
<1>3. Goes(e, q)
  BY <1>1, <1>2, SetGoes
<1>4. q.pc \notin Holding /\ (q # Idle => q.pc = "record" /\ e = "push" /\ ok) /\ (e # "push" => q.pc = "idle")
  BY <1>1 DEF Holding, Held, Idle
<1>5. lock' = (IF lock = e THEN None ELSE lock)
  BY DEF Return
<1>6. ExecsOK(ex') /\ Mutex(ex', lock')
  <2> HIDE DEF q
  <2>1. q.pc \in Held => q.hash \in Configs
    BY <1>4 DEF Holding
  <2>2. e = "local" => q.pc \notin {"record", "write", "render", "save"}
    BY <1>4
  <2>3. e = "cli" => q.pc \notin {"record", "write", "render", "save", "commit", "wake"}
    BY <1>4
  <2>4. e = "push" => q.pc \notin {"commit", "wake"}
    BY <1>1
  <2> QED BY <1>1, <1>3, <1>4, <1>5, <2>1, <2>2, <2>3, <2>4, GoesOK
<1>7. agent' = (IF e = "local" /\ agent = "boot" THEN "spawn" ELSE agent)
  BY DEF Return
<1>8. Tasks(ex', agent')
  <2> HIDE DEF q
  <2>1. ex[e].pc # "idle" /\ ex[e] # Idle
    BY DEF Held, Idle
  <2>2. CASE e = "local"
    BY <2>1, <2>2, <1>1, <1>3, <1>7 DEF TypeInv, Tasks, Goes, Executors, Idle
  <2>3. CASE e = "push"
    BY <2>1, <2>3, <1>1, <1>3, <1>7 DEF TypeInv, Tasks, Goes, Executors
  <2>4. CASE e = "cli"
    BY <2>4, <1>3, <1>7 DEF TypeInv, Tasks, Goes, Executors
  <2> QED BY <2>2, <2>3, <2>4 DEF Executors
<1>9. version' \in Nat
  <2>1. CASE e = "push" /\ ok
    <3>1. ex[e] \in Runs
      BY <2>1, Kinds DEF TypeInv, ExecsOK
    <3> QED BY <2>1, <3>1, RunFields DEF Return
  <2>2. CASE ~(e = "push" /\ ok)
    BY <2>2 DEF Return, TypeInv, DataOK
  <2> QED BY <2>1, <2>2
<1>10. missed' = (IF ok THEN missed ELSE missed \cup {"failed"})
  BY DEF Return
<1> HIDE DEF q
<1> QED BY <1>1, <1>3, <1>4, <1>5, <1>6, <1>7, <1>8, <1>9, <1>10

\* A change of the cluster that leaves the executors at x, or replaces the
\* agent and its tasks.
Replaced(x) ==
  /\ agent' \in {"down", "boot"} /\ ex' \in [Executors -> Execs]
  /\ ex'["cli"] = x["cli"] /\ ex'["push"] = Idle
  /\ ex'["local"] = (IF agent' = "down" THEN Idle ELSE [pc |-> "commit"])
Sweeps(x) ==
  \/ ex' = x /\ UNCHANGED <<agent, lock, watch, slot, version>>
  \/ Replaced(x)

\* What the invariant asks of the cluster and the executors afterwards.
Sound ==
  /\ ClusterOK(entry', proc') /\ ExecsOK(ex') /\ Mutex(ex', lock')
  /\ Tasks(ex', agent') /\ Lives(agent', proc')
  /\ version' \in Nat /\ watch' \in [baseline : Maybe, prev : Maybe]
  /\ slot' # None => slot' \in [config : Configs, v : Nat]

LEMMA ClusterDoes ==
  ASSUME TypeInv, NEW en, NEW pr, NEW fresh \in BOOLEAN, NEW x,
         ClusterOK(en, pr), ExecsOK(x), Mutex(x, lock), Tasks(x, agent),
         (~fresh /\ pr["agent"] # {}) => proc["agent"] # {},
         Cluster(en, pr, fresh, x)
  PROVE  /\ Sweeps(x) /\ entry' = en /\ proc' = pr
         /\ Sound
<1>1. entry' = en /\ proc' = pr
  BY DEF Cluster
<1>2. CASE ~(pr["agent"] = {} \/ fresh)
  <2>1. ex' = x /\ UNCHANGED <<agent, lock, watch, slot, version>>
    BY <1>2 DEF Cluster
  <2>2. Lives(agent', proc')
    BY <1>1, <1>2, <2>1 DEF Lives, TypeInv
  <2> QED BY <1>1, <2>1, <2>2 DEF Sweeps, Sound, TypeInv, DataOK
<1>3. CASE pr["agent"] = {} \/ fresh
  <2> DEFINE gone == pr["agent"] = {}
             loc == IF gone THEN Idle ELSE [pc |-> "commit"]
  <2>1. /\ agent' = (IF gone THEN "down" ELSE "boot")
        /\ ex' = [x EXCEPT !["push"] = Idle, !["local"] = loc]
        /\ lock' = (IF lock \in InAgent THEN None ELSE lock)
        /\ watch' = NoWatch /\ slot' = None
        /\ version' = (IF gone THEN 0 ELSE baks)
    BY <1>3 DEF Cluster
  <2>2. loc \in Execs /\ loc.pc \in {"idle", "commit"} /\ Idle \in Execs /\ Idle.pc = "idle"
    BY Bare DEF Idle, Bares, Execs
  <2> HIDE DEF loc
  <2>3. /\ ex' \in [Executors -> Execs] /\ ex'["cli"] = x["cli"]
        /\ ex'["push"] = Idle /\ ex'["local"] = loc
    BY <2>1, <2>2 DEF ExecsOK, Executors
  <2>4. ExecsOK(ex')
    BY <2>2, <2>3 DEF ExecsOK, Executors, Held
  <2>5. Mutex(ex', lock')
    <3>1. loc.pc \notin Holding /\ Idle.pc \notin Holding
      BY <2>2 DEF Holding, Held
    <3>2. lock' \in Executors \cup {None} /\ lock' \notin {"push", "local"} /\ (lock' = "cli" <=> lock = "cli")
      BY <2>1, HostAssumption DEF Mutex, InAgent, Executors
    <3> QED BY <3>1, <3>2, <2>3 DEF Mutex, Executors
  <2>6. Tasks(ex', agent') /\ Lives(agent', proc')
    BY <1>1, <2>1, <2>3 DEF Tasks, Lives, loc, Idle
  <2>7. version' \in Nat /\ watch' \in [baseline : Maybe, prev : Maybe]
    BY <2>1 DEF TypeInv, DataOK, NoWatch, Maybe
  <2>8. Sweeps(x)
    BY <2>1, <2>3 DEF Sweeps, Replaced, loc
  <2> QED BY <1>1, <2>1, <2>4, <2>5, <2>6, <2>7, <2>8 DEF Sound
<1> QED BY <1>2, <1>3

\* The same when the executors stay where they are.
LEMMA ClusterStays ==
  ASSUME TypeInv, NEW en, NEW pr, NEW fresh \in BOOLEAN, ClusterOK(en, pr),
         (~fresh /\ pr["agent"] # {}) => proc["agent"] # {},
         Cluster(en, pr, fresh, ex)
  PROVE  /\ Sweeps(ex) /\ entry' = en /\ proc' = pr
         /\ Sound
<1>1. ExecsOK(ex) /\ Mutex(ex, lock) /\ Tasks(ex, agent)
  BY DEF TypeInv
<1> QED BY <1>1, ClusterDoes

\* The same when e, in the core, goes on to q in it.
LEMMA ClusterGoes ==
  ASSUME TypeInv, NEW en, NEW pr, NEW fresh \in BOOLEAN, NEW e \in Executors, NEW q \in Runs,
         ClusterOK(en, pr), (~fresh /\ pr["agent"] # {}) => proc["agent"] # {},
         ex[e].pc \in Held, q.pc \in Held, q.hash = ex[e].hash,
         Cluster(en, pr, fresh, [ex EXCEPT ![e] = q])
  PROVE  /\ Sweeps([ex EXCEPT ![e] = q]) /\ entry' = en /\ proc' = pr
         /\ Sound
<1> DEFINE x == [ex EXCEPT ![e] = q]
<1>1. /\ x \in [Executors -> Execs] /\ x[e] = q
      /\ \A d \in Executors \ {e} : x[d] = ex[d]
  BY DEF TypeInv, ExecsOK, Execs
<1> HIDE DEF x
<1>2. ExecsOK(x)
  BY <1>1 DEF TypeInv, ExecsOK, Executors, Held
<1>3. Mutex(x, lock)
  BY <1>1 DEF TypeInv, Mutex, Holding
<1>4. Tasks(x, agent)
  <2>1. ex[e].pc # "idle" /\ ex[e] # Idle /\ q.pc \notin {"idle", "commit", "wake"}
    BY DEF Held, Idle
  <2> QED BY <2>1, <1>1 DEF TypeInv, Tasks, Executors
<1>5. Cluster(en, pr, fresh, x)
  BY DEF x
<1>6. /\ Sweeps(x) /\ entry' = en /\ proc' = pr
      /\ Sound
  BY <1>2, <1>3, <1>4, <1>5, ClusterDoes
<1> QED BY <1>6 DEF x

\* What the calls that stop and delete apps leave of the cluster.
Shrinks(en, pr) ==
  \A a \in Apps : en[a] \in {None, entry[a]} /\ pr[a] \in {{}, proc[a]}

LEMMA DeletedIsCluster ==
  ASSUME TypeInv, NEW A, NEW F, NEW K, NEW x, Deleted(A, F, K, x)
  PROVE  \E en, pr : /\ Cluster(en, pr, FALSE, x) /\ ClusterOK(en, pr) /\ Shrinks(en, pr)
                     /\ pr["agent"] # {} => proc["agent"] # {}
<1> DEFINE en == [a \in Apps |-> IF a \in A \ K THEN None ELSE entry[a]]
           pr == [a \in Apps |-> IF a \in (A \cap Registered) \ F THEN {} ELSE proc[a]]
<1>1. Cluster(en, pr, FALSE, x)
  BY DEF Deleted
<1>2. ClusterOK(en, pr) /\ Shrinks(en, pr)
  BY DEF TypeInv, ClusterOK, Shrinks, Maybe
<1>3. pr["agent"] # {} => proc["agent"] # {}
  BY DEF Apps
<1> QED BY <1>1, <1>2, <1>3

LEMMA RemovedIsCluster ==
  ASSUME TypeInv, NEW A, NEW x, Removed(A, x)
  PROVE  \E en, pr : /\ Cluster(en, pr, FALSE, x) /\ ClusterOK(en, pr) /\ Shrinks(en, pr)
                     /\ pr["agent"] # {} => proc["agent"] # {}
<1>1. PICK F, K : Deleted(A, F, K, x)
  BY DEF Removed
<1> QED BY <1>1, DeletedIsCluster

\* What `oxmgr apply` of the apps S makes of the cluster.
Raises(S, keep, en, pr) ==
  /\ \A a \in Apps : en[a] = (IF a \in S THEN ox ELSE IF a \in keep THEN entry[a] ELSE None)
  /\ \A a \in Apps : \/ pr[a] \in {{}, proc[a]}
                     \/ a \in S /\ pr[a] = {ox, file}

LEMMA AppliedIsCluster ==
  ASSUME TypeInv, NEW S, NEW keep, NEW x, Applied(S, keep, x)
  PROVE  \E en, pr, fresh :
           /\ Cluster(en, pr, fresh, x) /\ fresh \in BOOLEAN /\ ClusterOK(en, pr)
           /\ Raises(S, keep, en, pr)
           /\ (~fresh /\ pr["agent"] # {}) => proc["agent"] # {}
           /\ fresh = ("agent" \in S /\ (entry["agent"] = None \/ ~SameCommand("agent", entry["agent"], ox)))
           /\ fresh => pr["agent"] # {}
<1> DEFINE New == {a \in S : entry[a] = None \/ ~SameCommand(a, entry[a], ox)}
           en == [a \in Apps |-> IF a \in S THEN ox
                                 ELSE IF a \in keep THEN entry[a] ELSE None]
           pr == [a \in Apps |-> IF a \in New THEN {ox, file}
                                 ELSE IF a \in S \cup keep \/ entry[a] = None
                                      THEN proc[a] ELSE {}]
           fresh == "agent" \in New
<1>1. Cluster(en, pr, fresh, x)
  BY DEF Applied
<1>2. fresh = ("agent" \in S /\ (entry["agent"] = None \/ ~SameCommand("agent", entry["agent"], ox)))
  OBVIOUS
<1>3. \A a \in New : a \in S
  OBVIOUS
<1> HIDE DEF New
<1>4. ClusterOK(en, pr)
  BY DEF TypeInv, ClusterOK, DataOK, Maybe
<1>5. Raises(S, keep, en, pr)
  BY <1>3 DEF Raises
<1>6. (~fresh /\ pr["agent"] # {}) => proc["agent"] # {}
  BY DEF Apps
<1>7. fresh \in BOOLEAN
  OBVIOUS
<1>8. fresh => pr["agent"] # {}
  BY DEF Apps
<1> HIDE DEF en, pr, fresh
<1> QED BY <1>1, <1>2, <1>4, <1>5, <1>6, <1>7, <1>8

\* No other app than those without an entry but with a process is doubled.
LEMMA AppliedDoubles ==
  ASSUME NEW S, NEW keep, NEW x, Applied(S, keep, x)
  PROVE  doubled' \subseteq doubled \cup {a \in S : entry[a] = None /\ proc[a] # {}}
BY DEF Applied

----------------------------------------------------------------------------
\* The types, and what each action does.

\* What the core's steps leave alone: the cluster; the files it does not own.
SameCluster == UNCHANGED <<entry, proc, doubled>>
SameFiles == UNCHANGED <<file, ox, touched>>
SameAgent == UNCHANGED <<agent, watch, slot, version>>

\* A step of one executor and of nothing else that is typed.
LEMMA GoesTasks ==
  ASSUME TypeInv, NEW e \in Executors, NEW q \in Execs, Goes(e, q), agent' = agent,
         \/ e = "cli"
         \/ agent \in {"up", "spawn"} /\ (e = "local" => q.pc \notin {"commit", "wake"})
         \/ e = "push" /\ ex[e].pc # "idle"
         \/ ex[e].pc # "idle" /\ q.pc \notin {"idle", "commit"} /\ (q.pc = "wake" => ex[e].pc = "commit")
  PROVE  Tasks(ex', agent')
<1>1. Idle.pc = "idle"
  BY DEF Idle
<1>2. ex' \in [Executors -> Execs] /\ ex'[e] = q /\ \A d \in Executors \ {e} : ex'[d] = ex[d]
  BY DEF Goes
<1>3. CASE e = "cli"
  BY <1>1, <1>2, <1>3 DEF TypeInv, Tasks, Executors
<1>4. CASE e = "local"
  BY <1>1, <1>2, <1>4 DEF TypeInv, Tasks, Executors
<1>5. CASE e = "push"
  BY <1>1, <1>2, <1>5 DEF TypeInv, Tasks, Executors
<1> QED BY <1>3, <1>4, <1>5 DEF Executors

LEMMA GoesType ==
  ASSUME TypeInv, DataOK', SameCluster, Lives(agent', proc'), Tasks(ex', agent'),
         ExecsOK(ex'), Mutex(ex', lock')
  PROVE  TypeInv'
BY DEF TypeInv, SameCluster, ClusterOK

LEMMA SoundType ==
  ASSUME TypeInv, Sound, file' \in Configs, ox' \in Configs, led' \in Rows, baks' \in Nat,
         pushes' \in Nat,
         stop' \in [pc : {"idle", "left", "check"}] \cup [pc : {"save"}, led : Rows]
  PROVE  TypeInv'
BY DEF TypeInv, Sound, DataOK

LEMMA AcquireDoes ==
  ASSUME TypeInv, NEW e \in Executors, Acquire(e)
  PROVE  /\ TypeInv' /\ lock = None /\ ex[e].pc = "lock"
         /\ \E q \in Runs : Goes(e, q) /\ q.pc = "judge" /\ q.hash = file /\ q.led = led
         /\ SameCluster /\ SameFiles /\ SameAgent /\ UNCHANGED <<led, stop>> /\ missed' = {}
<1> DEFINE q == Begin(ex[e], file, led)
<1>1. ex[e].pc = "lock" /\ lock = None /\ lock' = e /\ Set(e, q) /\ missed' = {}
  BY DEF Acquire, Begin
<1>2. SameCluster /\ SameFiles /\ SameAgent /\ UNCHANGED <<led, stop, baks, pushes>>
  BY DEF Acquire, SameCluster, SameFiles, SameAgent
<1>3. ex[e] \in Runs
  BY <1>1, Kinds DEF TypeInv, ExecsOK
<1>4. q \in Runs /\ q \in Execs /\ q.pc = "judge" /\ q.hash = file /\ q.led = led
  <2>1. file \in Configs /\ led \in Rows
    BY DEF TypeInv, DataOK
  <2> QED BY <1>3, <2>1, BeginFields
<1> HIDE DEF q
<1>5. Goes(e, q)
  BY <1>1, <1>4, SetGoes
<1>6. ExecsOK(ex') /\ Mutex(ex', lock')
  <2>1. q.pc \in Holding /\ q.hash \in Configs
    BY <1>4 DEF Holding, Held, TypeInv, DataOK
  <2> QED BY <1>1, <1>4, <1>5, <2>1, GoesOK
<1>7. Tasks(ex', agent')
  BY <1>1, <1>2, <1>4, <1>5, GoesTasks DEF SameAgent
<1>8. DataOK' /\ Lives(agent', proc')
  BY <1>2 DEF TypeInv, DataOK, Lives, SameFiles, SameAgent, SameCluster
<1>9. TypeInv'
  BY <1>2, <1>6, <1>7, <1>8, GoesType
<1> QED BY <1>1, <1>2, <1>4, <1>5, <1>9

\* A run of the core that ends and writes the row l.
LEMMA EndDoes ==
  ASSUME TypeInv, NEW e \in Executors, NEW ok \in BOOLEAN, Return(e, ok), led' \in Rows,
         ex[e].pc \in Held \cup {"lock", "commit"}, ex[e].pc = "commit" => ~ok,
         SameCluster, SameFiles, UNCHANGED <<watch, slot, stop, baks, pushes>>
  PROVE  /\ TypeInv'
         /\ \E q \in Execs : Goes(e, q) /\ q.pc \in {"idle", "record"}
         /\ UNCHANGED <<watch, slot, stop>>
         /\ missed' = (IF ok THEN missed ELSE missed \cup {"failed"})
         /\ agent' = (IF e = "local" /\ agent = "boot" THEN "spawn" ELSE agent)
<1>1. PICK q \in Execs :
           /\ Goes(e, q)
           /\ \/ q = Idle
              \/ e = "push" /\ ok /\ q.pc = "record"
           /\ ExecsOK(ex') /\ Mutex(ex', lock') /\ Tasks(ex', agent')
           /\ agent' = (IF e = "local" /\ agent = "boot" THEN "spawn" ELSE agent)
           /\ version' \in Nat
           /\ missed' = (IF ok THEN missed ELSE missed \cup {"failed"})
           /\ lock' = (IF lock = e THEN None ELSE lock)
  BY ReturnDoes
<1>2. DataOK'
  BY <1>1 DEF TypeInv, DataOK, SameFiles
<1>3. Lives(agent', proc')
  BY <1>1 DEF TypeInv, Lives, SameCluster
<1>4. TypeInv'
  BY <1>1, <1>2, <1>3, GoesType
<1>5. q.pc \in {"idle", "record"}
  BY <1>1 DEF Idle
<1> QED BY <1>1, <1>4, <1>5

SameRow(l, m) ==
  l.running = m.running /\ l.pending = m.pending /\ l.last = m.last /\ l.conflict = m.conflict

\* The end of the run of e, with the outcome ok.
Ends(e, ok) ==
  /\ ex[e].pc \in Held \cup {"lock", "commit"}
  /\ \E q \in Execs : Goes(e, q) /\ q.pc \in {"idle", "record"}
  /\ SameCluster /\ SameFiles /\ UNCHANGED <<watch, slot, stop>>
  /\ missed' = (IF ok THEN missed ELSE missed \cup {"failed"})
  /\ agent' = (IF e = "local" /\ agent = "boot" THEN "spawn" ELSE agent)

LEMMA EndsStill ==
  ASSUME TypeInv, NEW e \in Executors, NEW ok \in BOOLEAN, Return(e, ok), led' \in Rows,
         ex[e].pc \in Held \cup {"lock", "commit"}, ex[e].pc = "commit" => ~ok,
         UNCHANGED <<file, ox, entry, proc, watch, slot, baks, stop, pushes, doubled, touched>>
  PROVE  TypeInv' /\ Ends(e, ok)
<1>1. SameCluster /\ SameFiles /\ UNCHANGED <<watch, slot, stop, baks, pushes>>
  BY DEF SameCluster, SameFiles
<1>2. /\ TypeInv'
      /\ \E q \in Execs : Goes(e, q) /\ q.pc \in {"idle", "record"}
      /\ UNCHANGED <<watch, slot, stop>>
      /\ missed' = (IF ok THEN missed ELSE missed \cup {"failed"})
      /\ agent' = (IF e = "local" /\ agent = "boot" THEN "spawn" ELSE agent)
  BY <1>1, EndDoes
<1> QED BY <1>1, <1>2 DEF Ends

LEMMA PcsHeld ==
  /\ {"judge", "tear", "activate", "apply", "reconcile", "failed"} \subseteq Held
  /\ {"lock", "commit", "idle", "wake", "record", "write", "render", "save"} \cap Held = {}
  /\ {"lock", "commit", "idle", "wake", "record", "write", "render"} \cap Holding = {}
  /\ Held \subseteq Holding /\ "save" \in Holding /\ Late \subseteq Held
BY DEF Held, Holding, Late

LEMMA LockTimeoutDoes ==
  ASSUME TypeInv, NEW e \in Executors, LockTimeout(e)
  PROVE  TypeInv' /\ Ends(e, FALSE) /\ led' = led
<1>1. /\ Return(e, FALSE) /\ led' = led /\ ex[e].pc \in Held \cup {"lock", "commit"}
      /\ UNCHANGED <<file, ox, entry, proc, watch, slot, baks, stop, pushes, doubled, touched>>
  BY DEF LockTimeout
<1>2. led' \in Rows
  BY <1>1 DEF TypeInv, DataOK
<1> QED BY <1>1, <1>2, EndsStill

LEMMA JudgeNoOpDoes ==
  ASSUME TypeInv, NEW e \in Executors, JudgeNoOp(e)
  PROVE  /\ TypeInv' /\ Ends(e, TRUE) /\ led' = led
         /\ ex[e].pc = "judge" /\ ~MustRun(e)
<1>1. /\ Return(e, TRUE) /\ led' = led /\ ex[e].pc = "judge" /\ ~MustRun(e)
      /\ UNCHANGED <<file, ox, entry, proc, watch, slot, baks, stop, pushes, doubled, touched>>
  BY DEF JudgeNoOp
<1>2. led' \in Rows
  BY <1>1 DEF TypeInv, DataOK
<1>3. ex[e].pc \in Held \cup {"lock", "commit"} /\ ex[e].pc # "commit"
  BY <1>1 DEF Held
<1> QED BY <1>1, <1>2, <1>3, EndsStill

LEMMA RefusedDoes ==
  ASSUME TypeInv, NEW e \in Executors, JudgeRefuse(e) \/ ReconcileFails(e)
  PROVE  TypeInv' /\ Ends(e, FALSE) /\ led' = led
<1>1. /\ Return(e, FALSE) /\ led' = led /\ ex[e].pc \in {"judge", "reconcile"}
      /\ UNCHANGED <<file, ox, entry, proc, watch, slot, baks, stop, pushes, doubled, touched>>
  BY DEF JudgeRefuse, ReconcileFails
<1>2. led' \in Rows
  BY <1>1 DEF TypeInv, DataOK
<1>3. ex[e].pc \in Held \cup {"lock", "commit"} /\ ex[e].pc # "commit"
  BY <1>1 DEF Held
<1> QED BY <1>1, <1>2, <1>3, EndsStill

\* A row that is flagged and saved.
LEMMA FlagPending ==
  ASSUME NEW l \in Rows
  PROVE  LET m == [l EXCEPT !.flagPending = TRUE] IN m \in Rows /\ SameRow(m, l)
BY DEF Rows, SameRow
LEMMA FlagError ==
  ASSUME NEW l \in Rows
  PROVE  LET m == [l EXCEPT !.flagError = TRUE] IN m \in Rows /\ SameRow(m, l)
BY DEF Rows, SameRow

LEMMA FailedDoes ==
  ASSUME TypeInv, NEW e \in Executors, Residue(e) \/ Mismatch(e)
  PROVE  /\ TypeInv' /\ Ends(e, FALSE) /\ SameRow(led', ex[e].led)
         /\ ex[e].pc \in {"tear", "reconcile", "failed"}
<1>1. /\ Return(e, FALSE) /\ ex[e].pc \in {"tear", "reconcile", "failed"}
      /\ UNCHANGED <<file, ox, entry, proc, watch, slot, baks, stop, pushes, doubled, touched>>
      /\ \/ led' = [ex[e].led EXCEPT !.flagPending = TRUE]
         \/ led' = [ex[e].led EXCEPT !.flagError = TRUE]
  BY DEF Residue, Mismatch
<1>2. ex[e].pc \in Held \cup {"lock", "commit"} /\ ex[e].pc # "commit" /\ ex[e].pc \in Held
  BY <1>1 DEF Held
<1>3. ex[e].led \in Rows
  BY <1>2, Kinds, RunFields DEF TypeInv, ExecsOK
<1>4. led' \in Rows /\ SameRow(led', ex[e].led)
  BY <1>1, <1>3, FlagPending, FlagError
<1> QED BY <1>1, <1>2, <1>4, EndsStill

LEMMA CommitRow ==
  ASSUME NEW l \in Rows, NEW h \in Configs
  PROVE  LET m == flags_after_commit(l, h)
         IN /\ m \in Rows /\ m.running = h /\ m.pending = None /\ m.last = l.last
            /\ m.conflict = (l.last \notin {None, h})
BY DEF Rows, flags_after_commit, Maybe

LEMMA CommitDoes ==
  ASSUME TypeInv, NEW e \in Executors, Commit(e)
  PROVE  /\ TypeInv' /\ Ends(e, TRUE) /\ ex[e].pc = "reconcile" /\ reconciles(ex[e].hash)
         /\ ex[e].hash \in Configs /\ ex[e].led \in Rows
         /\ led' = flags_after_commit(ex[e].led, ex[e].hash)
<1>1. /\ Return(e, TRUE) /\ ex[e].pc = "reconcile" /\ reconciles(ex[e].hash)
      /\ UNCHANGED <<file, ox, entry, proc, watch, slot, baks, stop, pushes, doubled, touched>>
      /\ led' = flags_after_commit(ex[e].led, ex[e].hash)
  BY DEF Commit
<1>2. ex[e].pc \in Held \cup {"lock", "commit"} /\ ex[e].pc # "commit" /\ ex[e].pc \in Held
  BY <1>1 DEF Held
<1>3. ex[e].led \in Rows /\ ex[e].hash \in Configs
  BY <1>2, Kinds, RunFields DEF TypeInv, ExecsOK
<1>4. led' \in Rows
  BY <1>1, <1>3, CommitRow
<1> QED BY <1>1, <1>2, <1>3, <1>4, EndsStill

\* A run of the core that goes on under the lock.
LEMMA OnType ==
  ASSUME TypeInv, NEW e \in Executors, NEW q \in Runs, Set(e, q), ex[e].pc \in Held,
         q.pc \in Held, q.hash = ex[e].hash, led' \in Rows, ox' \in Configs,
         file' = file, SameCluster, SameAgent, UNCHANGED <<lock, stop, baks, pushes>>
  PROVE  TypeInv' /\ Goes(e, q)
<1>1. q \in Execs /\ q.hash \in Configs /\ lock = e
  BY DEF Execs, TypeInv, ExecsOK, Mutex, Holding
<1>2. Goes(e, q)
  BY <1>1, SetGoes
<1>3. ExecsOK(ex') /\ Mutex(ex', lock')
  <2>1. q.pc \in Holding /\ q.pc \notin {"record", "write", "render", "save", "commit", "wake"}
    BY DEF Holding, Held
  <2> QED BY <1>1, <1>2, <2>1, GoesOK
<1>4. Tasks(ex', agent')
  <2>1. ex[e].pc # "idle" /\ q.pc \notin {"idle", "commit"} /\ q.pc # "wake"
    BY DEF Held
  <2> QED BY <1>1, <1>2, <2>1, GoesTasks DEF SameAgent
<1>5. DataOK' /\ Lives(agent', proc')
  BY DEF TypeInv, DataOK, Lives, SameAgent, SameCluster
<1> QED BY <1>2, <1>3, <1>4, <1>5, GoesType

LEMMA JudgeRunDoes ==
  ASSUME TypeInv, NEW e \in Executors, JudgeRun(e)
  PROVE  /\ TypeInv' /\ ex[e].pc = "judge"
         /\ \E q \in Runs : /\ Goes(e, q) /\ q.pc = "tear"
                            /\ q.hash = ex[e].hash /\ q.led = ex[e].led
         /\ SameCluster /\ SameFiles /\ SameAgent /\ UNCHANGED <<led, stop, missed, lock>>
<1> DEFINE t == IF CliRun(e) THEN Registered ELSE Registered \ {"agent"}
           q == Tear(ex[e], t)
<1>1. ex[e].pc = "judge" /\ Set(e, q) /\ UNCHANGED <<led, stop, missed, lock, baks, pushes>>
  BY DEF JudgeRun, Tear
<1>2. SameCluster /\ SameFiles /\ SameAgent
  BY DEF JudgeRun, SameCluster, SameFiles, SameAgent
<1>3. ex[e].pc \in Held /\ ex[e] \in Runs
  BY <1>1, Kinds DEF TypeInv, ExecsOK, Held
<1>4. t \in SUBSET Apps
  BY DEF Registered
<1>5. q \in Runs /\ q.pc = "tear" /\ q.hash = ex[e].hash /\ q.led = ex[e].led
  <2> HIDE DEF t
  <2> QED BY <1>3, <1>4, TearFields
<1> HIDE DEF q
<1>6. q.pc \in Held /\ led' \in Rows /\ ox' \in Configs /\ file' = file
  BY <1>1, <1>2, <1>5 DEF TypeInv, DataOK, SameFiles, Held
<1>7. TypeInv' /\ Goes(e, q)
  BY <1>1, <1>2, <1>3, <1>5, <1>6, OnType
<1> QED BY <1>1, <1>2, <1>5, <1>7

LEMMA PendingRow ==
  ASSUME NEW l \in Rows, NEW h \in Configs
  PROVE  LET m == [l EXCEPT !.pending = h]
         IN /\ m \in Rows /\ m.running = l.running /\ m.pending = h
            /\ m.last = l.last /\ m.conflict = l.conflict
BY DEF Rows, Maybe

LEMMA PrepareDoes ==
  ASSUME TypeInv, NEW e \in Executors, Prepare(e)
  PROVE  /\ TypeInv' /\ ex[e].pc = "tear" /\ Clean(e)
         /\ led'.running = ex[e].led.running /\ led'.pending = ex[e].hash
         /\ led'.last = ex[e].led.last /\ led'.conflict = ex[e].led.conflict
         /\ \E q \in Runs : /\ Goes(e, q) /\ q.pc = "activate"
                            /\ q.hash = ex[e].hash /\ q.led = led'
         /\ touched' = (file # ex[e].hash)
         /\ SameCluster /\ SameAgent /\ UNCHANGED <<file, ox, stop, missed, lock>>
<1> DEFINE q == Ready(ex[e], led')
<1>1. /\ ex[e].pc = "tear" /\ Clean(e) /\ Set(e, q)
      /\ led' = [ex[e].led EXCEPT !.pending = ex[e].hash]
      /\ UNCHANGED <<file, ox, stop, missed, lock, baks, pushes>>
      /\ touched' = (file # ex[e].hash)
  BY DEF Prepare, Ready
<1>2. SameCluster /\ SameAgent
  BY DEF Prepare, SameCluster, SameAgent
<1>3. ex[e].pc \in Held /\ ex[e] \in Runs
  BY <1>1, Kinds DEF TypeInv, ExecsOK, Held
<1>4. ex[e].hash \in Configs /\ ex[e].led \in Rows
  BY <1>3, RunFields DEF TypeInv, ExecsOK
<1>5. /\ led' \in Rows /\ led'.running = ex[e].led.running /\ led'.pending = ex[e].hash
      /\ led'.last = ex[e].led.last /\ led'.conflict = ex[e].led.conflict
  BY <1>1, <1>4, PendingRow
<1>6. q \in Runs /\ q.pc = "activate" /\ q.hash = ex[e].hash /\ q.led = led'
  BY <1>3, <1>5, ReadyFields
<1> HIDE DEF q
<1>7. q.pc \in Held /\ ox' \in Configs /\ file' = file
  BY <1>1, <1>6 DEF TypeInv, DataOK, Held
<1>8. TypeInv' /\ Goes(e, q)
  BY <1>1, <1>2, <1>3, <1>5, <1>6, <1>7, OnType
<1> QED BY <1>1, <1>2, <1>5, <1>6, <1>8

LEMMA ActivateDoes ==
  ASSUME TypeInv, NEW e \in Executors, Activate(e)
  PROVE  /\ TypeInv' /\ ex[e].pc = "activate" /\ ox' = ex[e].hash
         /\ \E q \in Runs : /\ Goes(e, q) /\ q.pc = "apply"
                            /\ q.hash = ex[e].hash /\ q.led = ex[e].led
         /\ SameCluster /\ SameAgent /\ UNCHANGED <<file, led, stop, missed, lock, touched>>
<1> DEFINE q == At(ex[e], "apply")
<1>1. /\ ex[e].pc = "activate" /\ Set(e, q) /\ ox' = ex[e].hash
      /\ UNCHANGED <<file, led, stop, missed, lock, touched, baks, pushes>>
  BY DEF Activate, At
<1>2. SameCluster /\ SameAgent
  BY DEF Activate, SameCluster, SameAgent
<1>3. ex[e].pc \in Held /\ ex[e] \in Runs /\ "apply" \in Held
  BY <1>1, Kinds DEF TypeInv, ExecsOK, Held
<1>4. q \in Runs /\ q.pc = "apply" /\ q.hash = ex[e].hash /\ q.led = ex[e].led
  BY <1>3, AtFields
<1> HIDE DEF q
<1>5. q.pc \in Held /\ led' \in Rows /\ ox' \in Configs /\ file' = file
  BY <1>1, <1>3, <1>4 DEF TypeInv, DataOK, ExecsOK
<1>6. TypeInv' /\ Goes(e, q)
  BY <1>1, <1>2, <1>3, <1>4, <1>5, OnType
<1> QED BY <1>1, <1>2, <1>4, <1>6

\* An executor that moves outside the core.
LEMMA OffType ==
  ASSUME TypeInv, NEW e \in Executors, NEW q \in Execs, Goes(e, q), DataOK', SameCluster,
         agent' = agent,
         q.pc \notin Held \cup {"save", "commit"},
         ex[e].pc \notin Held \cup {"save"}, lock' = lock,
         q.pc \in {"write", "render", "record"} => e = "push",
         q.pc = "wake" => e = "local" /\ ex[e].pc = "commit",
         \/ e = "cli"
         \/ agent \in {"up", "spawn"} /\ q.pc # "wake"
         \/ e = "push" /\ ex[e].pc # "idle"
         \/ ex[e].pc # "idle" /\ q.pc # "idle"
  PROVE  TypeInv'
<1>1. ExecsOK(ex') /\ Mutex(ex', lock')
  BY GoesOK DEF Holding
<1>2. Tasks(ex', agent')
  BY GoesTasks
<1>3. Lives(agent', proc')
  BY DEF TypeInv, Lives, SameCluster
<1> QED BY <1>1, <1>2, <1>3, GoesType

LEMMA BootCommitDoes ==
  ASSUME TypeInv, BootCommit
  PROVE  /\ TypeInv' /\ lock = None /\ ex["local"].pc = "commit"
         /\ SameCluster /\ SameFiles /\ UNCHANGED <<watch, slot, stop>>
         /\ \/ /\ reconciles(file) /\ led' = flags_after_commit(led, file)
               /\ agent' = "spawn" /\ missed' = {} /\ Goes("local", Idle)
            \/ /\ UNCHANGED <<led, agent, missed>>
               /\ \E q \in Bares : Goes("local", q) /\ q.pc = "wake"
<1>1. /\ ex["local"].pc = "commit" /\ lock = None
      /\ UNCHANGED <<watch, slot, stop, lock, version, baks, pushes>>
  BY DEF BootCommit
<1>2. SameCluster /\ SameFiles
  BY DEF BootCommit, SameCluster, SameFiles
<1>3. "local" \in Executors /\ agent = "boot"
  BY <1>1 DEF Executors, TypeInv, Tasks
<1>4. CASE led.pending = file /\ reconciles(file)
  <2>1. /\ led' = flags_after_commit(led, file)
        /\ agent' = "spawn" /\ Set("local", Idle) /\ missed' = {}
    BY <1>4 DEF BootCommit
  <2>2. led' \in Rows
    <3>1. led \in Rows /\ file \in Configs
      BY DEF TypeInv, DataOK
    <3> QED BY <2>1, <3>1, CommitRow
  <2>3. Idle \in Execs /\ Idle.pc = "idle"
    BY Bare DEF Idle
  <2>4. Goes("local", Idle)
    BY <2>1, <2>3, <1>3, SetGoes
  <2>5. ExecsOK(ex') /\ Mutex(ex', lock')
    BY <1>1, <1>3, <2>3, <2>4, GoesOK DEF Holding, Held
  <2>6. Tasks(ex', agent')
    BY <2>1, <2>3, <2>4 DEF Tasks, Goes
  <2>7. DataOK' /\ Lives(agent', proc')
    BY <1>1, <1>2, <1>3, <2>1, <2>2 DEF TypeInv, DataOK, Lives, SameFiles, SameCluster
  <2>8. TypeInv'
    BY <1>2, <2>5, <2>6, <2>7, GoesType
  <2> QED BY <1>1, <1>2, <1>4, <2>1, <2>4, <2>8
<1>5. CASE ~(led.pending = file /\ reconciles(file))
  <2> DEFINE q == [pc |-> "wake"]
  <2>1. Set("local", q) /\ UNCHANGED <<led, agent, missed>>
    BY <1>5 DEF BootCommit
  <2>2. q \in Execs /\ q \in Bares /\ q.pc = "wake"
    BY DEF Execs, Bares
  <2> HIDE DEF q
  <2>3. Goes("local", q)
    BY <2>1, <2>2, <1>3, SetGoes
  <2>4. DataOK'
    BY <1>1, <1>2, <2>1 DEF TypeInv, DataOK, SameFiles
  <2>5. TypeInv'
    <3>1. q.pc \notin Held \cup {"save", "commit"} /\ ex["local"].pc \notin Held \cup {"save"}
      BY <1>1, <2>2 DEF Held
    <3> QED BY <1>1, <1>2, <1>3, <2>1, <2>2, <2>3, <2>4, <3>1, OffType
  <2> QED BY <1>1, <1>2, <2>1, <2>2, <2>3, <2>5
<1> QED BY <1>4, <1>5

LEMMA WakeDoes ==
  ASSUME TypeInv, Wake
  PROVE  /\ TypeInv' /\ ex["local"].pc = "wake"
         /\ SameCluster /\ SameFiles /\ UNCHANGED <<led, watch, slot, stop, lock>>
         /\ \/ /\ led.running = file /\ AllRunning(file)
               /\ agent' = "spawn" /\ missed' = {} /\ Goes("local", Idle)
            \/ /\ UNCHANGED <<agent, missed>>
               /\ \E q \in Runs : Goes("local", q) /\ q.pc = "lock"
<1>1. /\ ex["local"].pc = "wake"
      /\ UNCHANGED <<led, watch, slot, stop, lock, version, baks, pushes>>
  BY DEF Wake
<1>2. SameCluster /\ SameFiles
  BY DEF Wake, SameCluster, SameFiles
<1>3. "local" \in Executors /\ agent = "boot"
  BY <1>1 DEF Executors, TypeInv, Tasks
<1>4. DataOK'
  BY <1>1, <1>2 DEF TypeInv, DataOK, SameFiles
<1>5. CASE ~(gate_needs_reconcile \/ ~AllRunning(file))
  <2>1. agent' = "spawn" /\ Set("local", Idle) /\ missed' = {}
    BY <1>5 DEF Wake
  <2>2. led.running = file /\ AllRunning(file)
    BY <1>5 DEF gate_needs_reconcile, should_reconcile
  <2>3. Idle \in Execs /\ Idle.pc = "idle"
    BY Bare DEF Idle
  <2>4. Goes("local", Idle)
    BY <2>1, <2>3, <1>3, SetGoes
  <2>5. ExecsOK(ex') /\ Mutex(ex', lock')
    BY <1>1, <1>3, <2>3, <2>4, GoesOK DEF Holding, Held
  <2>6. Tasks(ex', agent')
    BY <2>1, <2>3, <2>4 DEF Tasks, Goes
  <2>7. Lives(agent', proc')
    BY <1>2, <1>3, <2>1 DEF TypeInv, Lives, SameCluster
  <2>8. TypeInv'
    BY <1>2, <1>4, <2>5, <2>6, <2>7, GoesType
  <2> QED BY <1>1, <1>2, <2>1, <2>2, <2>4, <2>8
<1>6. CASE gate_needs_reconcile \/ ~AllRunning(file)
  <2> DEFINE q == Ring(FALSE, 0)
  <2>1. Set("local", q) /\ UNCHANGED <<agent, missed>>
    BY <1>6 DEF Wake
  <2>2. q \in Execs /\ q \in Runs /\ q.pc = "lock"
    BY RingFields
  <2> HIDE DEF q
  <2>3. Goes("local", q)
    BY <2>1, <2>2, <1>3, SetGoes
  <2>4. TypeInv'
    <3>1. q.pc \notin Held \cup {"save", "commit"} /\ ex["local"].pc \notin Held \cup {"save"}
      BY <1>1, <2>2 DEF Held
    <3> QED BY <1>1, <1>2, <1>3, <1>4, <2>1, <2>2, <2>3, <3>1, OffType
  <2> QED BY <1>1, <1>2, <2>1, <2>2, <2>3, <2>4
<1> QED BY <1>5, <1>6

\* Steps in which the executors, the lock and the cluster rest.
LEMMA RestType ==
  ASSUME TypeInv, DataOK', SameCluster, UNCHANGED <<ex, lock>>,
         agent' = agent \/ (agent = "spawn" /\ agent' = "up")
  PROVE  TypeInv'
<1>1. ExecsOK(ex') /\ Mutex(ex', lock')
  BY DEF TypeInv
<1>2. Tasks(ex', agent') /\ Lives(agent', proc')
  BY DEF TypeInv, Tasks, Lives, SameCluster
<1> QED BY <1>1, <1>2, GoesType

LEMMA SpawnDoes ==
  ASSUME TypeInv, Spawn
  PROVE  /\ TypeInv' /\ agent = "spawn" /\ agent' = "up"
         /\ SameCluster /\ SameFiles /\ UNCHANGED <<led, ex, lock, slot, stop, missed>>
<1>1. /\ agent = "spawn" /\ agent' = "up" /\ watch' = [baseline |-> file, prev |-> None]
      /\ UNCHANGED <<led, ex, lock, slot, stop, missed, version, baks, pushes>>
  BY DEF Spawn
<1>2. SameCluster /\ SameFiles
  BY DEF Spawn, SameCluster, SameFiles
<1>3. DataOK'
  BY <1>1, <1>2 DEF TypeInv, DataOK, SameFiles, Maybe
<1> QED BY <1>1, <1>2, <1>3, RestType

LEMMA WatchTickDoes ==
  ASSUME TypeInv, WatchTick
  PROVE  /\ TypeInv' /\ agent = "up" /\ ex["local"] = Idle
         /\ SameCluster /\ SameFiles /\ UNCHANGED <<led, agent, lock, slot, stop, missed>>
         /\ \/ \E q \in Runs : Goes("local", q) /\ q.pc = "lock"
            \/ ex' = ex /\ watch'.baseline = watch.baseline
<1> DEFINE trigger == file # watch.baseline /\ file = watch.prev
<1>1. /\ agent = "up" /\ ex["local"] = Idle
      /\ watch' = [baseline |-> IF trigger THEN file ELSE watch.baseline, prev |-> file]
      /\ IF trigger THEN Set("local", Ring(FALSE, 0)) ELSE ex' = ex
      /\ UNCHANGED <<led, agent, lock, slot, stop, missed, version, baks, pushes>>
  BY DEF WatchTick
<1>2. SameCluster /\ SameFiles
  BY DEF WatchTick, SameCluster, SameFiles
<1> HIDE DEF trigger
<1>3. DataOK'
  <2>1. watch.baseline \in Maybe /\ file \in Maybe
    BY DEF TypeInv, DataOK, Maybe
  <2>2. watch' \in [baseline : Maybe, prev : Maybe]
    BY <1>1, <2>1
  <2> QED BY <1>1, <1>2, <2>2 DEF TypeInv, DataOK, SameFiles
<1>4. CASE ~trigger
  BY <1>1, <1>2, <1>3, <1>4, RestType
<1>5. CASE trigger
  <2> DEFINE q == Ring(FALSE, 0)
  <2>1. q \in Execs /\ q \in Runs /\ q.pc = "lock"
    BY RingFields
  <2>2. Set("local", q)
    BY <1>1, <1>5
  <2> HIDE DEF q
  <2>3. Goes("local", q)
    BY <2>1, <2>2, SetGoes DEF Executors
  <2>4. q.pc \notin Held \cup {"save", "commit"} /\ ex["local"].pc \notin Held \cup {"save"}
    BY <1>1, <2>1 DEF Held, Idle
  <2>5. TypeInv'
    BY <1>1, <1>2, <1>3, <2>1, <2>3, <2>4, OffType DEF Executors
  <2> QED BY <1>1, <1>2, <2>1, <2>3, <2>5
<1> QED BY <1>4, <1>5

LEMMA OutsideDoes ==
  ASSUME TypeInv, NEW c \in Configs, PushArrives(c)
  PROVE  /\ TypeInv' /\ SameCluster /\ SameFiles
         /\ UNCHANGED <<led, ex, agent, watch, lock, stop, missed>>
<1>1. /\ pushes' = pushes + 1 /\ UNCHANGED <<led, ex, agent, watch, lock, stop, missed, version, baks>>
      /\ \E v \in 1..pushes' : slot' = [config |-> c, v |-> v]
  BY DEF PushArrives
<1>2. SameCluster /\ SameFiles
  BY DEF PushArrives, SameCluster, SameFiles
<1>3. slot' \in [config : Configs, v : Nat] /\ pushes' \in Nat
  BY <1>1 DEF TypeInv, DataOK
<1>4. DataOK'
  BY <1>1, <1>2, <1>3 DEF TypeInv, DataOK, SameFiles
<1> QED BY <1>1, <1>2, <1>4, RestType

LEMMA EditDoes ==
  ASSUME TypeInv, NEW c \in Configs, Edit(c)
  PROVE  /\ TypeInv' /\ SameCluster /\ touched' = TRUE
         /\ UNCHANGED <<ox, led, ex, agent, watch, lock, stop>>
         /\ missed' = {} => agent \notin {"boot", "spawn"} /\ file' # watch.baseline
<1>1. /\ UNCHANGED <<ox, led, ex, agent, watch, slot, lock, stop, version, baks, pushes>>
      /\ file' = c /\ touched' = TRUE
      /\ missed' = {} => agent \notin {"boot", "spawn"} /\ c # watch.baseline
  BY DEF Edit
<1>2. SameCluster
  BY DEF Edit, SameCluster
<1>3. DataOK'
  BY <1>1 DEF TypeInv, DataOK
<1> QED BY <1>1, <1>2, <1>3, RestType

LEMMA StopCheckDoes ==
  ASSUME TypeInv, StopCheck
  PROVE  /\ TypeInv' /\ SameCluster /\ SameFiles
         /\ UNCHANGED <<led, ex, agent, watch, lock, missed>>
         /\ stop'.pc = "save" => stop'.led.running = None
<1> DEFINE l == [led EXCEPT !.running = None]
<1>1. /\ UNCHANGED <<led, ex, agent, watch, slot, lock, missed, version, baks, pushes>>
      /\ stop' = Idle \/ stop' = [pc |-> "save", led |-> l]
  BY DEF StopCheck
<1>2. SameCluster /\ SameFiles
  BY DEF StopCheck, SameCluster, SameFiles
<1>3. l \in Rows /\ l.running = None
  BY DEF TypeInv, DataOK, Rows, Maybe
<1> HIDE DEF l
<1>4. /\ stop' \in [pc : {"idle", "left", "check"}] \cup [pc : {"save"}, led : Rows]
      /\ stop'.pc = "save" => stop'.led.running = None
  BY <1>1, <1>3 DEF Idle
<1>5. DataOK'
  BY <1>1, <1>2, <1>4 DEF TypeInv, DataOK, SameFiles
<1> QED BY <1>1, <1>2, <1>4, <1>5, RestType

LEMMA StopSaveDoes ==
  ASSUME TypeInv, StopSave
  PROVE  /\ TypeInv' /\ SameCluster /\ SameFiles /\ stop.pc = "save" /\ stop'.pc # "save"
         /\ led' = stop.led /\ UNCHANGED <<ex, agent, watch, lock>> /\ missed' # {}
<1>1. /\ UNCHANGED <<ex, agent, watch, slot, lock, version, baks, pushes>>
      /\ stop.pc = "save" /\ stop' = Idle /\ led' = stop.led /\ missed' # {}
  BY DEF StopSave
<1>2. SameCluster /\ SameFiles
  BY DEF StopSave, SameCluster, SameFiles
<1>3. led' \in Rows
  BY <1>1 DEF TypeInv, DataOK
<1>4. stop' \in [pc : {"idle", "left", "check"}] /\ stop'.pc = "idle"
  BY <1>1 DEF Idle
<1>5. DataOK'
  BY <1>1, <1>2, <1>3, <1>4 DEF TypeInv, DataOK, SameFiles
<1> QED BY <1>1, <1>2, <1>4, <1>5, RestType

LEMMA TakePushDoes ==
  ASSUME TypeInv, TakePush
  PROVE  /\ TypeInv' /\ SameCluster /\ SameFiles /\ ex["push"] = Idle
         /\ UNCHANGED <<led, agent, watch, lock, stop, missed>>
         /\ \/ ex' = ex
            \/ \E q \in Writes : Goes("push", q) /\ q.pc = "write"
<1>1. /\ UNCHANGED <<led, agent, watch, lock, stop, missed, version, pushes>>
      /\ agent = "up" /\ ex["push"] = Idle /\ slot # None /\ slot' = None
  BY DEF TakePush
<1>2. SameCluster /\ SameFiles
  BY DEF TakePush, SameCluster, SameFiles
<1>3. slot.config \in Configs /\ slot.v \in Nat
  BY <1>1 DEF TypeInv, DataOK
<1>4. CASE slot.v <= version \/ slot.config \in Invalid
  <2>1. UNCHANGED <<ex, baks>>
    BY <1>4 DEF TakePush
  <2>2. DataOK'
    BY <1>1, <1>2, <2>1 DEF TypeInv, DataOK, SameFiles
  <2>3. TypeInv'
    BY <1>1, <1>2, <2>1, <2>2, RestType
  <2> QED BY <1>1, <1>2, <2>1, <2>3
<1>5. CASE ~(slot.v <= version \/ slot.config \in Invalid)
  <2> DEFINE q == [pc |-> "write", config |-> slot.config, v |-> slot.v]
  <2>1. Set("push", q) /\ baks' = (IF slot.v > baks THEN slot.v ELSE baks)
    BY <1>5 DEF TakePush
  <2>2. q \in Writes /\ q \in Execs /\ q.pc = "write"
    BY <1>3 DEF Writes, Execs
  <2> HIDE DEF q
  <2>3. DataOK'
    BY <1>1, <1>2, <1>3, <2>1 DEF TypeInv, DataOK, SameFiles
  <2>4. Goes("push", q)
    BY <2>1, <2>2, SetGoes DEF Executors
  <2>5. q.pc \notin Held \cup {"save", "commit"} /\ ex["push"].pc \notin Held \cup {"save"}
    BY <1>1, <2>2 DEF Held, Idle
  <2>6. TypeInv'
    BY <1>1, <1>2, <2>2, <2>3, <2>4, <2>5, OffType DEF Executors
  <2> QED BY <1>1, <1>2, <2>2, <2>4, <2>6
<1> QED BY <1>4, <1>5

LEMMA WriteFields ==
  ASSUME NEW r \in Writes
  PROVE  /\ r.config \in Configs /\ r.v \in Nat
         /\ [r EXCEPT !.pc = "render"] \in Writes /\ [r EXCEPT !.pc = "render"].pc = "render"
BY DEF Writes

LEMMA PushFileDoes ==
  ASSUME TypeInv, PushFile
  PROVE  /\ TypeInv' /\ SameCluster /\ touched' = TRUE /\ ex["push"].pc = "write"
         /\ UNCHANGED <<ox, led, agent, watch, lock, stop>>
         /\ \E q \in Writes : Goes("push", q) /\ q.pc = "render"
<1> DEFINE q == [ex["push"] EXCEPT !.pc = "render"]
<1>1. /\ UNCHANGED <<ox, led, agent, watch, slot, lock, stop, version, baks, pushes>>
      /\ ex["push"].pc = "write" /\ Set("push", q) /\ file' = ex["push"].config /\ touched' = TRUE
  BY DEF PushFile
<1>2. SameCluster
  BY DEF PushFile, SameCluster
<1>3. "push" \in Executors /\ ex["push"] \in Writes
  BY <1>1, Kinds DEF TypeInv, ExecsOK, Executors
<1>4. q \in Writes /\ q \in Execs /\ q.pc = "render" /\ file' \in Configs
  BY <1>1, <1>3, WriteFields DEF Execs
<1> HIDE DEF q
<1>5. DataOK'
  BY <1>1, <1>4 DEF TypeInv, DataOK
<1>6. Goes("push", q)
  BY <1>1, <1>3, <1>4, SetGoes
<1>7. q.pc \notin Held \cup {"save", "commit"} /\ ex["push"].pc \notin Held \cup {"save"}
  BY <1>1, <1>4 DEF Held
<1>8. TypeInv'
  BY <1>1, <1>2, <1>3, <1>4, <1>5, <1>6, <1>7, OffType
<1> QED BY <1>1, <1>2, <1>4, <1>6, <1>8

LEMMA PushOxfileDoes ==
  ASSUME TypeInv, PushOxfile
  PROVE  /\ TypeInv' /\ SameCluster /\ ex["push"].pc = "render"
         /\ UNCHANGED <<file, led, agent, watch, lock, stop>>
         /\ \E q \in Execs : Goes("push", q)
              /\ \/ q = Idle /\ UNCHANGED <<ox, touched>> /\ missed' # {}
                 \/ q.pc = "lock" /\ touched' = TRUE /\ missed' = missed
<1>1. /\ UNCHANGED <<file, led, agent, watch, slot, lock, stop, version, baks, pushes>>
      /\ ex["push"].pc = "render"
  BY DEF PushOxfile
<1>2. SameCluster
  BY DEF PushOxfile, SameCluster
<1>3. "push" \in Executors /\ ex["push"] \in Writes
  BY <1>1, Kinds DEF TypeInv, ExecsOK, Executors
<1>4. ex["push"].config \in Configs /\ ex["push"].v \in Nat
  BY <1>3, WriteFields
<1> DEFINE q == IF ex["push"].config \in Keyless THEN Idle ELSE Ring(FALSE, ex["push"].v)
<1>5. q \in Execs /\ (ex["push"].config \in Keyless => q = Idle)
      /\ (ex["push"].config \notin Keyless => q.pc = "lock")
  <2>1. Idle \in Execs /\ Ring(FALSE, ex["push"].v) \in Execs /\ Ring(FALSE, ex["push"].v).pc = "lock"
    BY <1>4, Bare, RingFields
  <2> QED BY <2>1
<1>6. /\ Set("push", q)
      /\ ex["push"].config \in Keyless => UNCHANGED <<ox, touched>> /\ missed' # {}
      /\ ex["push"].config \notin Keyless => ox' = ex["push"].config /\ touched' = TRUE /\ missed' = missed
  BY DEF PushOxfile
<1> HIDE DEF q
<1>7. DataOK'
  BY <1>1, <1>4, <1>6 DEF TypeInv, DataOK
<1>8. Goes("push", q)
  BY <1>3, <1>5, <1>6, SetGoes
<1>9. q.pc \in {"idle", "lock"}
  BY <1>5 DEF Idle
<1>10. q.pc \notin Held \cup {"save", "commit"} /\ ex["push"].pc \notin Held \cup {"save"}
  BY <1>1, <1>9 DEF Held
<1>11. TypeInv'
  BY <1>1, <1>2, <1>3, <1>5, <1>7, <1>8, <1>9, <1>10, OffType
<1> QED BY <1>1, <1>2, <1>5, <1>6, <1>8, <1>11

LEMMA RecordLoadDoes ==
  ASSUME TypeInv, RecordLoad
  PROVE  /\ TypeInv' /\ SameCluster /\ SameFiles /\ ex["push"].pc = "record" /\ lock = None
         /\ UNCHANGED <<led, agent, watch, stop, missed>>
         /\ \E q \in Saves : Goes("push", q) /\ q.pc = "save" /\ q.led = led
<1> DEFINE q == [pc |-> "save", hash |-> file, led |-> led]
<1>1. /\ UNCHANGED <<led, agent, watch, slot, stop, missed, version, baks, pushes>>
      /\ ex["push"].pc = "record" /\ lock = None /\ lock' = "push" /\ Set("push", q)
  BY DEF RecordLoad
<1>2. SameCluster /\ SameFiles
  BY DEF RecordLoad, SameCluster, SameFiles
<1>3. "push" \in Executors
  BY DEF Executors
<1>4. q \in Saves /\ q \in Execs /\ q.pc = "save" /\ q.led = led
  BY DEF TypeInv, DataOK, Saves, Execs
<1> HIDE DEF q
<1>5. DataOK' /\ Lives(agent', proc')
  BY <1>1, <1>2 DEF TypeInv, DataOK, Lives, SameFiles, SameCluster
<1>6. Goes("push", q)
  BY <1>1, <1>3, <1>4, SetGoes
<1>7. ExecsOK(ex') /\ Mutex(ex', lock')
  <2>1. q.pc \in Holding /\ q.pc \notin Held
    BY <1>4 DEF Held, Holding
  <2> QED BY <1>1, <1>3, <1>4, <1>6, <2>1, GoesOK
<1>8. Tasks(ex', agent')
  BY <1>1, <1>3, <1>4, <1>6, GoesTasks
<1>9. TypeInv'
  BY <1>2, <1>5, <1>7, <1>8, GoesType
<1> QED BY <1>1, <1>2, <1>4, <1>6, <1>9

Recorded(l, h, b) == [l EXCEPT !.last = h, !.conflict = b]

LEMMA RecordRow ==
  ASSUME NEW l \in Rows, NEW h \in Configs, NEW b \in BOOLEAN
  PROVE  LET m == Recorded(l, h, b)
         IN /\ m \in Rows /\ m.running = l.running /\ m.pending = l.pending
            /\ m.last = h /\ m.conflict = b
BY DEF Recorded, Rows, Maybe

LEMMA RecordDoes ==
  ASSUME TypeInv, record_push
  PROVE  /\ TypeInv' /\ SameCluster /\ SameFiles /\ ex["push"].pc = "save"
         /\ UNCHANGED <<agent, watch, stop, missed>> /\ Goes("push", Idle)
         /\ LET l == ex["push"].led
                hash == ex["push"].hash
            IN /\ l \in Rows /\ hash \in Configs
               /\ led'.running = l.running /\ led'.pending = l.pending
               /\ led'.last = hash /\ led'.conflict = (l.running \notin {None, hash})
<1> DEFINE l == ex["push"].led
           hash == ex["push"].hash
           b == l.running \notin {None, hash}
<1>1. /\ UNCHANGED <<agent, watch, slot, stop, missed, version, baks, pushes>>
      /\ ex["push"].pc = "save" /\ lock' = None /\ Set("push", Idle)
      /\ led' = Recorded(l, hash, b)
  BY DEF record_push, Recorded
<1>2. SameCluster /\ SameFiles
  BY DEF record_push, SameCluster, SameFiles
<1>3. "push" \in Executors /\ ex["push"] \in Saves
  BY <1>1, Kinds DEF TypeInv, ExecsOK, Executors
<1>4. l \in Rows /\ hash \in Configs /\ b \in BOOLEAN
  BY <1>3 DEF Saves
<1>5. /\ led' \in Rows /\ led'.running = l.running /\ led'.pending = l.pending
      /\ led'.last = hash /\ led'.conflict = b
  <2> HIDE DEF l, hash, b
  <2> QED BY <1>1, <1>4, RecordRow
<1>6. DataOK' /\ Lives(agent', proc')
  BY <1>1, <1>2, <1>5 DEF TypeInv, DataOK, Lives, SameFiles, SameCluster
<1>7. Idle \in Execs /\ Idle.pc = "idle"
  BY Bare DEF Idle
<1>8. Goes("push", Idle)
  BY <1>1, <1>3, <1>7, SetGoes
<1>9. lock = "push"
  BY <1>1, <1>3 DEF TypeInv, Mutex, Holding
<1>10. ExecsOK(ex') /\ Mutex(ex', lock')
  BY <1>1, <1>3, <1>7, <1>8, <1>9, PcsHeld, GoesOK
<1>11. Tasks(ex', agent')
  BY <1>1, <1>3, <1>7, <1>8, GoesTasks
<1>12. TypeInv'
  BY <1>2, <1>6, <1>10, <1>11, GoesType
<1> QED BY <1>1, <1>2, <1>4, <1>5, <1>8, <1>12

LEMMA RecordTimeoutDoes ==
  ASSUME TypeInv, RecordTimeout
  PROVE  /\ TypeInv' /\ SameCluster /\ SameFiles /\ ex["push"].pc = "record"
         /\ UNCHANGED <<led, agent, watch, stop, missed>> /\ Goes("push", Idle)
<1>1. /\ UNCHANGED <<led, agent, watch, slot, lock, stop, missed, version, baks, pushes>>
      /\ ex["push"].pc = "record" /\ Set("push", Idle)
  BY DEF RecordTimeout
<1>2. SameCluster /\ SameFiles
  BY DEF RecordTimeout, SameCluster, SameFiles
<1>3. Idle \in Execs /\ Idle.pc = "idle" /\ "push" \in Executors
  BY Bare DEF Idle, Executors
<1>4. Goes("push", Idle)
  BY <1>1, <1>3, SetGoes
<1>5. DataOK'
  BY <1>1, <1>2 DEF TypeInv, DataOK, SameFiles
<1>6. Idle.pc \notin Held \cup {"save", "commit"} /\ ex["push"].pc \notin Held \cup {"save"}
  BY <1>1, <1>3 DEF Held
<1>7. TypeInv'
  BY <1>1, <1>2, <1>3, <1>4, <1>5, <1>6, OffType
<1> QED BY <1>1, <1>2, <1>4, <1>7

LEMMA CommandDoes ==
  ASSUME TypeInv, cmd_apply \/ cmd_restart
  PROVE  /\ TypeInv' /\ SameCluster /\ SameFiles /\ ex["cli"] = Idle
         /\ UNCHANGED <<led, agent, watch, stop, missed>>
         /\ \E q \in Runs : Goes("cli", q) /\ q.pc = "lock"
<1>1. PICK b \in BOOLEAN : Set("cli", Ring(b, 0))
  BY DEF cmd_apply, cmd_restart
<1> DEFINE q == Ring(b, 0)
<1>2. /\ UNCHANGED <<led, agent, watch, slot, lock, stop, missed, version, baks, pushes>>
      /\ ex["cli"] = Idle
  BY DEF cmd_apply, cmd_restart
<1>3. SameCluster /\ SameFiles
  BY DEF cmd_apply, cmd_restart, SameCluster, SameFiles
<1>4. q \in Runs /\ q \in Execs /\ q.pc = "lock" /\ "cli" \in Executors
  BY RingFields DEF Executors
<1>5. Set("cli", q)
  BY <1>1
<1> HIDE DEF q
<1>6. Goes("cli", q)
  BY <1>4, <1>5, SetGoes
<1>7. DataOK'
  BY <1>2, <1>3 DEF TypeInv, DataOK, SameFiles
<1>8. q.pc \notin Held \cup {"save", "commit"} /\ ex["cli"].pc \notin Held \cup {"save"}
  BY <1>2, <1>4 DEF Held, Idle
<1>9. TypeInv'
  BY <1>2, <1>3, <1>4, <1>6, <1>7, <1>8, OffType
<1> QED BY <1>2, <1>3, <1>4, <1>6, <1>9

LEMMA CliDiesDoes ==
  ASSUME TypeInv, CliDies
  PROVE  /\ TypeInv' /\ SameCluster /\ SameFiles /\ missed' # {}
         /\ UNCHANGED <<led, agent, watch, stop>> /\ Goes("cli", Idle)
<1>1. /\ UNCHANGED <<led, agent, watch, slot, stop, version, baks, pushes>> /\ missed' # {}
      /\ Set("cli", Idle) /\ lock' = (IF lock = "cli" THEN None ELSE lock)
  BY DEF CliDies
<1>2. SameCluster /\ SameFiles
  BY DEF CliDies, SameCluster, SameFiles
<1>3. Idle \in Execs /\ Idle.pc = "idle" /\ "cli" \in Executors
  BY Bare DEF Idle, Executors
<1>4. Goes("cli", Idle)
  BY <1>1, <1>3, SetGoes
<1>5. DataOK' /\ Lives(agent', proc')
  BY <1>1, <1>2 DEF TypeInv, DataOK, Lives, SameFiles, SameCluster
<1>6. ExecsOK(ex') /\ Mutex(ex', lock')
  BY <1>1, <1>3, <1>4, PcsHeld, GoesOK
<1>7. Tasks(ex', agent')
  BY <1>1, <1>3, <1>4, GoesTasks
<1>8. TypeInv'
  BY <1>2, <1>5, <1>6, <1>7, GoesType
<1> QED BY <1>1, <1>2, <1>4, <1>8

\* Executors x that are where those of ex are, with the same hash and row.
Kin(x) ==
  /\ x \in [Executors -> Execs]
  /\ \A d \in Executors :
       /\ x[d].pc = ex[d].pc
       /\ x[d].pc \notin Held => x[d] = ex[d]
       /\ x[d].pc \in Held => x[d].hash = ex[d].hash /\ x[d].led = ex[d].led

\* The calls that take apps away: processes end, entries go.
Wanes ==
  /\ \E x : Kin(x) /\ Sweeps(x)
  /\ Shrinks(entry', proc')
  /\ SameFiles /\ UNCHANGED <<led, doubled>>
  /\ stop' = stop \/ stop'.pc # "save"
  /\ \/ entry' = entry /\ missed' = missed
     \/ missed' # {}
     \/ missed' = missed /\ \E e \in Executors : ex[e].pc = "tear"

LEMMA KinSelf == ASSUME TypeInv PROVE Kin(ex)
BY DEF Kin, TypeInv, ExecsOK

LEMMA DeathDoes ==
  ASSUME TypeInv, NEW a \in Apps, Die(a) \/ CorpseEnds(a)
  PROVE  TypeInv' /\ Wanes
<1> DEFINE pr == [proc EXCEPT ![a] = {}]
<1>1. /\ Cluster(entry, pr, FALSE, ex)
      /\ UNCHANGED <<led, stop, missed, baks, pushes, doubled>>
  BY DEF Die, CorpseEnds
<1>2. SameFiles
  BY DEF Die, CorpseEnds, SameFiles
<1>3. ClusterOK(entry, pr) /\ Shrinks(entry, pr)
  BY DEF TypeInv, ClusterOK, Shrinks
<1>4. pr["agent"] # {} => proc["agent"] # {}
  BY DEF TypeInv, ClusterOK, Apps
<1> HIDE DEF pr
<1>5. Sweeps(ex) /\ entry' = entry /\ proc' = pr /\ Sound
  BY <1>1, <1>3, <1>4, ClusterStays
<1>6. TypeInv'
  BY <1>1, <1>2, <1>5, SoundType DEF TypeInv, DataOK, SameFiles
<1> QED BY <1>1, <1>2, <1>3, <1>5, <1>6, KinSelf DEF Wanes

LEMMA StopDoes ==
  ASSUME TypeInv, cmd_stop \/ StopLeftovers
  PROVE  TypeInv' /\ Wanes
<1>1. PICK A : Removed(A, ex)
  BY DEF cmd_stop, StopLeftovers
<1>2. PICK en, pr : /\ Cluster(en, pr, FALSE, ex) /\ ClusterOK(en, pr) /\ Shrinks(en, pr)
                    /\ pr["agent"] # {} => proc["agent"] # {}
  BY <1>1, RemovedIsCluster
<1>3. Sweeps(ex) /\ entry' = en /\ proc' = pr /\ Sound
  BY <1>2, ClusterStays
<1>4. /\ UNCHANGED <<led, baks, pushes, doubled>> /\ missed' # {}
      /\ stop' = [pc |-> "left"] \/ stop' = [pc |-> "check"]
  BY DEF cmd_stop, StopLeftovers
<1>5. SameFiles
  BY DEF cmd_stop, StopLeftovers, SameFiles
<1>6. stop' \in [pc : {"idle", "left", "check"}] /\ stop'.pc # "save"
  BY <1>4
<1>7. TypeInv'
  BY <1>3, <1>4, <1>5, <1>6, SoundType DEF TypeInv, DataOK, SameFiles
<1> QED BY <1>2, <1>3, <1>4, <1>5, <1>6, <1>7, KinSelf DEF Wanes

LEMMA TeardownDoes ==
  ASSUME TypeInv, NEW e \in Executors, stop_and_delete(e)
  PROVE  TypeInv' /\ Wanes
<1>1. PICK a \in order_teardown(ex[e].todo) : Removed({a}, [ex EXCEPT ![e].todo = @ \ {a}])
  BY DEF stop_and_delete
<1> DEFINE q == Left(ex[e], ex[e].todo \ {a})
           x == [ex EXCEPT ![e] = q]
<1>2. [ex EXCEPT ![e].todo = @ \ {a}] = x
  BY DEF Left, TypeInv, ExecsOK
<1>3. Removed({a}, x)
  BY <1>1, <1>2
<1>4. ex[e].pc = "tear" /\ ex[e].pc \in Held /\ ex[e] \in Runs
  BY Kinds DEF stop_and_delete, TypeInv, ExecsOK, Held
<1>5. q \in Runs /\ q \in Execs /\ q.pc = "tear" /\ q.hash = ex[e].hash /\ q.led = ex[e].led
  <2>1. ex[e].todo \ {a} \in SUBSET Apps
    BY <1>4, RunFields
  <2> QED BY <2>1, <1>4, LeftFields
<1> HIDE DEF q
<1>6. Kin(x)
  BY <1>4, <1>5 DEF Kin, TypeInv, ExecsOK
<1>7. PICK en, pr : /\ Cluster(en, pr, FALSE, x) /\ ClusterOK(en, pr) /\ Shrinks(en, pr)
                    /\ pr["agent"] # {} => proc["agent"] # {}
  BY <1>3, RemovedIsCluster
<1>8. Sweeps(x) /\ entry' = en /\ proc' = pr /\ Sound
  BY <1>4, <1>5, <1>7, ClusterGoes
<1>9. SameFiles /\ UNCHANGED <<led, stop, missed, baks, pushes, doubled>>
  BY DEF stop_and_delete, SameFiles
<1>10. TypeInv'
  BY <1>8, <1>9, SoundType DEF TypeInv, DataOK, SameFiles
<1> HIDE DEF x
<1> QED BY <1>4, <1>6, <1>7, <1>8, <1>9, <1>10 DEF Wanes

LEMMA ReviveDoes ==
  ASSUME TypeInv, NEW a \in Apps, Revive(a)
  PROVE  /\ TypeInv' /\ Sweeps(ex) /\ entry' = entry
         /\ entry[a] # None /\ proc' = [proc EXCEPT ![a] = {entry[a], file}]
         /\ SameFiles /\ UNCHANGED <<led, stop, missed, doubled>>
<1> DEFINE pr == [proc EXCEPT ![a] = {entry[a], file}]
<1>1. /\ Cluster(entry, pr, a = "agent", ex) /\ entry[a] # None
      /\ UNCHANGED <<led, stop, missed, baks, pushes, doubled>>
  BY DEF Revive, Registered
<1>2. SameFiles
  BY DEF Revive, SameFiles
<1>3. ClusterOK(entry, pr)
  BY <1>1 DEF TypeInv, ClusterOK, Maybe, DataOK
<1>4. (~(a = "agent") /\ pr["agent"] # {}) => proc["agent"] # {}
  BY DEF TypeInv, ClusterOK, Apps
<1> HIDE DEF pr
<1>5. Sweeps(ex) /\ entry' = entry /\ proc' = pr /\ Sound
  BY <1>1, <1>3, <1>4, ClusterStays
<1>6. TypeInv'
  BY <1>1, <1>2, <1>5, SoundType DEF TypeInv, DataOK, SameFiles
<1> QED BY <1>1, <1>2, <1>5, <1>6 DEF pr

\* The apply by e: it goes on, unless the agent it runs in is replaced.
Raised(e) ==
  /\ ex[e].pc = "apply"
  /\ \E S \in SUBSET Roster(ox) : \E keep :
       /\ Raises(S, keep, entry', proc')
       /\ doubled' \subseteq doubled \cup {a \in S : entry[a] = None /\ proc[a] # {}}
  /\ SameFiles /\ UNCHANGED <<led, stop, missed>>
  /\ \E q \in Runs :
       /\ q.pc \in {"reconcile", "failed"} /\ q.hash = ex[e].hash /\ q.led = ex[e].led
       /\ \/ Goes(e, q) /\ UNCHANGED <<agent, watch>>
          \/ \E x : /\ Replaced(x)
                    /\ x["cli"] = (IF e = "cli" THEN q ELSE ex["cli"])

LEMMA RosterApps == \A c : Roster(c) \subseteq Apps
BY DEF Roster, Apps

LEMMA AppliedDoes ==
  ASSUME TypeInv, NEW e \in Executors, NEW S \in SUBSET Roster(ox), NEW keep,
         NEW p \in {"reconcile", "failed"}, ex[e].pc = "apply",
         Applied(S, keep, [ex EXCEPT ![e].pc = p]),
         SameFiles, UNCHANGED <<led, stop, missed, baks, pushes>>
  PROVE  TypeInv' /\ Raised(e)
<1> DEFINE q == At(ex[e], p)
           x == [ex EXCEPT ![e] = q]
<1>1. [ex EXCEPT ![e].pc = p] = x
  BY DEF At, TypeInv, ExecsOK
<1>2. Applied(S, keep, x)
  BY <1>1
<1>3. ex[e].pc \in Held /\ ex[e] \in Runs /\ p \in Held
  BY Kinds DEF TypeInv, ExecsOK, Held
<1>4. q \in Runs /\ q \in Execs /\ q.pc = p /\ q.hash = ex[e].hash /\ q.led = ex[e].led
  BY <1>3, AtFields
<1> HIDE DEF q
<1>5. PICK en, pr, fresh :
           /\ Cluster(en, pr, fresh, x) /\ fresh \in BOOLEAN /\ ClusterOK(en, pr)
           /\ Raises(S, keep, en, pr)
           /\ (~fresh /\ pr["agent"] # {}) => proc["agent"] # {}
           /\ fresh = ("agent" \in S /\ (entry["agent"] = None \/ ~SameCommand("agent", entry["agent"], ox)))
           /\ fresh => pr["agent"] # {}
  <2> HIDE DEF x
  <2> QED BY <1>2, AppliedIsCluster
<1>6. Sweeps(x) /\ entry' = en /\ proc' = pr /\ Sound
  BY <1>3, <1>4, <1>5, ClusterGoes
<1>7. TypeInv'
  BY <1>6, SoundType DEF TypeInv, DataOK, SameFiles
<1>8. doubled' \subseteq doubled \cup {a \in S : entry[a] = None /\ proc[a] # {}}
  BY <1>2, AppliedDoubles
<1>9. /\ x \in [Executors -> Execs] /\ x[e] = q
      /\ \A d \in Executors \ {e} : x[d] = ex[d]
  BY <1>4 DEF TypeInv, ExecsOK
<1> HIDE DEF x
<1>10. \/ Goes(e, q) /\ UNCHANGED <<agent, watch>>
       \/ Replaced(x) /\ x["cli"] = (IF e = "cli" THEN q ELSE ex["cli"])
  BY <1>6, <1>9 DEF Sweeps, Goes, Executors
<1>11. Raises(S, keep, entry', proc')
  BY <1>5, <1>6
<1> QED BY <1>4, <1>7, <1>8, <1>10, <1>11 DEF Raised

\* The agent is recreated and its client dies with it.
LEMMA CutShortDoes ==
  ASSUME TypeInv, NEW e \in Executors, e \in InAgent, ex[e].pc = "apply",
         ~SameCommand("agent", entry["agent"], ox), Applied({"agent"}, Apps, ex),
         SameFiles, UNCHANGED <<led, stop, missed, baks, pushes>>
  PROVE  TypeInv' /\ Raised(e)
<1>1. PICK en, pr, fresh :
           /\ Cluster(en, pr, fresh, ex) /\ fresh \in BOOLEAN /\ ClusterOK(en, pr)
           /\ Raises({"agent"}, Apps, en, pr)
           /\ (~fresh /\ pr["agent"] # {}) => proc["agent"] # {}
           /\ fresh = ("agent" \in {"agent"} /\ (entry["agent"] = None \/ ~SameCommand("agent", entry["agent"], ox)))
           /\ fresh => pr["agent"] # {}
  BY AppliedIsCluster
<1>2. Sweeps(ex) /\ entry' = en /\ proc' = pr /\ Sound
  BY <1>1, ClusterStays
<1>3. fresh
  BY <1>1
<1>4. agent' \in {"down", "boot"}
  BY <1>1, <1>3 DEF Cluster
<1>5. Replaced(ex)
  <2>1. CASE agent \in {"spawn", "up"}
    BY <1>2, <1>4, <2>1 DEF Sweeps
  <2>2. CASE agent \in {"down", "boot"}
    <3>1. ex' = [ex EXCEPT !["push"] = Idle, !["local"] = IF pr["agent"] = {} THEN Idle ELSE [pc |-> "commit"]]
      BY <1>1, <1>3 DEF Cluster
    <3>2. agent' = IF pr["agent"] = {} THEN "down" ELSE "boot"
      BY <1>1, <1>3 DEF Cluster
    <3>3. ex' \in [Executors -> Execs]
      BY <1>2 DEF Sound, ExecsOK
    <3>4. ex \in [Executors -> Execs]
      BY DEF TypeInv, ExecsOK
    <3> QED BY <3>1, <3>2, <3>3, <3>4 DEF Replaced, Executors
  <2> QED BY <2>1, <2>2 DEF TypeInv, Lives
<1>6. TypeInv'
  BY <1>2, SoundType DEF TypeInv, DataOK, SameFiles
<1>7. doubled' \subseteq doubled \cup {a \in {"agent"} : entry[a] = None /\ proc[a] # {}}
  BY AppliedDoubles
<1>8. {"agent"} \in SUBSET Roster(ox) /\ e # "cli"
  BY DEF Roster, InAgent
<1>9. Raises({"agent"}, Apps, entry', proc')
  BY <1>1, <1>2
<1> DEFINE q == At(ex[e], "failed")
<1>10. q \in Runs /\ q.pc = "failed" /\ q.hash = ex[e].hash /\ q.led = ex[e].led
  <2>1. ex[e] \in Runs /\ "failed" \in Held
    BY Kinds DEF TypeInv, ExecsOK, Held
  <2> QED BY <2>1, AtFields
<1> HIDE DEF q
<1> QED BY <1>5, <1>6, <1>7, <1>8, <1>9, <1>10 DEF Raised

LEMMA ApplyDoes ==
  ASSUME TypeInv, NEW e \in Executors, Apply(e) \/ ApplyFails(e)
  PROVE  TypeInv' /\ Raised(e)
<1>1. ex[e].pc = "apply" /\ SameFiles /\ UNCHANGED <<led, stop, missed, baks, pushes>>
  BY DEF Apply, ApplyFails, SameFiles
<1>2. CASE Applied(Roster(ox), {}, [ex EXCEPT ![e].pc = "reconcile"])
  BY <1>1, <1>2, AppliedDoes
<1>3. CASE /\ e \in InAgent /\ ~SameCommand("agent", entry["agent"], ox)
           /\ Applied({"agent"}, Apps, ex)
  BY <1>1, <1>3, CutShortDoes
<1>4. CASE \E S \in SUBSET (Roster(ox) \ {"agent"}) :
             Applied(S, Apps, [ex EXCEPT ![e].pc = "failed"])
  <2>1. PICK S \in SUBSET (Roster(ox) \ {"agent"}) :
             Applied(S, Apps, [ex EXCEPT ![e].pc = "failed"])
    BY <1>4
  <2>2. S \in SUBSET Roster(ox)
    OBVIOUS
  <2> QED BY <1>1, <2>1, <2>2, AppliedDoes
<1> QED BY <1>2, <1>3, <1>4 DEF Apply, ApplyFails

----------------------------------------------------------------------------
\* Most steps bring nobody into the core and start nothing that is not in the
\* registry.

CoreKept ==
  \A d \in Executors : ex'[d].pc \in Holding =>
    ex[d].pc = ex'[d].pc /\ ex[d].hash = ex'[d].hash /\ ex[d].led = ex'[d].led

\* The ledger's next content.
RowMoves ==
  \/ led' = led
  \/ \E e \in Executors : ex[e].pc \in Held /\ SameRow(led', ex[e].led)
  \/ \E e \in Executors : /\ ex[e].pc = "reconcile" /\ ex[e].hash \in Configs /\ ex[e].led \in Rows
                          /\ led' = flags_after_commit(ex[e].led, ex[e].hash)
  \/ led' = flags_after_commit(led, file)
  \/ /\ ex["push"].pc = "save" /\ ex["push"].hash \in Configs
     /\ led'.running = ex["push"].led.running /\ led'.pending = ex["push"].led.pending
     /\ led'.last = ex["push"].hash
     /\ led'.conflict = (ex["push"].led.running \notin {None, ex["push"].hash})
  \/ stop.pc = "save" /\ led' = stop.led

Calm ==
  /\ CoreKept
  /\ doubled' = doubled
  /\ \A a \in Apps : /\ entry'[a] \in {None, entry[a]}
                     /\ \/ proc'[a] \in {{}, proc[a]}
                        \/ entry[a] # None /\ proc'[a] = {entry[a], file}
  /\ touched' = TRUE \/ SameFiles
  /\ RowMoves
  /\ stop'.pc = "save" => stop' = stop \/ stop'.led.running = None

\* A step of e out of the core, or outside it.
LEMMA GoesCalm ==
  ASSUME NEW e \in Executors, NEW q, Goes(e, q), q.pc \notin Holding
  PROVE  CoreKept
BY DEF Goes, CoreKept

LEMMA IdleOut == Idle.pc = "idle" /\ Idle.pc \notin Holding
BY DEF Idle, Holding, Held

LEMMA CalmIntro ==
  ASSUME CoreKept, SameCluster, touched' = TRUE \/ SameFiles, RowMoves,
         stop'.pc = "save" => stop' = stop \/ stop'.led.running = None
  PROVE  Calm
BY DEF Calm, SameCluster

LEMMA SweepCalm ==
  ASSUME NEW x, Kin(x), Sweeps(x)
  PROVE  CoreKept
<1>1. CASE ex' = x
  <2>1. ASSUME NEW d \in Executors, ex'[d].pc \in Holding
        PROVE  ex[d].pc = ex'[d].pc /\ ex[d].hash = ex'[d].hash /\ ex[d].led = ex'[d].led
    <3>1. CASE x[d].pc \in Held
      BY <1>1, <3>1 DEF Kin
    <3>2. CASE x[d].pc \notin Held
      BY <1>1, <3>2 DEF Kin
    <3> QED BY <3>1, <3>2
  <2> QED BY <2>1 DEF CoreKept
<1>2. CASE Replaced(x)
  <2>1. ex'["push"].pc \notin Holding /\ ex'["local"].pc \notin Holding
    BY <1>2, IdleOut DEF Replaced, Holding, Held
  <2>2. ASSUME ex'["cli"].pc \in Holding
        PROVE  /\ ex["cli"].pc = ex'["cli"].pc /\ ex["cli"].hash = ex'["cli"].hash
               /\ ex["cli"].led = ex'["cli"].led
    <3>1. ex'["cli"] = x["cli"] /\ "cli" \in Executors
      BY <1>2 DEF Replaced, Executors
    <3>2. CASE x["cli"].pc \in Held
      BY <3>1, <3>2 DEF Kin
    <3>3. CASE x["cli"].pc \notin Held
      BY <3>1, <3>3 DEF Kin
    <3> QED BY <3>2, <3>3
  <2> QED BY <2>1, <2>2 DEF CoreKept, Executors
<1> QED BY <1>1, <1>2 DEF Sweeps

LEMMA WanesCalm ==
  ASSUME Wanes
  PROVE  Calm
<1>1. CoreKept
  BY SweepCalm DEF Wanes
<1>2. \A a \in Apps : entry'[a] \in {None, entry[a]} /\ proc'[a] \in {{}, proc[a]}
  BY DEF Wanes, Shrinks
<1>3. doubled' = doubled /\ SameFiles /\ RowMoves
  BY DEF Wanes, RowMoves
<1>4. stop'.pc = "save" => stop' = stop \/ stop'.led.running = None
  BY DEF Wanes
<1> QED BY <1>1, <1>2, <1>3, <1>4 DEF Calm

LEMMA ReviveCalm ==
  ASSUME TypeInv, NEW a \in Apps, Revive(a)
  PROVE  Calm
<1>1. /\ Sweeps(ex) /\ entry' = entry
      /\ entry[a] # None /\ proc' = [proc EXCEPT ![a] = {entry[a], file}]
      /\ SameFiles /\ UNCHANGED <<led, stop, missed, doubled>>
  BY ReviveDoes
<1>2. CoreKept
  BY <1>1, KinSelf, SweepCalm
<1>3. RowMoves
  BY <1>1 DEF RowMoves
<1>4. proc \in [Apps -> SUBSET Configs]
  BY DEF TypeInv, ClusterOK
<1> QED BY <1>1, <1>2, <1>3, <1>4 DEF Calm

LEMMA EndsCalm ==
  ASSUME NEW e \in Executors, NEW ok, Ends(e, ok), RowMoves
  PROVE  Calm
<1>1. PICK q \in Execs : Goes(e, q) /\ q.pc \in {"idle", "record"}
  BY DEF Ends
<1>2. q.pc \notin Holding
  BY <1>1, PcsHeld
<1>3. CoreKept
  BY <1>1, <1>2, GoesCalm
<1> QED BY <1>3, CalmIntro DEF Ends

\* The end of a run of the core.
LastStep(e) ==
  \/ LockTimeout(e) \/ JudgeNoOp(e) \/ JudgeRefuse(e) \/ Residue(e)
  \/ Commit(e) \/ Mismatch(e) \/ ReconcileFails(e)

LEMMA LastStepCalm ==
  ASSUME TypeInv, NEW e \in Executors, LastStep(e)
  PROVE  TypeInv' /\ Calm
<1>1. CASE LockTimeout(e)
  BY <1>1, LockTimeoutDoes, EndsCalm DEF RowMoves
<1>2. CASE JudgeNoOp(e)
  BY <1>2, JudgeNoOpDoes, EndsCalm DEF RowMoves
<1>3. CASE JudgeRefuse(e) \/ ReconcileFails(e)
  BY <1>3, RefusedDoes, EndsCalm DEF RowMoves
<1>4. CASE Residue(e) \/ Mismatch(e)
  BY <1>4, FailedDoes, EndsCalm, PcsHeld DEF RowMoves
<1>5. CASE Commit(e)
  BY <1>5, CommitDoes, EndsCalm DEF RowMoves
<1> QED BY <1>1, <1>2, <1>3, <1>4, <1>5 DEF LastStep

\* The steps outside the core.
LEMMA BootCommitCalm ==
  ASSUME TypeInv, BootCommit
  PROVE  Calm
<1>1. /\ SameCluster /\ SameFiles /\ UNCHANGED <<watch, slot, stop>>
      /\ \/ /\ reconciles(file) /\ led' = flags_after_commit(led, file)
            /\ agent' = "spawn" /\ missed' = {} /\ Goes("local", Idle)
         \/ /\ UNCHANGED <<led, agent, missed>>
            /\ \E q \in Bares : Goes("local", q) /\ q.pc = "wake"
  BY BootCommitDoes
<1>2. CoreKept
  BY <1>1, GoesCalm, IdleOut, PcsHeld DEF Executors
<1>3. RowMoves
  BY <1>1 DEF RowMoves
<1> QED BY <1>1, <1>2, <1>3, CalmIntro

LEMMA WakeCalm ==
  ASSUME TypeInv, Wake
  PROVE  Calm
<1>1. /\ SameCluster /\ SameFiles /\ UNCHANGED <<led, stop>>
      /\ \/ Goes("local", Idle)
         \/ \E q \in Runs : Goes("local", q) /\ q.pc = "lock"
  BY WakeDoes
<1>2. CoreKept
  BY <1>1, GoesCalm, IdleOut, PcsHeld DEF Executors
<1> QED BY <1>1, <1>2, CalmIntro DEF RowMoves

LEMMA StillCalm ==
  ASSUME ex' = ex, SameCluster, touched' = TRUE \/ SameFiles, RowMoves,
         stop'.pc = "save" => stop' = stop \/ stop'.led.running = None
  PROVE  Calm
<1>1. CoreKept
  BY DEF CoreKept
<1> QED BY <1>1, CalmIntro

LEMMA WatchTickCalm ==
  ASSUME TypeInv, WatchTick
  PROVE  Calm
<1>1. /\ SameCluster /\ SameFiles /\ UNCHANGED <<led, stop>>
      /\ \/ \E q \in Runs : Goes("local", q) /\ q.pc = "lock"
         \/ ex' = ex
  BY WatchTickDoes
<1>2. CoreKept
  BY <1>1, GoesCalm, PcsHeld DEF Executors, CoreKept
<1> QED BY <1>1, <1>2, CalmIntro DEF RowMoves

LEMMA PushCalm ==
  ASSUME TypeInv, TakePush \/ PushFile \/ PushOxfile \/ RecordTimeout
  PROVE  Calm
<1>1. CASE TakePush
  <2>1. /\ SameCluster /\ SameFiles /\ UNCHANGED <<led, stop>>
        /\ \/ ex' = ex
           \/ \E q \in Writes : Goes("push", q) /\ q.pc = "write"
    BY <1>1, TakePushDoes
  <2>2. CoreKept
    BY <2>1, GoesCalm, PcsHeld DEF Executors, CoreKept
  <2> QED BY <2>1, <2>2, CalmIntro DEF RowMoves
<1>2. CASE PushFile
  <2>1. /\ SameCluster /\ touched' = TRUE /\ UNCHANGED <<led, stop>>
        /\ \E q \in Writes : Goes("push", q) /\ q.pc = "render"
    BY <1>2, PushFileDoes
  <2>2. CoreKept
    BY <2>1, GoesCalm, PcsHeld DEF Executors
  <2> QED BY <2>1, <2>2, CalmIntro DEF RowMoves
<1>3. CASE PushOxfile
  <2>1. /\ SameCluster /\ UNCHANGED <<file, led, stop>>
        /\ \E q \in Execs : Goes("push", q)
              /\ \/ q = Idle /\ UNCHANGED <<ox, touched>>
                 \/ q.pc = "lock" /\ touched' = TRUE
    BY <1>3, PushOxfileDoes
  <2>2. CoreKept
    BY <2>1, GoesCalm, IdleOut, PcsHeld DEF Executors
  <2> QED BY <2>1, <2>2, CalmIntro DEF RowMoves, SameFiles
<1>4. CASE RecordTimeout
  <2>1. SameCluster /\ SameFiles /\ UNCHANGED <<led, stop>> /\ Goes("push", Idle)
    BY <1>4, RecordTimeoutDoes
  <2>2. CoreKept
    BY <2>1, GoesCalm, IdleOut DEF Executors
  <2> QED BY <2>1, <2>2, CalmIntro DEF RowMoves
<1> QED BY <1>1, <1>2, <1>3, <1>4

LEMMA RecordCalm ==
  ASSUME TypeInv, record_push
  PROVE  Calm
<1>1. /\ SameCluster /\ SameFiles /\ UNCHANGED <<agent, watch, stop, missed>>
      /\ Goes("push", Idle)
  BY RecordDoes
<1>2. RowMoves
  BY RecordDoes DEF RowMoves
<1>3. CoreKept
  BY <1>1, GoesCalm, IdleOut DEF Executors
<1> QED BY <1>1, <1>2, <1>3, CalmIntro

LEMMA CommandCalm ==
  ASSUME TypeInv, cmd_apply \/ cmd_restart \/ CliDies
  PROVE  Calm
<1>1. CASE cmd_apply \/ cmd_restart
  <2>1. /\ SameCluster /\ SameFiles /\ UNCHANGED <<led, stop>>
        /\ \E q \in Runs : Goes("cli", q) /\ q.pc = "lock"
    BY <1>1, CommandDoes
  <2>2. CoreKept
    BY <2>1, GoesCalm, PcsHeld DEF Executors
  <2> QED BY <2>1, <2>2, CalmIntro DEF RowMoves
<1>2. CASE CliDies
  <2>1. SameCluster /\ SameFiles /\ UNCHANGED <<led, stop>> /\ Goes("cli", Idle)
    BY <1>2, CliDiesDoes
  <2>2. CoreKept
    BY <2>1, GoesCalm, IdleOut DEF Executors
  <2> QED BY <2>1, <2>2, CalmIntro DEF RowMoves
<1> QED BY <1>1, <1>2

LEMMA RestCalm ==
  ASSUME TypeInv, Spawn \/ StopCheck \/ StopSave \/ \E c \in Configs : Edit(c) \/ PushArrives(c)
  PROVE  Calm
<1>1. CASE Spawn
  BY <1>1, SpawnDoes, StillCalm DEF RowMoves
<1>2. CASE StopCheck
  BY <1>2, StopCheckDoes, StillCalm DEF RowMoves
<1>3. CASE StopSave
  BY <1>3, StopSaveDoes, StillCalm DEF RowMoves
<1>4. CASE \E c \in Configs : Edit(c)
  BY <1>4, EditDoes, StillCalm DEF RowMoves
<1>5. CASE \E c \in Configs : PushArrives(c)
  BY <1>5, OutsideDoes, StillCalm DEF RowMoves
<1> QED BY <1>1, <1>2, <1>3, <1>4, <1>5

\* Every step keeps the types, and is calm or one of a run of the core.
CoreStep(e) == Acquire(e) \/ JudgeRun(e) \/ Prepare(e) \/ Activate(e) \/ Apply(e) \/ ApplyFails(e)

LEMMA Steps ==
  ASSUME TypeInv, [HostNext]_hostVars
  PROVE  /\ TypeInv'
         /\ Calm \/ RecordLoad \/ \E e \in Executors : CoreStep(e)
<1>1. CASE UNCHANGED hostVars
  <2>1. /\ ex' = ex /\ SameCluster /\ SameFiles /\ UNCHANGED <<led, stop, lock, agent>>
        /\ UNCHANGED <<watch, slot, version, baks, pushes>>
    BY <1>1 DEF hostVars, SameCluster, SameFiles
  <2>2. DataOK'
    BY <2>1 DEF TypeInv, DataOK, SameFiles
  <2> QED BY <2>1, <2>2, RestType, StillCalm DEF RowMoves
<1>2. CASE \E a \in Apps : Die(a) \/ Revive(a) \/ CorpseEnds(a)
  BY <1>2, DeathDoes, WanesCalm, ReviveDoes, ReviveCalm
<1>3. CASE \E c \in Configs : Edit(c) \/ PushArrives(c)
  BY <1>3, EditDoes, OutsideDoes, RestCalm
<1>4. CASE \E e \in Executors : LastStep(e)
  BY <1>4, LastStepCalm
<1>5. CASE \E e \in Executors : CoreStep(e)
  BY <1>5, AcquireDoes, JudgeRunDoes, PrepareDoes, ActivateDoes, ApplyDoes DEF CoreStep
<1>6. CASE \E e \in Executors : stop_and_delete(e)
  BY <1>6, TeardownDoes, WanesCalm
<1>7. CASE BootCommit \/ Wake \/ Spawn \/ WatchTick
  BY <1>7, BootCommitDoes, BootCommitCalm, WakeDoes, WakeCalm, SpawnDoes, RestCalm,
     WatchTickDoes, WatchTickCalm
<1>8. CASE TakePush \/ PushFile \/ PushOxfile \/ RecordTimeout
  BY <1>8, TakePushDoes, PushFileDoes, PushOxfileDoes, RecordTimeoutDoes, PushCalm
<1>9. CASE RecordLoad \/ record_push
  BY <1>9, RecordLoadDoes, RecordDoes, RecordCalm
<1>10. CASE cmd_apply \/ cmd_restart \/ CliDies
  BY <1>10, CommandDoes, CliDiesDoes, CommandCalm
<1>11. CASE cmd_stop \/ StopLeftovers
  BY <1>11, StopDoes, WanesCalm
<1>12. CASE StopCheck \/ StopSave
  BY <1>12, StopCheckDoes, StopSaveDoes, RestCalm
<1> QED BY <1>1, <1>2, <1>3, <1>4, <1>5, <1>6, <1>7, <1>8, <1>9, <1>10, <1>11, <1>12
     DEF HostNext, LastStep, CoreStep

----------------------------------------------------------------------------
\* Initially.

LEMMA InitTypes ==
  ASSUME HostInit
  PROVE  TypeInv
<1> USE DEF HostInit
<1>1. Idle \in Execs /\ Idle.pc = "idle" /\ Idle.pc \notin Holding /\ Idle.pc \notin Held
  BY Bare, IdleOut, PcsHeld
<1>2. led \in Rows
  BY HostAssumption DEF Empty, Rows, Maybe
<1>3. stop \in [pc : {"idle", "left", "check"}]
  BY DEF Idle
<1>4. DataOK
  BY <1>2, <1>3, HostAssumption DEF DataOK, Maybe
<1>5. ClusterOK(entry, proc) /\ Lives(agent, proc)
  BY HostAssumption DEF ClusterOK, Lives, Maybe, Roster, Apps
<1>6. \A e \in Executors : ex[e] = Idle
  OBVIOUS
<1>7. ExecsOK(ex)
  BY <1>1, <1>6 DEF ExecsOK, Executors
<1>8. Mutex(ex, lock)
  BY <1>1, <1>6, HostAssumption DEF Mutex
<1>9. Tasks(ex, agent)
  BY <1>1, <1>6 DEF Tasks, Executors
<1> QED BY <1>4, <1>5, <1>7, <1>8, <1>9 DEF TypeInv

----------------------------------------------------------------------------
\* Never start over corpses.

Cleared ==
  \A e \in Executors : ex[e].pc \in {"activate", "apply"} =>
    \A a \in Others : entry[a] = None /\ proc[a] = {}

ClearInv == Cleared /\ doubled \subseteq {"agent"}

\* A step of e in the core to a position that is not past the gate.
LEMMA ClearEarly ==
  ASSUME ClearInv, NEW e \in Executors, NEW q, Goes(e, q), SameCluster,
         q.pc \in {"activate", "apply"} => \A a \in Others : entry[a] = None /\ proc[a] = {}
  PROVE  ClearInv'
BY DEF ClearInv, Cleared, Goes, SameCluster

LEMMA ClearStep ==
  ASSUME TypeInv, ClearInv, [HostNext]_hostVars
  PROVE  ClearInv'
<1>1. CASE Calm
  <2>1. ASSUME NEW e \in Executors, ex'[e].pc \in {"activate", "apply"}, NEW a \in Others
        PROVE  entry'[a] = None /\ proc'[a] = {}
    <3>1. ex[e].pc = ex'[e].pc
      BY <1>1, <2>1 DEF Calm, CoreKept, Holding, Held
    <3>2. entry[a] = None /\ proc[a] = {}
      BY <2>1, <3>1 DEF ClearInv, Cleared
    <3> QED BY <1>1, <3>2 DEF Calm, Others
  <2>2. Cleared'
    BY <2>1 DEF Cleared
  <2> QED BY <1>1, <2>2 DEF Calm, ClearInv
<1>2. CASE RecordLoad
  BY <1>2, RecordLoadDoes, ClearEarly DEF Executors
<1>3. ASSUME NEW e \in Executors, Acquire(e) PROVE ClearInv'
  BY <1>3, AcquireDoes, ClearEarly
<1>4. ASSUME NEW e \in Executors, JudgeRun(e) PROVE ClearInv'
  BY <1>4, JudgeRunDoes, ClearEarly
<1>5. ASSUME NEW e \in Executors, Prepare(e) PROVE ClearInv'
  <2>1. Clean(e) /\ SameCluster
    BY <1>5, PrepareDoes
  <2>2. \A a \in Others : entry[a] = None /\ proc[a] = {}
    BY <2>1 DEF Clean, Registered, Alive, Others
  <2> QED BY <1>5, <2>2, PrepareDoes, ClearEarly
<1>6. ASSUME NEW e \in Executors, Activate(e) PROVE ClearInv'
  <2>1. ex[e].pc = "activate"
    BY <1>6, ActivateDoes
  <2>2. \A a \in Others : entry[a] = None /\ proc[a] = {}
    BY <2>1 DEF ClearInv, Cleared
  <2> QED BY <1>6, <2>2, ActivateDoes, ClearEarly
<1>7. ASSUME NEW e \in Executors, Apply(e) \/ ApplyFails(e) PROVE ClearInv'
  <2>1. Raised(e)
    BY <1>7, ApplyDoes
  <2>2. \A a \in Others : entry[a] = None /\ proc[a] = {}
    BY <2>1 DEF Raised, ClearInv, Cleared
  <2>3. doubled' \subseteq {"agent"}
    <3>1. PICK S \in SUBSET Roster(ox) :
             doubled' \subseteq doubled \cup {a \in S : entry[a] = None /\ proc[a] # {}}
      BY <2>1 DEF Raised
    <3>2. S \subseteq Apps
      BY RosterApps
    <3> QED BY <3>1, <3>2, <2>2 DEF ClearInv, Others
  <2>4. ASSUME NEW d \in Executors PROVE ex'[d].pc \notin {"activate", "apply"}
    <3>1. ex[e].pc = "apply" /\ lock = e
      BY <2>1, PcsHeld DEF Raised, TypeInv, Mutex
    <3>2. \A b \in Executors \ {e} : ex[b].pc \notin Holding
      BY <3>1 DEF TypeInv, Mutex
    <3>3. PICK q \in Runs :
             /\ q.pc \in {"reconcile", "failed"}
             /\ \/ Goes(e, q)
                \/ \E x : Replaced(x) /\ x["cli"] = (IF e = "cli" THEN q ELSE ex["cli"])
      BY <2>1 DEF Raised
    <3>4. CASE Goes(e, q)
      BY <3>2, <3>3, <3>4, PcsHeld DEF Goes
    <3>5. CASE \E x : Replaced(x) /\ x["cli"] = (IF e = "cli" THEN q ELSE ex["cli"])
      <4>1. ex'["push"] = Idle /\ ex'["local"].pc \in {"idle", "commit"}
        BY <3>5, IdleOut DEF Replaced
      <4>2. ex'["cli"].pc \notin {"activate", "apply"}
        BY <3>2, <3>3, <3>5, PcsHeld DEF Replaced, Executors
      <4> QED BY <4>1, <4>2, IdleOut DEF Executors
    <3> QED BY <3>3, <3>4, <3>5
  <2> QED BY <2>3, <2>4 DEF ClearInv, Cleared
<1> QED BY <1>1, <1>2, <1>3, <1>4, <1>5, <1>6, <1>7, Steps DEF CoreStep

LEMMA TypeInvHolds == HostSpec => []TypeInv
<1>1. HostInit => TypeInv
  BY InitTypes
<1>2. TypeInv /\ [HostNext]_hostVars => TypeInv'
  BY Steps
<1> QED BY <1>1, <1>2, PTL DEF HostSpec

\* Types: configurations are where configurations belong, and the agent is
\* down exactly when it has no process.
THEOREM TypesHold == HostSpec => []TypeOK
<1>1. TypeInv => TypeOK
  BY RowFields DEF TypeInv, DataOK, ClusterOK, Mutex, Lives, Maybe, TypeOK
<1> QED BY <1>1, TypeInvHolds, PTL

\* The lock is held by the executor whose run is in the core and by no other,
\* whatever dies or is replaced under it (CoreLock, config_core/mod.rs).
CoreIsExclusive ==
  \A d, e \in Executors : (ex[d].pc \in Holding /\ ex[e].pc \in Holding) => (d = e /\ lock = e)

\* The core runs one at a time: two runs never hold it together, and the lock
\* names the one that does, through timeouts, deaths of the agent that runs
\* it, a recreated agent and an interrupted command.
THEOREM CoreIsExclusiveHolds == HostSpec => []CoreIsExclusive
<1>1. TypeInv => CoreIsExclusive
  BY DEF TypeInv, Mutex, CoreIsExclusive
<1> QED BY <1>1, TypeInvHolds, PTL

\* No app but the agent is started while an older process of it lives: between
\* the teardown gate and the apply nothing else is registered and nothing else
\* lives, and nobody else can start an app then (config_core/mod.rs, step 5).
THEOREM NoStartOverCorpsesHolds == HostSpec => []NoStartOverCorpses
<1>1. HostInit => ClearInv
  BY IdleOut, PcsHeld DEF HostInit, ClearInv, Cleared
<1>2. TypeInv /\ ClearInv /\ [HostNext]_hostVars => ClearInv'
  BY ClearStep
<1>3. ClearInv => NoStartOverCorpses
  BY DEF ClearInv, NoStartOverCorpses
<1> QED BY <1>1, <1>2, <1>3, TypeInvHolds, PTL DEF HostSpec

----------------------------------------------------------------------------
\* The conflict lamp.

Honest(l) == l.running # None => l.conflict = (l.last \notin {None, l.running})

\* Every row that is on disk or may be written there is honest.
Lamps ==
  /\ Honest(led)
  /\ stop.pc = "save" => Honest(stop.led)
  /\ \A e \in Executors : ex[e].pc \in Holding => Honest(ex[e].led)

LEMMA LampGoes ==
  ASSUME Lamps, NEW e \in Executors, NEW q, Goes(e, q), stop' = stop, Honest(led'),
         q.pc \in Holding => Honest(q.led)
  PROVE  Lamps'
BY DEF Lamps, Goes, Honest

LEMMA LampRows ==
  ASSUME TypeInv, Lamps, RowMoves
  PROVE  Honest(led')
<1>1. CASE led' = led
  BY <1>1 DEF Lamps, Honest
<1>2. CASE \E e \in Executors : ex[e].pc \in Held /\ SameRow(led', ex[e].led)
  BY <1>2 DEF Lamps, Honest, SameRow, Holding
<1>3. CASE \E e \in Executors :
             /\ ex[e].pc = "reconcile" /\ ex[e].hash \in Configs /\ ex[e].led \in Rows
             /\ led' = flags_after_commit(ex[e].led, ex[e].hash)
  BY <1>3, CommitRow DEF Honest
<1>4. CASE led' = flags_after_commit(led, file)
  <2>1. led \in Rows /\ file \in Configs
    BY DEF TypeInv, DataOK
  <2> QED BY <1>4, <2>1, CommitRow DEF Honest
<1>5. CASE /\ ex["push"].pc = "save" /\ ex["push"].hash \in Configs
           /\ led'.running = ex["push"].led.running /\ led'.pending = ex["push"].led.pending
           /\ led'.last = ex["push"].hash
           /\ led'.conflict = (ex["push"].led.running \notin {None, ex["push"].hash})
  BY <1>5, HostAssumption DEF Honest
<1>6. CASE stop.pc = "save" /\ led' = stop.led
  BY <1>6 DEF Lamps, Honest
<1> QED BY <1>1, <1>2, <1>3, <1>4, <1>5, <1>6 DEF RowMoves

LEMMA LampStep ==
  ASSUME TypeInv, Lamps, [HostNext]_hostVars
  PROVE  Lamps'
<1>1. CASE Calm
  <2>1. Honest(led')
    BY <1>1, LampRows DEF Calm
  <2>2. stop'.pc = "save" => Honest(stop'.led)
    BY <1>1 DEF Calm, Lamps, Honest
  <2>3. \A e \in Executors : ex'[e].pc \in Holding => Honest(ex'[e].led)
    BY <1>1 DEF Calm, CoreKept, Lamps
  <2> QED BY <2>1, <2>2, <2>3 DEF Lamps, Honest
<1>2. CASE RecordLoad
  BY <1>2, RecordLoadDoes, LampGoes DEF Executors, Lamps
<1>3. ASSUME NEW e \in Executors, Acquire(e) PROVE Lamps'
  BY <1>3, AcquireDoes, LampGoes DEF Lamps
<1>4. ASSUME NEW e \in Executors, JudgeRun(e) PROVE Lamps'
  <2>1. Honest(ex[e].led) /\ Honest(led)
    BY <1>4, JudgeRunDoes, PcsHeld DEF Lamps
  <2> QED BY <1>4, <2>1, JudgeRunDoes, LampGoes
<1>5. ASSUME NEW e \in Executors, Prepare(e) PROVE Lamps'
  <2>1. Honest(ex[e].led)
    BY <1>5, PrepareDoes, PcsHeld DEF Lamps
  <2>2. Honest(led')
    BY <1>5, <2>1, PrepareDoes DEF Honest
  <2> QED BY <1>5, <2>2, PrepareDoes, LampGoes
<1>6. ASSUME NEW e \in Executors, Activate(e) PROVE Lamps'
  <2>1. Honest(ex[e].led) /\ Honest(led)
    BY <1>6, ActivateDoes, PcsHeld DEF Lamps
  <2> QED BY <1>6, <2>1, ActivateDoes, LampGoes
<1>7. ASSUME NEW e \in Executors, Apply(e) \/ ApplyFails(e) PROVE Lamps'
  <2>1. Raised(e)
    BY <1>7, ApplyDoes
  <2>2. Honest(ex[e].led)
    BY <2>1, PcsHeld DEF Raised, Lamps
  <2>3. led' = led /\ stop' = stop
    BY <2>1 DEF Raised
  <2>4. PICK q \in Runs :
             /\ q.led = ex[e].led
             /\ \/ Goes(e, q)
                \/ \E x : Replaced(x) /\ x["cli"] = (IF e = "cli" THEN q ELSE ex["cli"])
    BY <2>1 DEF Raised
  <2>5. CASE Goes(e, q)
    BY <2>2, <2>3, <2>4, <2>5, LampGoes DEF Lamps
  <2>6. CASE \E x : Replaced(x) /\ x["cli"] = (IF e = "cli" THEN q ELSE ex["cli"])
    <3>1. ex'["push"].pc \notin Holding /\ ex'["local"].pc \notin Holding
      BY <2>6, IdleOut, PcsHeld DEF Replaced
    <3>2. ex'["cli"].pc \in Holding => Honest(ex'["cli"].led)
      BY <2>2, <2>4, <2>6 DEF Replaced, Lamps, Executors
    <3> QED BY <2>3, <3>1, <3>2 DEF Lamps, Executors, Honest
  <2> QED BY <2>4, <2>5, <2>6
<1> QED BY <1>1, <1>2, <1>3, <1>4, <1>5, <1>6, <1>7, Steps DEF CoreStep

\* The conflict lamp is the comparison of the two rows it stands for, also when
\* a stop and a run of the core overwrite each other's ledger (ledger.rs,
\* record_push and flags_after_commit).
THEOREM LampIsHonestHolds == HostSpec => []LampIsHonest
<1>1. HostInit => Lamps
  BY IdleOut DEF HostInit, Lamps, Honest, Empty, Idle
<1>2. TypeInv /\ Lamps /\ [HostNext]_hostVars => Lamps'
  BY LampStep
<1>3. Lamps => LampIsHonest
  BY DEF Lamps, Honest, LampIsHonest
<1> QED BY <1>1, <1>2, <1>3, TypeInvHolds, PTL DEF HostSpec

----------------------------------------------------------------------------
\* The running row.

RowOf(l) == l.pending = None /\ l.running # None => l.running = file

EraProcs ==
  \A a \in Others : /\ proc[a] \subseteq {file} /\ entry[a] \in {None, file}
                    /\ entry[a] # None => a \in Roster(file)
EraRows ==
  /\ RowOf(led)
  /\ \A e \in Executors : ex[e].pc \in Holding => RowOf(ex[e].led)
EraRuns ==
  \A e \in Executors : ex[e].pc \in Late =>
    /\ ex[e].hash = file /\ ex[e].led.pending = file
    /\ ex[e].pc # "activate" => ox = file

\* While nothing was written past the core since the last verified teardown.
Era ==
  /\ stop.pc = "save" => stop.led.running = None
  /\ ~touched => EraProcs /\ EraRows /\ EraRuns

LEMMA EraCalm ==
  ASSUME TypeInv, Era, Calm
  PROVE  Era'
<1>1. stop'.pc = "save" => stop'.led.running = None
  BY DEF Calm, Era
<1>2. ASSUME ~touched' PROVE EraProcs' /\ EraRows' /\ EraRuns'
  <2>1. ~touched /\ file' = file /\ ox' = ox /\ EraProcs /\ EraRows /\ EraRuns
    BY <1>2 DEF Calm, SameFiles, Era
  <2>2. EraProcs'
    <3>1. ASSUME NEW a \in Others
          PROVE  /\ proc'[a] \subseteq {file} /\ entry'[a] \in {None, file}
                 /\ entry'[a] # None => a \in Roster(file)
      <4>1. /\ proc[a] \subseteq {file} /\ entry[a] \in {None, file}
            /\ entry[a] # None => a \in Roster(file)
        BY <2>1 DEF EraProcs
      <4>2. /\ entry'[a] \in {None, entry[a]}
            /\ \/ proc'[a] \in {{}, proc[a]}
               \/ entry[a] # None /\ proc'[a] = {entry[a], file}
        BY DEF Calm, Others
      <4> QED BY <4>1, <4>2
    <3> QED BY <2>1, <3>1 DEF EraProcs
  <2>3. RowOf(led')
    <3>1. CASE led' = led
      BY <3>1, <2>1 DEF EraRows, RowOf
    <3>2. CASE \E e \in Executors : ex[e].pc \in Held /\ SameRow(led', ex[e].led)
      BY <3>2, <2>1 DEF EraRows, RowOf, SameRow, Holding
    <3>3. CASE \E e \in Executors :
             /\ ex[e].pc = "reconcile" /\ ex[e].hash \in Configs /\ ex[e].led \in Rows
             /\ led' = flags_after_commit(ex[e].led, ex[e].hash)
      <4>1. PICK e \in Executors :
             /\ ex[e].pc = "reconcile" /\ ex[e].hash \in Configs /\ ex[e].led \in Rows
             /\ led' = flags_after_commit(ex[e].led, ex[e].hash)
        BY <3>3
      <4>2. led'.running = ex[e].hash
        BY <4>1, CommitRow
      <4> QED BY <4>1, <4>2, <2>1 DEF EraRuns, RowOf, Late
    <3>4. CASE led' = flags_after_commit(led, file)
      <4>1. led \in Rows /\ file \in Configs
        BY DEF TypeInv, DataOK
      <4> QED BY <3>4, <4>1, CommitRow DEF RowOf
    <3>5. CASE /\ ex["push"].pc = "save" /\ led'.running = ex["push"].led.running
               /\ led'.pending = ex["push"].led.pending
      BY <3>5, <2>1, PcsHeld DEF EraRows, RowOf, Executors
    <3>6. CASE stop.pc = "save" /\ led' = stop.led
      BY <3>6 DEF Era, RowOf
    <3> QED BY <3>1, <3>2, <3>3, <3>4, <3>5, <3>6 DEF Calm, RowMoves
  <2>4. EraRows'
    BY <2>1, <2>3 DEF Calm, CoreKept, EraRows, RowOf
  <2>5. EraRuns'
    BY <2>1, PcsHeld DEF Calm, CoreKept, EraRuns
  <2> QED BY <2>2, <2>4, <2>5
<1> QED BY <1>1, <1>2 DEF Era

\* A step of e to q, with the ledger and the files as the others left them.
LEMMA EraGoes ==
  ASSUME Era, NEW e \in Executors, NEW q, Goes(e, q), SameCluster,
         UNCHANGED <<file, stop, led, touched>>,
         ~touched => (q.pc \in Holding => RowOf(q.led)),
         ~touched => (q.pc \in Late => /\ q.hash = file /\ q.led.pending = file
                                       /\ q.pc # "activate" => ox' = file),
         ox' = ox \/ \A d \in Executors \ {e} : ex[d].pc \notin Late
  PROVE  Era'
<1>1. ASSUME ~touched PROVE EraProcs' /\ EraRows' /\ EraRuns'
  <2>1. EraProcs /\ EraRows /\ EraRuns
    BY <1>1 DEF Era
  <2>2. EraProcs'
    BY <2>1 DEF EraProcs, SameCluster
  <2>3. EraRows'
    BY <1>1, <2>1 DEF EraRows, RowOf, Goes
  <2>4. ASSUME NEW d \in Executors, ex'[d].pc \in Late
        PROVE  /\ ex'[d].hash = file /\ ex'[d].led.pending = file
               /\ ex'[d].pc # "activate" => ox' = file
    <3>1. CASE d = e
      BY <1>1, <2>4, <3>1 DEF Goes
    <3>2. CASE d # e
      BY <2>1, <2>4, <3>2 DEF Goes, EraRuns
    <3> QED BY <3>1, <3>2
  <2>5. EraRuns'
    BY <2>4 DEF EraRuns
  <2> QED BY <2>2, <2>3, <2>5
<1>2. stop'.pc = "save" => stop'.led.running = None
  BY DEF Era
<1> QED BY <1>1, <1>2 DEF Era

LEMMA EraPrepare ==
  ASSUME TypeInv, Era, NEW e \in Executors, Prepare(e)
  PROVE  Era'
<1>1. /\ ex[e].pc = "tear" /\ Clean(e) /\ led'.pending = ex[e].hash
      /\ touched' = (file # ex[e].hash) /\ SameCluster /\ UNCHANGED <<file, stop>>
  BY PrepareDoes
<1>2. PICK q \in Runs : Goes(e, q) /\ q.pc = "activate" /\ q.hash = ex[e].hash /\ q.led = led'
  BY PrepareDoes
<1>3. \A d \in Executors \ {e} : ex'[d].pc \notin Holding
  BY <1>1, <1>2, PcsHeld DEF TypeInv, Mutex, Goes
<1>4. ex[e].hash # None
  BY <1>1, PcsHeld, HostAssumption DEF TypeInv, ExecsOK
<1>5. ASSUME ~touched' PROVE EraProcs' /\ EraRows' /\ EraRuns'
  <2>1. ex[e].hash = file
    BY <1>1, <1>5
  <2>2. EraProcs'
    BY <1>1 DEF EraProcs, SameCluster, Clean, Registered, Alive, Others
  <2>3. RowOf(led')
    BY <1>1, <1>4 DEF RowOf
  <2>4. EraRows'
    BY <1>1, <1>2, <1>3, <2>3 DEF EraRows, Goes, RowOf
  <2>5. EraRuns'
    BY <1>1, <1>2, <1>3, <2>1, PcsHeld DEF EraRuns, Goes
  <2> QED BY <2>2, <2>4, <2>5
<1>6. stop'.pc = "save" => stop'.led.running = None
  BY <1>1 DEF Era
<1> QED BY <1>5, <1>6 DEF Era

LEMMA EraApply ==
  ASSUME TypeInv, Era, NEW e \in Executors, Raised(e)
  PROVE  Era'
<1>1. SameFiles /\ UNCHANGED <<led, stop>> /\ ex[e].pc = "apply"
  BY DEF Raised
<1>2. ASSUME ~touched' PROVE EraProcs' /\ EraRows' /\ EraRuns'
  <2>1. ~touched /\ file' = file /\ ox' = ox /\ EraProcs /\ EraRows /\ EraRuns
    BY <1>1, <1>2 DEF Era, SameFiles
  <2>2. ox = file /\ ex[e].hash = file /\ ex[e].led.pending = file /\ RowOf(ex[e].led)
    BY <1>1, <2>1, PcsHeld DEF EraRuns, EraRows, Late
  <2>3. EraProcs'
    <3>0. PICK S \in SUBSET Roster(ox) : \E keep : Raises(S, keep, entry', proc')
      BY DEF Raised
    <3>1. PICK keep : Raises(S, keep, entry', proc')
      BY <3>0
    <3>2. ASSUME NEW a \in Others
          PROVE  /\ proc'[a] \subseteq {file} /\ entry'[a] \in {None, file}
                 /\ entry'[a] # None => a \in Roster(file)
      <4>1. /\ proc[a] \subseteq {file} /\ entry[a] \in {None, file}
            /\ entry[a] # None => a \in Roster(file)
        BY <2>1 DEF EraProcs
      <4>2. /\ entry'[a] = (IF a \in S THEN ox ELSE IF a \in keep THEN entry[a] ELSE None)
            /\ proc'[a] \in {{}, proc[a]} \/ proc'[a] = {ox, file}
        BY <3>1 DEF Raises, Others
      <4> QED BY <2>2, <4>1, <4>2
    <3> QED BY <2>1, <3>2 DEF EraProcs
  <2>4. ASSUME NEW d \in Executors, ex'[d].pc \in Holding
        PROVE  RowOf(ex'[d].led) /\ ex'[d].hash = file /\ ex'[d].led.pending = file
    <3>1. \A b \in Executors \ {e} : ex[b].pc \notin Holding
      BY <1>1, PcsHeld DEF TypeInv, Mutex
    <3>2. PICK q \in Runs :
             /\ q.hash = ex[e].hash /\ q.led = ex[e].led
             /\ \/ Goes(e, q)
                \/ \E x : Replaced(x) /\ x["cli"] = (IF e = "cli" THEN q ELSE ex["cli"])
      BY DEF Raised
    <3>3. CASE Goes(e, q)
      BY <2>2, <2>4, <3>1, <3>2, <3>3 DEF Goes
    <3>4. CASE \E x : Replaced(x) /\ x["cli"] = (IF e = "cli" THEN q ELSE ex["cli"])
      <4>1. ex'["push"].pc \notin Holding /\ ex'["local"].pc \notin Holding
        BY <3>4, IdleOut, PcsHeld DEF Replaced
      <4>2. d = "cli" /\ e = "cli" /\ ex'[d] = q
        BY <2>4, <3>1, <3>4, <4>1 DEF Replaced, Executors
      <4> QED BY <2>2, <3>2, <4>2
    <3> QED BY <3>2, <3>3, <3>4
  <2>5. EraRows'
    BY <2>1, <2>4, <1>1 DEF EraRows, RowOf
  <2>6. EraRuns'
    BY <2>1, <2>2, <2>4, PcsHeld DEF EraRuns
  <2> QED BY <2>3, <2>5, <2>6
<1>3. stop'.pc = "save" => stop'.led.running = None
  BY <1>1 DEF Era
<1> QED BY <1>2, <1>3 DEF Era

LEMMA EraStep ==
  ASSUME TypeInv, Era, [HostNext]_hostVars
  PROVE  Era'
<1>1. CASE Calm
  BY <1>1, EraCalm
<1>2. CASE RecordLoad
  <2>1. PICK q \in Saves : Goes("push", q) /\ q.pc = "save" /\ q.led = led
    BY <1>2, RecordLoadDoes
  <2>2. SameCluster /\ UNCHANGED <<file, ox, stop, led, touched>> /\ "push" \in Executors
    BY <1>2, RecordLoadDoes DEF SameFiles, Executors
  <2>3. q.pc \notin Late /\ (~touched => RowOf(q.led))
    BY <2>1 DEF Late, Era, EraRows
  <2> QED BY <2>1, <2>2, <2>3, EraGoes
<1>3. ASSUME NEW e \in Executors, Acquire(e) PROVE Era'
  <2>1. PICK q \in Runs : Goes(e, q) /\ q.pc = "judge" /\ q.led = led
    BY <1>3, AcquireDoes
  <2>2. SameCluster /\ UNCHANGED <<file, ox, stop, led, touched>>
    BY <1>3, AcquireDoes DEF SameFiles
  <2>3. q.pc \notin Late /\ (~touched => RowOf(q.led))
    BY <2>1 DEF Late, Era, EraRows
  <2> QED BY <2>1, <2>2, <2>3, EraGoes
<1>4. ASSUME NEW e \in Executors, JudgeRun(e) PROVE Era'
  <2>1. PICK q \in Runs : Goes(e, q) /\ q.pc = "tear" /\ q.led = ex[e].led
    BY <1>4, JudgeRunDoes
  <2>2. SameCluster /\ UNCHANGED <<file, ox, stop, led, touched>> /\ ex[e].pc = "judge"
    BY <1>4, JudgeRunDoes DEF SameFiles
  <2>3. q.pc \notin Late /\ (~touched => RowOf(q.led))
    BY <2>1, <2>2, PcsHeld DEF Late, Era, EraRows
  <2> QED BY <2>1, <2>2, <2>3, EraGoes
<1>5. ASSUME NEW e \in Executors, Prepare(e) PROVE Era'
  BY <1>5, EraPrepare
<1>6. ASSUME NEW e \in Executors, Activate(e) PROVE Era'
  <2>1. PICK q \in Runs : Goes(e, q) /\ q.pc = "apply" /\ q.hash = ex[e].hash /\ q.led = ex[e].led
    BY <1>6, ActivateDoes
  <2>2. /\ SameCluster /\ UNCHANGED <<file, stop, led, touched>> /\ ex[e].pc = "activate"
        /\ ox' = ex[e].hash
    BY <1>6, ActivateDoes
  <2>3. ~touched => RowOf(q.led) /\ q.hash = file /\ q.led.pending = file /\ ox' = file
    BY <2>1, <2>2, PcsHeld DEF Late, Era, EraRows, EraRuns
  <2>4. \A d \in Executors \ {e} : ex[d].pc \notin Late
    BY <2>2, PcsHeld DEF TypeInv, Mutex
  <2> QED BY <2>1, <2>2, <2>3, <2>4, EraGoes
<1>7. ASSUME NEW e \in Executors, Apply(e) \/ ApplyFails(e) PROVE Era'
  BY <1>7, ApplyDoes, EraApply
<1> QED BY <1>1, <1>2, <1>3, <1>4, <1>5, <1>6, <1>7, Steps DEF CoreStep

LEMMA InitEra ==
  ASSUME HostInit
  PROVE  Era
<1>1. stop.pc # "save" /\ \A e \in Executors : ex[e].pc \notin Holding
  BY IdleOut DEF HostInit
<1>2. EraProcs
  BY HostAssumption DEF HostInit, EraProcs, Others
<1>3. RowOf(led)
  BY DEF HostInit, RowOf, Empty
<1> QED BY <1>1, <1>2, <1>3, PcsHeld DEF Era, EraRows, EraRuns

LEMMA EraHolds == HostSpec => []Era
<1>1. HostInit => Era
  BY InitEra
<1>2. TypeInv /\ Era /\ [HostNext]_hostVars => Era'
  BY EraStep
<1> QED BY <1>1, <1>2, TypeInvHolds, PTL DEF HostSpec

\* The running row tells the truth: as long as nothing was written past the
\* core since the last verified teardown, everything that was started since
\* took up the file as it is, through restarts by the daemon, deaths, stops
\* and interrupted applies, and no copy of the ledger that may still be saved
\* names another file without its pending row (config_core/mod.rs, the no-op
\* judgement).
THEOREM RunningRowIsTrueHolds == HostSpec => []RunningRowIsTrue
<1>1. Era => RunningRowIsTrue
  BY DEF Era, EraProcs, EraRows, RowOf, RunningRowIsTrue, Others
<1> QED BY <1>1, EraHolds, PTL

----------------------------------------------------------------------------
\* Edits land.

\* Who still owes the file a look: the boot pass, the watcher, a bell that
\* rings, a run of the core that read the file as it is, and the operator's
\* command, which takes the agent down and up again or fails.
OwedBoot == agent = "down" \/ ex["local"].pc \in {"commit", "wake"}
OwedWatch == agent = "up" /\ watch.baseline # file
OwedRing == \E e \in Executors : ex[e].pc \in {"lock", "render"}
OwedRun ==
  \E e \in Executors : /\ ex[e].pc \in Held /\ ex[e].hash = file
                       /\ ex[e].pc = "judge" => ex[e].led.running = led.running
OwedCli == ex["cli"].pc = "tear"

\* The file has landed, and no run that may take it back is under way.
Settled ==
  /\ led.running = file /\ Roster(file) \subseteq Registered
  /\ \A e \in Executors : ex[e].pc \in Held => e = "cli" /\ ex[e].pc = "judge"
  /\ ex["push"].pc = "save" => ex["push"].led.running = led.running

Standing == OwedBoot \/ OwedWatch \/ OwedRing
Owed == Standing \/ OwedRun \/ OwedCli \/ Settled

Lands ==
  /\ missed = {} => Owed
  /\ ex["local"].pc = "wake" => ex["cli"].pc \notin Late

\* Who is in the core is there alone.
LEMMA Alone ==
  ASSUME TypeInv, NEW e \in Executors, ex[e].pc \in Holding
  PROVE  \A d \in Executors \ {e} : ex[d].pc \notin Holding
BY DEF TypeInv, Mutex

LEMMA Nobody ==
  ASSUME TypeInv, lock = None
  PROVE  \A d \in Executors : ex[d].pc \notin Holding
BY HostAssumption DEF TypeInv, Mutex

\* A step of e leaves the others' debts standing.
LEMMA StandingGoes ==
  ASSUME TypeInv, NEW e \in Executors, NEW q, Goes(e, q),
         agent' = agent \/ (agent = "boot" /\ e = "local"),
         UNCHANGED <<watch, file>>, ex[e].pc \notin {"lock", "render", "commit", "wake"}, Standing
  PROVE  Standing'
<1>1. CASE OwedBoot
  <2>1. CASE agent = "down"
    BY <2>1 DEF Standing, OwedBoot
  <2>2. CASE ex["local"].pc \in {"commit", "wake"}
    <3>1. ex'["local"] = ex["local"]
      BY <2>2 DEF Goes, Executors
    <3> QED BY <2>2, <3>1 DEF Standing, OwedBoot
  <2> QED BY <1>1, <2>1, <2>2 DEF OwedBoot
<1>2. CASE OwedWatch
  BY <1>2 DEF Standing, OwedWatch
<1>3. CASE OwedRing
  <2>1. PICK d \in Executors : ex[d].pc \in {"lock", "render"}
    BY <1>3 DEF OwedRing
  <2>2. ex'[d] = ex[d]
    BY <2>1 DEF Goes
  <2> QED BY <2>1, <2>2 DEF Standing, OwedRing
<1> QED BY <1>1, <1>2, <1>3 DEF Standing

\* A change of the cluster does too, or leaves one to the boot pass.
LEMMA ReplacedOwed ==
  ASSUME NEW x, Replaced(x)
  PROVE  Standing'
BY DEF Replaced, Standing, OwedBoot

LEMMA SweepOwed ==
  ASSUME TypeInv, NEW x, Kin(x), Sweeps(x), UNCHANGED <<file, led>>, Owed,
         entry' = entry \/ \E e \in Executors : ex[e].pc = "tear"
  PROVE  Owed'
<1>1. CASE Replaced(x)
  BY <1>1, ReplacedOwed DEF Owed
<1>2. CASE ex' = x /\ UNCHANGED <<agent, lock, watch, slot, version>>
  <2>1. \A d \in Executors :
          /\ ex'[d].pc = ex[d].pc
          /\ ex'[d].pc \notin Held => ex'[d] = ex[d]
          /\ ex'[d].pc \in Held => ex'[d].hash = ex[d].hash /\ ex'[d].led = ex[d].led
    BY <1>2 DEF Kin
  <2>2. CASE Standing
    <3>1. Standing'
      BY <1>2, <2>1, <2>2 DEF Standing, OwedBoot, OwedWatch, OwedRing, Executors
    <3> QED BY <3>1 DEF Owed
  <2>3. CASE OwedRun
    <3>1. OwedRun'
      BY <2>1, <2>3 DEF OwedRun
    <3> QED BY <3>1 DEF Owed
  <2>4. CASE OwedCli
    BY <2>1, <2>4 DEF OwedCli, Owed, Executors
  <2>5. CASE Settled
    <3>1. entry' = entry
      BY <2>5, PcsHeld DEF Settled
    <3>2. Registered' = Registered
      BY <3>1 DEF Registered
    <3>3. "push" \in Executors /\ (ex'["push"].pc = "save" => ex'["push"] = ex["push"])
      BY <2>1, PcsHeld DEF Executors
    <3>4. Settled'
      BY <2>1, <2>5, <3>2, <3>3 DEF Settled
    <3> QED BY <3>4 DEF Owed
  <2> QED BY <2>2, <2>3, <2>4, <2>5 DEF Owed
<1> QED BY <1>1, <1>2 DEF Sweeps

LEMMA WanesLands ==
  ASSUME TypeInv, Wanes, missed = {} => Owed
  PROVE  missed' = {} => Owed'
<1>1. SUFFICES ASSUME missed' = {} PROVE Owed'
  OBVIOUS
<1>2. PICK x : Kin(x) /\ Sweeps(x)
  BY DEF Wanes
<1>3. missed = {} /\ (entry' = entry \/ \E e \in Executors : ex[e].pc = "tear")
  BY <1>1 DEF Wanes
<1>4. UNCHANGED <<file, led>>
  BY DEF Wanes, SameFiles
<1> QED BY <1>2, <1>3, <1>4, SweepOwed

LEMMA ReviveLands ==
  ASSUME TypeInv, NEW a \in Apps, Revive(a), missed = {} => Owed
  PROVE  missed' = {} => Owed'
<1>1. Sweeps(ex) /\ entry' = entry /\ SameFiles /\ UNCHANGED <<led, missed>>
  BY ReviveDoes
<1> QED BY <1>1, KinSelf, SweepOwed DEF SameFiles

\* Runs of the core.
LEMMA AcquireLands ==
  ASSUME TypeInv, NEW e \in Executors, Acquire(e)
  PROVE  Owed'
<1>1. PICK q \in Runs : Goes(e, q) /\ q.pc = "judge" /\ q.hash = file /\ q.led = led
  BY AcquireDoes
<1>2. file' = file /\ led' = led
  BY AcquireDoes DEF SameFiles
<1>3. OwedRun'
  BY <1>1, <1>2, PcsHeld DEF OwedRun, Goes
<1> QED BY <1>3 DEF Owed

\* A run that did not read the file as it is changes nothing, or is the
\* operator's.
LEMMA NoOpLands ==
  ASSUME TypeInv, NEW e \in Executors, JudgeNoOp(e), Owed
  PROVE  Owed'
<1>1. /\ Ends(e, TRUE) /\ led' = led /\ ex[e].pc = "judge" /\ ~MustRun(e)
  BY JudgeNoOpDoes
<1>2. PICK q \in Execs : Goes(e, q) /\ q.pc \in {"idle", "record"}
  BY <1>1 DEF Ends
<1>3. /\ UNCHANGED <<watch, file, entry>>
      /\ agent' = (IF e = "local" /\ agent = "boot" THEN "spawn" ELSE agent)
  BY <1>1 DEF Ends, SameFiles, SameCluster
<1>4. \A d \in Executors \ {e} : ex[d].pc \notin Holding
  BY <1>1, Alone, PcsHeld
<1>5. \A d \in Executors : ex'[d].pc \notin Holding
  BY <1>2, <1>4, PcsHeld DEF Goes
<1>6. Registered' = Registered
  BY <1>3 DEF Registered
<1>7. CASE Standing
  BY <1>1, <1>2, <1>3, <1>7, StandingGoes DEF Owed
<1>8. CASE OwedRun
  <2>1. ex[e].hash = file /\ ex[e].led.running = led.running
    BY <1>1, <1>4, <1>8, PcsHeld DEF OwedRun
  <2>2. ex[e].led.running = ex[e].hash /\ AllRunning(ex[e].hash)
    BY <1>1 DEF MustRun, should_reconcile
  <2>3. Roster(file) \subseteq Registered
    BY <2>1, <2>2 DEF AllRunning, expected_process_names
  <2>4. Settled'
    BY <1>1, <1>3, <1>5, <1>6, <2>1, <2>2, <2>3, PcsHeld DEF Settled, Executors
  <2> QED BY <2>4 DEF Owed
<1>9. CASE OwedCli
  BY <1>1, <1>4, <1>9, PcsHeld DEF OwedCli, Executors
<1>10. CASE Settled
  <2>1. Settled'
    BY <1>1, <1>3, <1>5, <1>6, <1>10, PcsHeld DEF Settled, Executors
  <2> QED BY <2>1 DEF Owed
<1> QED BY <1>7, <1>8, <1>9, <1>10 DEF Owed

LEMMA CommitLands ==
  ASSUME TypeInv, NEW e \in Executors, Commit(e), Owed
  PROVE  Owed'
<1>1. /\ Ends(e, TRUE) /\ ex[e].pc = "reconcile" /\ reconciles(ex[e].hash)
      /\ ex[e].hash \in Configs /\ ex[e].led \in Rows
      /\ led' = flags_after_commit(ex[e].led, ex[e].hash)
  BY CommitDoes
<1>2. PICK q \in Execs : Goes(e, q) /\ q.pc \in {"idle", "record"}
  BY <1>1 DEF Ends
<1>3. /\ UNCHANGED <<watch, file, entry>>
      /\ agent' = (IF e = "local" /\ agent = "boot" THEN "spawn" ELSE agent)
  BY <1>1 DEF Ends, SameFiles, SameCluster
<1>4. \A d \in Executors \ {e} : ex[d].pc \notin Holding
  BY <1>1, Alone, PcsHeld
<1>5. \A d \in Executors : ex'[d].pc \notin Holding
  BY <1>2, <1>4, PcsHeld DEF Goes
<1>6. Registered' = Registered
  BY <1>3 DEF Registered
<1>7. CASE Standing
  BY <1>1, <1>2, <1>3, <1>7, StandingGoes DEF Owed
<1>8. CASE OwedRun
  <2>1. ex[e].hash = file
    BY <1>4, <1>8, PcsHeld DEF OwedRun
  <2>2. led'.running = file
    BY <1>1, <2>1, CommitRow
  <2>3. Roster(file) \subseteq Registered
    BY <1>1, <2>1 DEF reconciles, expected_process_names
  <2>4. Settled'
    BY <1>3, <1>5, <1>6, <2>2, <2>3, PcsHeld DEF Settled, Executors
  <2> QED BY <2>4 DEF Owed
<1>9. CASE OwedCli
  BY <1>1, <1>4, <1>9, PcsHeld DEF OwedCli, Executors
<1>10. CASE Settled
  BY <1>1, <1>10, PcsHeld DEF Settled
<1> QED BY <1>7, <1>8, <1>9, <1>10 DEF Owed

LEMMA JudgeRunLands ==
  ASSUME TypeInv, NEW e \in Executors, JudgeRun(e), Owed
  PROVE  Owed'
<1>1. PICK q \in Runs : Goes(e, q) /\ q.pc = "tear" /\ q.hash = ex[e].hash /\ q.led = ex[e].led
  BY JudgeRunDoes
<1>2. UNCHANGED <<watch, file, agent, led>> /\ ex[e].pc = "judge"
  BY JudgeRunDoes DEF SameFiles, SameAgent
<1>3. \A d \in Executors \ {e} : ex[d].pc \notin Holding
  BY <1>2, Alone, PcsHeld
<1>4. CASE Standing
  BY <1>1, <1>2, <1>4, StandingGoes DEF Owed
<1>5. CASE OwedRun
  <2>1. ex[e].hash = file
    BY <1>3, <1>5, PcsHeld DEF OwedRun
  <2>2. OwedRun'
    BY <1>1, <1>2, <2>1, PcsHeld DEF OwedRun, Goes
  <2> QED BY <2>2 DEF Owed
<1>6. CASE OwedCli
  BY <1>2, <1>3, <1>6, PcsHeld DEF OwedCli, Executors
<1>7. CASE Settled
  <2>1. e = "cli"
    BY <1>2, <1>7, PcsHeld DEF Settled
  <2> QED BY <1>1, <2>1 DEF Goes, Owed, OwedCli
<1> QED BY <1>4, <1>5, <1>6, <1>7 DEF Owed

LEMMA PrepareLands ==
  ASSUME TypeInv, NEW e \in Executors, Prepare(e), Owed
  PROVE  Owed'
<1>1. PICK q \in Runs : Goes(e, q) /\ q.pc = "activate" /\ q.hash = ex[e].hash
  BY PrepareDoes
<1>2. UNCHANGED <<watch, file, agent>> /\ ex[e].pc = "tear" /\ Clean(e)
  BY PrepareDoes DEF SameAgent
<1>3. \A d \in Executors \ {e} : ex[d].pc \notin Holding
  BY <1>2, Alone, PcsHeld
<1>4. CASE Standing
  BY <1>1, <1>2, <1>4, StandingGoes DEF Owed
<1>5. CASE OwedRun
  <2>1. ex[e].hash = file
    BY <1>3, <1>5, PcsHeld DEF OwedRun
  <2>2. OwedRun'
    BY <1>1, <1>2, <2>1, PcsHeld DEF OwedRun, Goes
  <2> QED BY <2>2 DEF Owed
<1>6. CASE OwedCli
  <2>1. e = "cli"
    BY <1>3, <1>6, PcsHeld DEF OwedCli, Executors
  <2>2. proc["agent"] = {}
    BY <1>2, <2>1 DEF Clean, CliRun, Alive, Apps
  <2>3. agent' = "down"
    BY <1>2, <2>2 DEF TypeInv, Lives
  <2> QED BY <2>3 DEF Owed, Standing, OwedBoot
<1>7. CASE Settled
  BY <1>2, <1>7, PcsHeld DEF Settled
<1> QED BY <1>4, <1>5, <1>6, <1>7 DEF Owed

LEMMA ActivateLands ==
  ASSUME TypeInv, NEW e \in Executors, Activate(e), Owed
  PROVE  Owed'
<1>1. PICK q \in Runs : Goes(e, q) /\ q.pc = "apply" /\ q.hash = ex[e].hash
  BY ActivateDoes
<1>2. UNCHANGED <<watch, file, agent>> /\ ex[e].pc = "activate"
  BY ActivateDoes DEF SameAgent
<1>3. \A d \in Executors \ {e} : ex[d].pc \notin Holding
  BY <1>2, Alone, PcsHeld
<1>4. CASE Standing
  BY <1>1, <1>2, <1>4, StandingGoes DEF Owed
<1>5. CASE OwedRun
  <2>1. ex[e].hash = file
    BY <1>3, <1>5, PcsHeld DEF OwedRun
  <2>2. OwedRun'
    BY <1>1, <1>2, <2>1, PcsHeld DEF OwedRun, Goes
  <2> QED BY <2>2 DEF Owed
<1>6. CASE OwedCli
  BY <1>2, <1>3, <1>6, PcsHeld DEF OwedCli, Executors
<1>7. CASE Settled
  BY <1>2, <1>7, PcsHeld DEF Settled
<1> QED BY <1>4, <1>5, <1>6, <1>7 DEF Owed

LEMMA ApplyLands ==
  ASSUME TypeInv, NEW e \in Executors, Raised(e), Owed
  PROVE  Owed'
<1>1. ex[e].pc = "apply" /\ UNCHANGED <<file, led>>
  BY DEF Raised, SameFiles
<1>2. PICK q \in Runs :
        /\ q.pc \in {"reconcile", "failed"} /\ q.hash = ex[e].hash
        /\ \/ Goes(e, q) /\ UNCHANGED <<agent, watch>>
           \/ \E x : Replaced(x)
  BY DEF Raised
<1>3. \A d \in Executors \ {e} : ex[d].pc \notin Holding
  BY <1>1, Alone, PcsHeld
<1>4. CASE \E x : Replaced(x)
  BY <1>4, ReplacedOwed DEF Owed
<1>5. CASE Goes(e, q) /\ UNCHANGED <<agent, watch>>
  <2>1. CASE Standing
    BY <1>1, <1>5, <2>1, StandingGoes DEF Owed
  <2>2. CASE OwedRun
    <3>1. ex[e].hash = file
      BY <1>3, <2>2, PcsHeld DEF OwedRun
    <3>2. OwedRun'
      BY <1>1, <1>2, <1>5, <3>1, PcsHeld DEF OwedRun, Goes
    <3> QED BY <3>2 DEF Owed
  <2>3. CASE OwedCli
    BY <1>1, <1>3, <2>3, PcsHeld DEF OwedCli, Executors
  <2>4. CASE Settled
    BY <1>1, <2>4, PcsHeld DEF Settled
  <2> QED BY <2>1, <2>2, <2>3, <2>4 DEF Owed
<1> QED BY <1>2, <1>4, <1>5

\* The bells.
LEMMA BootLands ==
  ASSUME TypeInv, BootCommit, missed = {} => Owed
  PROVE  missed' = {} => Owed'
<1>1. /\ lock = None /\ UNCHANGED <<file, entry>>
      /\ \/ /\ reconciles(file) /\ led' = flags_after_commit(led, file) /\ Goes("local", Idle)
         \/ \E q \in Bares : Goes("local", q) /\ q.pc = "wake"
  BY BootCommitDoes DEF SameFiles, SameCluster
<1>2. CASE \E q \in Bares : Goes("local", q) /\ q.pc = "wake"
  BY <1>2 DEF Goes, Owed, Standing, OwedBoot
<1>3. CASE reconciles(file) /\ led' = flags_after_commit(led, file) /\ Goes("local", Idle)
  <2>1. \A d \in Executors : ex'[d].pc \notin Holding
    BY <1>1, <1>3, Nobody, IdleOut DEF Goes
  <2>2. led'.running = file
    <3>1. led \in Rows /\ file \in Configs
      BY DEF TypeInv, DataOK
    <3> QED BY <1>3, <3>1, CommitRow
  <2>3. Roster(file) \subseteq Registered
    BY <1>3 DEF reconciles, expected_process_names
  <2>4. Registered' = Registered
    BY <1>1 DEF Registered
  <2>5. Settled'
    BY <1>1, <2>1, <2>2, <2>3, <2>4, PcsHeld DEF Settled, Executors
  <2> QED BY <2>5 DEF Owed
<1> QED BY <1>1, <1>2, <1>3

LEMMA WakeLands ==
  ASSUME TypeInv, Wake, Lands
  PROVE  missed' = {} => Owed'
<1>1. /\ ex["local"].pc = "wake" /\ UNCHANGED <<file, entry, led>>
      /\ \/ led.running = file /\ AllRunning(file) /\ Goes("local", Idle)
         \/ \E q \in Runs : Goes("local", q) /\ q.pc = "lock"
  BY WakeDoes DEF SameFiles, SameCluster
<1>2. CASE \E q \in Runs : Goes("local", q) /\ q.pc = "lock"
  BY <1>2 DEF Goes, Owed, Standing, OwedRing, Executors
<1>3. CASE led.running = file /\ AllRunning(file) /\ Goes("local", Idle)
  <2>1. ex["push"] = Idle /\ ex["cli"].pc \notin Late
    BY <1>1 DEF TypeInv, Tasks, Lands
  <2>2. ex'["push"] = Idle /\ ex'["local"] = Idle /\ ex'["cli"] = ex["cli"]
    BY <1>3, <2>1 DEF Goes, Executors
  <2>3. Roster(file) \subseteq Registered
    BY <1>3 DEF AllRunning, expected_process_names
  <2>4. Registered' = Registered
    BY <1>1 DEF Registered
  <2>5. CASE ex["cli"].pc = "tear"
    BY <2>2, <2>5 DEF Owed, OwedCli
  <2>6. CASE ex["cli"].pc # "tear"
    <3>1. \A e \in Executors : ex'[e].pc \in Held => e = "cli" /\ ex'[e].pc = "judge"
      BY <2>1, <2>2, <2>6, IdleOut DEF Held, Late, Executors
    <3>2. Settled'
      BY <1>1, <1>3, <2>2, <2>3, <2>4, <3>1, IdleOut DEF Settled
    <3> QED BY <3>2 DEF Owed
  <2> QED BY <2>5, <2>6
<1> QED BY <1>1, <1>2, <1>3

\* A move of the push applier outside the core, or of a row it has loaded.
LEMMA PushLands ==
  ASSUME TypeInv, NEW q, Goes("push", q), UNCHANGED <<watch, file, agent, entry>>,
         ex["push"].pc \in {"idle", "record", "save"},
         q.pc \notin Held, q.pc = "save" => q.led.running = led'.running,
         led'.running = led.running \/ (ex["push"].pc = "save" /\ led'.running = ex["push"].led.running),
         Owed
  PROVE  Owed'
<1>1. "push" \in Executors /\ \A d \in Executors \ {"push"} : ex'[d] = ex[d]
  BY DEF Goes, Executors
<1>2. CASE Standing
  BY <1>1, <1>2, StandingGoes DEF Owed
<1>3. CASE OwedRun
  <2>1. PICK e \in Executors : /\ ex[e].pc \in Held /\ ex[e].hash = file
                               /\ ex[e].pc = "judge" => ex[e].led.running = led.running
    BY <1>3 DEF OwedRun
  <2>2. e # "push" /\ ex["push"].pc # "save"
    BY <1>1, <2>1, Alone, PcsHeld
  <2>3. OwedRun'
    BY <1>1, <2>1, <2>2 DEF OwedRun
  <2> QED BY <2>3 DEF Owed
<1>4. CASE OwedCli
  BY <1>1, <1>4 DEF OwedCli, Owed, Executors
<1>5. CASE Settled
  <2>1. Registered' = Registered
    BY DEF Registered
  <2>2. led'.running = file
    BY <1>5 DEF Settled
  <2>3. ex'["push"] = q
    BY DEF Goes
  <2>4. Settled'
    BY <1>1, <1>5, <2>1, <2>2, <2>3 DEF Settled
  <2> QED BY <2>4 DEF Owed
<1> QED BY <1>2, <1>3, <1>4, <1>5 DEF Owed

LEMMA PushStepLands ==
  ASSUME TypeInv, TakePush \/ PushFile \/ PushOxfile \/ RecordLoad \/ record_push \/ RecordTimeout,
         missed = {} => Owed
  PROVE  missed' = {} => Owed'
<1>1. CASE TakePush
  <2>1. /\ UNCHANGED <<watch, file, agent, entry, led, missed>> /\ ex["push"].pc = "idle"
        /\ \/ ex' = ex
           \/ \E q \in Writes : Goes("push", q) /\ q.pc = "write"
    BY <1>1, TakePushDoes, IdleOut DEF SameFiles, SameCluster
  <2>2. CASE ex' = ex
    BY <2>1, <2>2 DEF Owed, Standing, OwedBoot, OwedWatch, OwedRing, OwedRun, OwedCli,
       Settled, Registered
  <2>3. CASE \E q \in Writes : Goes("push", q) /\ q.pc = "write"
    BY <2>1, <2>3, PushLands, PcsHeld
  <2> QED BY <2>1, <2>2, <2>3
<1>2. CASE PushFile
  <2>1. \E q \in Writes : Goes("push", q) /\ q.pc = "render"
    BY <1>2, PushFileDoes
  <2> QED BY <2>1 DEF Goes, Owed, Standing, OwedRing, Executors
<1>3. CASE PushOxfile
  <2>1. \E q \in Execs : Goes("push", q) /\ (missed' # {} \/ q.pc = "lock")
    BY <1>3, PushOxfileDoes
  <2> QED BY <2>1 DEF Goes, Owed, Standing, OwedRing, Executors
<1>4. CASE RecordLoad
  <2>1. /\ UNCHANGED <<watch, file, agent, entry, led, missed>> /\ ex["push"].pc = "record"
        /\ \E q \in Saves : Goes("push", q) /\ q.pc = "save" /\ q.led = led
    BY <1>4, RecordLoadDoes DEF SameFiles, SameCluster
  <2> QED BY <2>1, PushLands, PcsHeld
<1>5. CASE record_push
  <2>1. /\ UNCHANGED <<watch, file, agent, entry, missed>> /\ ex["push"].pc = "save"
        /\ Goes("push", Idle) /\ led'.running = ex["push"].led.running
    BY <1>5, RecordDoes DEF SameFiles, SameCluster
  <2> QED BY <2>1, PushLands, PcsHeld, IdleOut
<1>6. CASE RecordTimeout
  <2>1. /\ UNCHANGED <<watch, file, agent, entry, led, missed>> /\ ex["push"].pc = "record"
        /\ Goes("push", Idle)
    BY <1>6, RecordTimeoutDoes DEF SameFiles, SameCluster
  <2> QED BY <2>1, PushLands, PcsHeld, IdleOut
<1> QED BY <1>1, <1>2, <1>3, <1>4, <1>5, <1>6

LEMMA WatchLands ==
  ASSUME TypeInv, WatchTick, missed = {} => Owed
  PROVE  missed' = {} => Owed'
<1>1. /\ UNCHANGED <<file, agent, entry, led, missed>>
      /\ \/ \E q \in Runs : Goes("local", q) /\ q.pc = "lock"
         \/ ex' = ex /\ watch'.baseline = watch.baseline
  BY WatchTickDoes DEF SameFiles, SameCluster
<1>2. CASE \E q \in Runs : Goes("local", q) /\ q.pc = "lock"
  BY <1>2 DEF Goes, Owed, Standing, OwedRing, Executors
<1>3. CASE ex' = ex /\ watch'.baseline = watch.baseline
  BY <1>1, <1>3 DEF Owed, Standing, OwedBoot, OwedWatch, OwedRing, OwedRun, OwedCli,
     Settled, Registered
<1> QED BY <1>1, <1>2, <1>3

\* Steps in which nothing that is owed moves, and the operator's.
LEMMA RestLands ==
  ASSUME TypeInv, missed = {} => Owed,
         \/ Spawn \/ StopCheck \/ StopSave \/ cmd_apply \/ cmd_restart \/ CliDies
         \/ \E c \in Configs : Edit(c) \/ PushArrives(c)
  PROVE  missed' = {} => Owed'
<1> DEFINE Still == UNCHANGED <<file, entry, led, missed, ex>>
<1>1. ASSUME Still, agent' = agent \/ (agent = "spawn" /\ agent' = "up"),
             agent # "spawn" => watch' = watch
      PROVE  missed' = {} => Owed'
  BY <1>1 DEF Owed, Standing, OwedBoot, OwedWatch, OwedRing, OwedRun, OwedCli, Settled, Registered
<1>2. CASE Spawn
  BY <1>1, <1>2, SpawnDoes DEF SameFiles, SameCluster
<1>3. CASE StopCheck
  BY <1>1, <1>3, StopCheckDoes DEF SameFiles, SameCluster
<1>4. CASE StopSave \/ CliDies
  BY <1>4, StopSaveDoes, CliDiesDoes
<1>5. CASE cmd_apply \/ cmd_restart
  <2>1. \E q \in Runs : Goes("cli", q) /\ q.pc = "lock"
    BY <1>5, CommandDoes
  <2> QED BY <2>1 DEF Goes, Owed, Standing, OwedRing, Executors
<1>6. CASE \E c \in Configs : Edit(c)
  <2>1. /\ UNCHANGED <<agent, watch>>
        /\ missed' = {} => agent \notin {"boot", "spawn"} /\ file' # watch.baseline
    BY <1>6, EditDoes
  <2>2. agent \in {"down", "boot", "spawn", "up"}
    BY DEF TypeInv, Lives
  <2> QED BY <2>1, <2>2 DEF Owed, Standing, OwedBoot, OwedWatch
<1>7. CASE \E c \in Configs : PushArrives(c)
  BY <1>1, <1>7, OutsideDoes DEF SameFiles, SameCluster
<1> QED BY <1>2, <1>3, <1>4, <1>5, <1>6, <1>7

\* The boot pass wakes only after its own look under the lock.
LEMMA GoesWake ==
  ASSUME NEW e \in Executors, NEW q, Goes(e, q), q.pc # "wake", ex'["local"].pc = "wake"
  PROVE  ex["local"].pc = "wake"
BY DEF Goes, Executors

LEMMA SweepWake ==
  ASSUME NEW x, Kin(x), Sweeps(x), ex'["local"].pc = "wake"
  PROVE  ex["local"].pc = "wake"
<1>1. ~Replaced(x)
  BY IdleOut DEF Replaced
<1> QED BY <1>1 DEF Sweeps, Kin, Executors

LEMMA WakeArises ==
  ASSUME TypeInv, [HostNext]_hostVars, ex'["local"].pc = "wake"
  PROVE  ex["local"].pc = "wake" \/ BootCommit
<1>1. CASE ex' = ex
  BY <1>1
<1>2. CASE Wanes
  BY <1>2, SweepWake DEF Wanes
<1>3. CASE \E a \in Apps : Revive(a)
  BY <1>3, ReviveDoes, KinSelf, SweepWake
<1>4. CASE \E e \in Executors, ok \in BOOLEAN : Ends(e, ok)
  BY <1>4, GoesWake DEF Ends
<1>5. CASE \E e \in Executors : Acquire(e) \/ JudgeRun(e) \/ Prepare(e) \/ Activate(e)
  BY <1>5, AcquireDoes, JudgeRunDoes, PrepareDoes, ActivateDoes, GoesWake
<1>6. CASE \E e \in Executors : Raised(e)
  <2>1. PICK e \in Executors, q \in Runs :
          /\ q.pc \in {"reconcile", "failed"}
          /\ Goes(e, q) \/ \E x : Replaced(x)
    BY <1>6 DEF Raised
  <2>2. ~ \E x : Replaced(x)
    BY IdleOut DEF Replaced
  <2> QED BY <2>1, <2>2, GoesWake
<1>7. CASE Wake
  BY <1>7, WakeDoes
<1>8. CASE WatchTick
  BY <1>8, WatchTickDoes, GoesWake DEF Executors
<1>9. CASE TakePush \/ PushFile
  BY <1>9, TakePushDoes, PushFileDoes, GoesWake DEF Executors
<1>10. CASE PushOxfile
  BY <1>10, PushOxfileDoes, GoesWake, IdleOut DEF Executors
<1>11. CASE RecordLoad \/ record_push \/ RecordTimeout
  BY <1>11, RecordLoadDoes, RecordDoes, RecordTimeoutDoes, GoesWake, IdleOut DEF Executors
<1>12. CASE cmd_apply \/ cmd_restart \/ CliDies
  BY <1>12, CommandDoes, CliDiesDoes, GoesWake, IdleOut DEF Executors
<1>13. CASE \E c \in Configs : Edit(c) \/ PushArrives(c)
  BY <1>13, <1>1, EditDoes, OutsideDoes
<1>14. CASE Spawn \/ StopCheck \/ StopSave
  BY <1>14, <1>1, SpawnDoes, StopCheckDoes, StopSaveDoes
<1>15. CASE UNCHANGED hostVars
  BY <1>15, <1>1 DEF hostVars
<1>16. CASE \E e \in Executors : LastStep(e)
  BY <1>16, <1>4, LockTimeoutDoes, JudgeNoOpDoes, RefusedDoes, FailedDoes, CommitDoes DEF LastStep
<1>17. CASE \E a \in Apps : Die(a) \/ CorpseEnds(a)
  BY <1>17, <1>2, DeathDoes
<1>18. CASE cmd_stop \/ StopLeftovers \/ \E e \in Executors : stop_and_delete(e)
  BY <1>18, <1>2, StopDoes, TeardownDoes
<1>19. CASE \E e \in Executors : Apply(e) \/ ApplyFails(e)
  BY <1>19, <1>6, ApplyDoes
<1> QED BY <1>3, <1>5, <1>7, <1>8, <1>9, <1>10, <1>11, <1>12, <1>13, <1>14, <1>15, <1>16,
     <1>17, <1>18, <1>19 DEF HostNext, LastStep

LEMMA WakeStep ==
  ASSUME TypeInv, Lands, [HostNext]_hostVars, ex'["local"].pc = "wake"
  PROVE  ex'["cli"].pc \notin Late
<1>1. CASE BootCommit
  <2>1. lock = None /\ \E q : Goes("local", q)
    BY <1>1, BootCommitDoes
  <2>2. ex'["cli"] = ex["cli"]
    BY <2>1 DEF Goes, Executors
  <2> QED BY <2>1, <2>2, Nobody, PcsHeld DEF Executors
<1>2. CASE ex["local"].pc = "wake"
  <2>1. ex["cli"].pc \notin Late /\ agent = "boot"
    BY <1>2 DEF Lands, TypeInv, Tasks
  <2>2. CASE Calm
    BY <2>1, <2>2, PcsHeld DEF Calm, CoreKept, Executors
  <2>3. CASE RecordLoad
    BY <2>1, <2>3, RecordLoadDoes DEF Goes, Executors
  <2>4. ASSUME NEW e \in Executors, NEW q, Goes(e, q), e # "cli" \/ q.pc \notin Late
        PROVE  ex'["cli"].pc \notin Late
    BY <2>1, <2>4 DEF Goes, Executors
  <2>5. ASSUME NEW e \in Executors, Acquire(e) \/ JudgeRun(e) PROVE ex'["cli"].pc \notin Late
    BY <2>4, <2>5, AcquireDoes, JudgeRunDoes DEF Late
  <2>6. ASSUME NEW e \in Executors, Prepare(e) PROVE ex'["cli"].pc \notin Late
    <3>1. Clean(e) /\ \E q : Goes(e, q)
      BY <2>6, PrepareDoes
    <3>2. proc["agent"] # {}
      BY <2>1 DEF TypeInv, Lives
    <3>3. e # "cli"
      BY <3>1, <3>2 DEF Clean, CliRun, Alive, Apps
    <3> QED BY <2>4, <3>1, <3>3
  <2>7. ASSUME NEW e \in Executors, Activate(e) PROVE ex'["cli"].pc \notin Late
    <3>1. ex[e].pc = "activate" /\ \E q : Goes(e, q)
      BY <2>7, ActivateDoes
    <3>2. e # "cli"
      BY <2>1, <3>1 DEF Late
    <3> QED BY <2>4, <3>1, <3>2
  <2>8. ASSUME NEW e \in Executors, Apply(e) \/ ApplyFails(e) PROVE ex'["cli"].pc \notin Late
    <3>1. Raised(e)
      BY <2>8, ApplyDoes
    <3>2. e # "cli"
      BY <2>1, <3>1 DEF Raised, Late
    <3>3. (\E q : Goes(e, q)) \/ \E x : Replaced(x)
      BY <3>1 DEF Raised
    <3>4. ~ \E x : Replaced(x)
      BY IdleOut DEF Replaced
    <3> QED BY <2>4, <3>2, <3>3, <3>4
  <2> QED BY <2>2, <2>3, <2>5, <2>6, <2>7, <2>8, Steps DEF CoreStep
<1> QED BY <1>1, <1>2, WakeArises

LEMMA LandsStep ==
  ASSUME TypeInv, Lands, [HostNext]_hostVars
  PROVE  Lands'
<1>1. missed = {} => Owed
  BY DEF Lands
<1>2. missed' = {} => Owed'
  <2>1. CASE UNCHANGED hostVars
    BY <1>1, <2>1 DEF hostVars, Owed, Standing, OwedBoot, OwedWatch, OwedRing, OwedRun,
       OwedCli, Settled, Registered
  <2>2. CASE \E a \in Apps : Die(a) \/ Revive(a) \/ CorpseEnds(a)
    BY <1>1, <2>2, DeathDoes, WanesLands, ReviveLands
  <2>3. CASE \E c \in Configs : Edit(c) \/ PushArrives(c)
    BY <1>1, <2>3, RestLands
  <2>4. ASSUME NEW e \in Executors, Ends(e, FALSE) PROVE missed' = {} => Owed'
    BY <2>4 DEF Ends
  <2>5. CASE \E e \in Executors : LockTimeout(e) \/ JudgeRefuse(e) \/ Residue(e)
                                    \/ Mismatch(e) \/ ReconcileFails(e)
    BY <2>4, <2>5, LockTimeoutDoes, RefusedDoes, FailedDoes
  <2>6. ASSUME NEW e \in Executors, JudgeNoOp(e) PROVE missed' = {} => Owed'
    <3>1. missed' = missed
      BY <2>6, JudgeNoOpDoes DEF Ends
    <3> QED BY <1>1, <2>6, <3>1, NoOpLands
  <2>7. ASSUME NEW e \in Executors, Commit(e) PROVE missed' = {} => Owed'
    <3>1. missed' = missed
      BY <2>7, CommitDoes DEF Ends
    <3> QED BY <1>1, <2>7, <3>1, CommitLands
  <2>8. ASSUME NEW e \in Executors, CoreStep(e) PROVE missed' = {} => Owed'
    <3>1. CASE Acquire(e)
      BY <3>1, AcquireLands
    <3>2. CASE JudgeRun(e)
      BY <1>1, <3>2, JudgeRunDoes, JudgeRunLands
    <3>3. CASE Prepare(e)
      BY <1>1, <3>3, PrepareDoes, PrepareLands
    <3>4. CASE Activate(e)
      BY <1>1, <3>4, ActivateDoes, ActivateLands
    <3>5. CASE Apply(e) \/ ApplyFails(e)
      <4>1. Raised(e) /\ missed' = missed
        BY <3>5, ApplyDoes DEF Raised
      <4> QED BY <1>1, <4>1, ApplyLands
    <3> QED BY <2>8, <3>1, <3>2, <3>3, <3>4, <3>5 DEF CoreStep
  <2>9. CASE \E e \in Executors : stop_and_delete(e)
    BY <1>1, <2>9, TeardownDoes, WanesLands
  <2>10. CASE BootCommit \/ Wake \/ WatchTick
    BY <1>1, <2>10, BootLands, WakeLands, WatchLands
  <2>11. CASE TakePush \/ PushFile \/ PushOxfile \/ RecordLoad \/ record_push \/ RecordTimeout
    BY <1>1, <2>11, PushStepLands
  <2>12. CASE Spawn \/ StopCheck \/ StopSave \/ cmd_apply \/ cmd_restart \/ CliDies
    BY <1>1, <2>12, RestLands
  <2>13. CASE cmd_stop \/ StopLeftovers
    BY <1>1, <2>13, StopDoes, WanesLands
  <2> QED BY <2>1, <2>2, <2>3, <2>5, <2>6, <2>7, <2>8, <2>9, <2>10, <2>11, <2>12, <2>13
       DEF HostNext, CoreStep
<1>3. ex'["local"].pc = "wake" => ex'["cli"].pc \notin Late
  BY WakeStep
<1> QED BY <1>2, <1>3 DEF Lands

LEMMA InitLands ==
  ASSUME HostInit
  PROVE  Lands
<1>1. \A e \in Executors : ex[e] = Idle
  BY DEF HostInit
<1>2. Roster(First) \subseteq Registered
  BY HostAssumption DEF HostInit, Registered, Roster, Apps
<1>3. led.running = file /\ file = First
  BY DEF HostInit, Empty
<1>4. Settled
  BY <1>1, <1>2, <1>3, IdleOut, PcsHeld DEF Settled, Executors
<1> QED BY <1>1, <1>4, IdleOut DEF Lands, Owed, Executors

\* An edit lands: while nothing was missed, the boot pass, the watcher, a bell,
\* a run that read the file as it is or the operator's command still owes the
\* file a look; when all of them rest and the watcher has seen the file, it is
\* what the ledger says is running and its apps are registered.
THEOREM EditsLandHolds == HostSpec => []EditsLand
<1>1. HostInit => Lands
  BY InitLands
<1>2. TypeInv /\ Lands /\ [HostNext]_hostVars => Lands'
  BY LandsStep
<1>3. TypeInv /\ Era /\ Lands => EditsLand
  <2>1. SUFFICES ASSUME TypeInv, Era, Lands, Quiet, missed = {} PROVE Landed
    BY DEF EditsLand
  <2>2. \A e \in Executors : ex[e].pc = "idle"
    BY <2>1, IdleOut DEF Quiet
  <2>3. Owed /\ ~Standing
    BY <2>1, <2>2 DEF Lands, Quiet, Standing, OwedBoot, OwedWatch, OwedRing, Executors
  <2>4. ~OwedRun /\ ~OwedCli
    BY <2>2, PcsHeld DEF OwedRun, OwedCli, Executors
  <2>5. Settled
    BY <2>3, <2>4 DEF Owed
  <2>6. touched \/ Registered \subseteq Roster(file)
    BY <2>1 DEF Era, EraProcs, Registered, Others, Roster, Apps
  <2> QED BY <2>5, <2>6 DEF Settled, Landed
<1> QED BY <1>1, <1>2, <1>3, TypeInvHolds, EraHolds, PTL DEF HostSpec
=============================================================================
