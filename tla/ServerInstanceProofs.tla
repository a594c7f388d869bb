------------------------ MODULE ServerInstanceProofs ------------------------
(***************************************************************************)
(* Proofs about the three models of a server instance's command line: its  *)
(* files (ServerFiles), its processes (ServerLifecycle) and its boot units *)
(* (Autostart).  Each is a specification of its own.                       *)
(***************************************************************************)
EXTENDS ServerFiles, ServerLifecycle, Autostart, FiniteSetTheorems, TLAPS

(***************************************************************************)
(* Boot units                                                              *)
(***************************************************************************)

\* A registration in progress is about a unit.
Regs == [pc : {"write", "ask-same", "ask-cross", "enable"}, me : Units, seen : SUBSET Units]
RegTypes ==
  /\ units \in [Units -> {"none", "written", "enabled"}]
  /\ port \in [Instances -> Ports \cup {Unset}]
  /\ reg \in [Clis -> Regs \cup {NoOp}]
  /\ warned \in SUBSET SUBSET Units /\ raced \in SUBSET SUBSET Units /\ moved \in SUBSET SUBSET Units

\* Two units of a domain whose configured ports meet.
Clashing(u, v) ==
  /\ SameDomain(u[1], v[1]) /\ Unset \notin {port[u[1]], port[v[1]]}
  /\ RealPorts(u[1]) \cap RealPorts(v[1]) # {}

\* The units that are there and those about to be written.
Coming == Present \cup Registering

\* Clashing units were shown before the second of them can be written.
ShownEarly ==
  \A u, v \in Coming : (u # v /\ Clashing(u, v)) => {u, v} \in warned \cup raced \cup moved

(***************************************************************************)
(* Files                                                                   *)
(***************************************************************************)
Texts == {f \in Oxfiles : f.env \subseteq f.apps \X EnvKeys}
Contents == Texts \cup {NoFile, Blank, Garbled}
Before == {"rotate-ox", "rotate-caddy", "yaml", "admin", "caddy", "render"}
Writing == {"write-ox", "open-bak", "write-bak"}
Progs == [pc : Before \cup Writing \cup {"open-ox", "done"}, op : {"init", "start"},
          brand : Brands, exe : Brands, text : Texts \cup {NoFile}, lost : SUBSET (AppNames \X EnvKeys)]

FileTypes ==
  /\ ox \in Contents /\ oxbak \in Contents
  /\ caddy \in {NoFile, "plain", "block"}
  /\ accounts \in {NoFile, "template", "admin"}
  /\ wbin \in Brands \cup {NoFile}
  /\ prog \in Progs \cup {Stopped}
  /\ told \subseteq AppNames \X EnvKeys /\ owed \subseteq AppNames \X EnvKeys
  /\ torn \in BOOLEAN
  /\ Running /\ prog.pc \in {"open-ox"} \cup Writing => prog.text \in Texts
  /\ Running /\ prog.pc \in {"open-bak", "write-bak"} => ox = prog.text

\* Where the operator's lines are, by the step the program is at.
InOld == OldText = Garbled \/ owed \ told \subseteq EnvOf(OldText)
InNew == owed \ told \subseteq EnvOf(prog.text) \cup prog.lost
LinesKept ==
  \/ torn
  \/ ~Running /\ InOld
  \/ prog.pc \in Before \cup {"done"} /\ InOld
  \/ prog.pc = "open-ox" /\ InOld /\ InNew
  \/ prog.pc \in Writing /\ InNew

\* What is already migrated, by the step init is at.
OxSettled(f) == ~oxfile_migration_needed(f, prog.brand)
CaddySettled == ~caddyfile_migration_needed(caddy, prog.brand)
Migrated ==
  (Running /\ prog.op = "init" /\ prog.exe = prog.brand) =>
    /\ prog.pc \in {"rotate-caddy", "yaml", "admin", "caddy", "done", "open-bak", "write-bak"}
         => OxSettled(ox)
    /\ prog.pc \notin {"rotate-ox", "rotate-caddy"} => CaddySettled
    /\ prog.pc \in {"open-ox", "write-ox"} => OxSettled(prog.text)

(***************************************************************************)
(* Processes                                                               *)
(***************************************************************************)
StepRecs == {s \in [pid : Pids, via : Homes \cup {Nothing}, app : Apps \cup {Nothing}, above : BOOLEAN] :
               s.via # Nothing => s.app \in Apps}
Commands == [pc : {"start", "apply", "list", "names", "sweep", "gscan", "steps", "gfinal",
                   "daemon", "verify", "poll"},
             cmd : {"start", "restart", "stop", "stop-g", "takeover"},
             dir : Dirs \cup {Nothing}, on : Dirs \cup {Nothing}, web : BOOLEAN,
             todo : SUBSET Apps, plan : SUBSET StepRecs, held : SUBSET Pids,
             found : BOOLEAN, failed : BOOLEAN, meddled : SUBSET Dirs]
Own == {"start", "stop", "restart"}

LifeTypes ==
  /\ daemon \subseteq Homes
  /\ table \in [Homes -> [Apps -> EntryRecs \cup {Nothing}]]
  /\ proc \in [Pids -> ProcRecs \cup {Nothing}]
  /\ cli \in Commands \cup {Idle}
  /\ quiet \subseteq Dirs /\ spared \subseteq Pids /\ blind \subseteq Dirs

\* Which command may be at which step.
Course ==
  Busy =>
    /\ cli.cmd = "stop-g" => cli.pc \in {"gscan", "steps", "gfinal"}
    /\ cli.cmd # "stop-g" => cli.dir \in Dirs /\ cli.on \in Dirs /\ cli.pc \notin {"gscan", "gfinal"}
    /\ cli.cmd \in Own => cli.on = cli.dir
    /\ cli.pc \in {"start", "apply"} => cli.cmd \in {"start", "restart", "takeover"}
    /\ cli.pc = "names" => cli.todo \subseteq Entries(cli.on)
    /\ cli.pc = "poll" => ~cli.failed
    /\ cli.pc # "steps" => cli.plan = {}

\* A pid in a table is the live process of that very entry.
TableIsTrue ==
  /\ \A h \in Homes : \A a \in Entries(h) :
       /\ table[h][a].pid \in Pids =>
            LET q == proc[table[h][a].pid]
            IN  q # Nothing /\ q.home = h /\ q.app = a /\ q.dir = table[h][a].dir
       /\ h \in Dirs => table[h][a].dir = h
  /\ \A p \in Live : /\ proc[p].cwd \in {proc[p].dir, Root}
                     /\ proc[p].home \in Dirs => proc[p].dir = proc[p].home

\* A step of the sweep knows the only table that may hold its process.
PlanKnowsHome ==
  Busy => \A s \in cli.plan :
    /\ s.pid \in cli.held
    /\ \A h \in Homes : \A a \in Entries(h) : table[h][a].pid = s.pid => h = s.via

\* What the sweep holds, and the entries it closes, are of the instance.
PlanIsOurs ==
  (Busy /\ cli.cmd \in Own) =>
    /\ \A p \in cli.held \cap Live : proc[p].dir = cli.on
    /\ \A s \in cli.plan : (s.via # Nothing /\ ~s.above /\ table[s.via][s.app] # Nothing)
                              => table[s.via][s.app].dir = cli.on

Accounted(d, P) == \A p \in Ours(d) : p \in spared \/ proc[p].home = Default \/ p \in P

\* How far a stop has got with its instance, by the step it is at.
StopProgress ==
  (Busy /\ cli.cmd = "stop" /\ ~cli.failed /\ cli.on \notin blind \cup cli.meddled) =>
    /\ cli.pc = "names" => Entries(cli.on) \subseteq cli.todo
    /\ cli.pc \in {"sweep", "steps", "daemon", "verify", "poll"} => Entries(cli.on) = {}
    /\ cli.pc = "steps" => Accounted(cli.on, {s.pid : s \in cli.plan})
    /\ cli.pc \in {"daemon", "verify", "poll"} => Accounted(cli.on, {})

QuietStays ==
  /\ \A d \in quiet \ blind : Entries(d) = {} /\ Accounted(d, {})
  /\ (Busy /\ cli.cmd \in {"start", "restart", "takeover"}) => cli.dir \notin quiet

(***************************************************************************)
(* Proofs: boot units                                                      *)
(***************************************************************************)
LEMMA RegTypesInit == RegInit => RegTypes /\ ShownEarly
  <1>1. SUFFICES ASSUME RegInit PROVE RegTypes /\ ShownEarly
    OBVIOUS
  <1>2. RegTypes
    BY <1>1 DEF RegInit, RegTypes, NoOp
  <1>3. Present = {} /\ Registering = {}
    BY <1>1 DEF RegInit, Present, Registering, NoOp
  <1> QED  BY <1>2, <1>3 DEF ShownEarly, Coming

\* Every branch of the un-enrolment keeps the types and makes no unit appear.
LEMMA UnenrollDoes ==
  ASSUME RegTypes, NEW R, R \subseteq Present, Unenroll(R)
  PROVE  units' \in [Units -> {"none", "written", "enabled"}] /\ Present' \subseteq Present
  <1>1. CASE units' = [u \in Units |-> IF u \in R THEN "none" ELSE units[u]]
    BY <1>1 DEF RegTypes, Present
  <1>2. CASE \E u \in R : \E left \in {"written", units[u]} :
               units' = [v \in Units |-> IF v = u THEN left ELSE IF v \in R THEN "none" ELSE units[v]]
    BY <1>2 DEF RegTypes, Present
  <1> QED  BY <1>1, <1>2 DEF Unenroll

\* Nothing appears, no port moves and no history is dropped.
Fades == Coming' \subseteq Coming /\ port' = port /\ warned' = warned /\ raced' = raced /\ moved' = moved

LEMMA FadesKeepsShown ==
  ASSUME ShownEarly, Fades PROVE ShownEarly'
  BY DEF ShownEarly, Fades, Clashing, RealPorts

LEMMA RegPieces ==
  ASSUME RegTypes, NEW c \in Clis, reg[c].pc # "none"
  PROVE  /\ reg[c] \in Regs /\ reg[c].me \in Units /\ reg[c].seen \subseteq Units
         /\ \A pc \in {"write", "enable"} :
              LET r == [reg EXCEPT ![c].pc = pc]
              IN  /\ r \in [Clis -> Regs \cup {NoOp}]
                  /\ r[c].pc = pc /\ r[c].me = reg[c].me
                  /\ \A k \in Clis \ {c} : r[k] = reg[k]
         /\ [reg EXCEPT ![c] = NoOp] \in [Clis -> Regs \cup {NoOp}]
  BY DEF RegTypes, Regs, NoOp

\* The registrations of another list are among those of this one.
LEMMA FewerRegistering ==
  ASSUME \A k \in Clis : reg'[k].pc \in {"write", "ask-same", "ask-cross"}
            => reg[k].pc \in {"write", "ask-same", "ask-cross"} /\ reg'[k].me = reg[k].me
  PROVE  Registering' \subseteq Registering
  BY DEF Registering

LEMMA AnswerFades ==
  ASSUME RegTypes, NEW c \in Clis, answer_same(c) \/ answer_cross(c)
  PROVE  RegTypes' /\ Fades
  <1>1. reg[c].pc \in {"ask-same", "ask-cross"} /\ reg' = [reg EXCEPT ![c].pc = "write"]
        /\ port' = port /\ warned' = warned /\ raced' = raced /\ moved' = moved
    BY DEF answer_same, answer_cross, regHist
  <1>2. units' \in [Units -> {"none", "written", "enabled"}] /\ Present' \subseteq Present
    <2>1. CASE answer_same(c)
      BY <2>1, UnenrollDoes DEF answer_same
    <2>2. CASE answer_cross(c)
      <3>1. CASE Unenroll(Overlapping(reg[c].me, reg[c].seen) \cap Present)
        BY <3>1, UnenrollDoes
      <3>2. CASE UNCHANGED <<units, slips>>
        BY <3>2 DEF RegTypes, Present
      <3> QED  BY <2>2, <3>1, <3>2 DEF answer_cross
    <2> QED  BY <2>1, <2>2
  <1>3. /\ reg' \in [Clis -> Regs \cup {NoOp}]
        /\ reg'[c].pc = "write" /\ reg'[c].me = reg[c].me
        /\ \A k \in Clis \ {c} : reg'[k] = reg[k]
    BY <1>1, RegPieces
  <1>4. Registering' \subseteq Registering
    BY <1>1, <1>3, FewerRegistering
  <1> QED  BY <1>1, <1>2, <1>3, <1>4 DEF RegTypes, Fades, Coming

LEMMA EndFades ==
  ASSUME RegTypes, NEW c \in Clis, reg[c].pc # "none", End(c)
  PROVE  reg' \in [Clis -> Regs \cup {NoOp}] /\ Registering' \subseteq Registering
  <1>1. reg' = [reg EXCEPT ![c] = NoOp] /\ reg' \in [Clis -> Regs \cup {NoOp}]
    BY RegPieces DEF End
  <1>2. \A k \in Clis : reg'[k] = IF k = c THEN NoOp ELSE reg[k]
    BY <1>1 DEF RegTypes
  <1> QED  BY <1>1, <1>2, FewerRegistering DEF NoOp

LEMMA CancelFades ==
  ASSUME RegTypes, NEW c \in Clis, answer_cancel(c)
  PROVE  RegTypes' /\ Fades
  BY EndFades DEF answer_cancel, RegTypes, Fades, Coming, Present, regHist

LEMMA WriteFades ==
  ASSUME RegTypes, NEW c \in Clis, write_unit(c)
  PROVE  RegTypes' /\ Fades
  <1>1. reg[c].pc = "write" /\ port' = port /\ warned' = warned /\ raced' = raced /\ moved' = moved
    BY DEF write_unit, regHist
  <1>2. reg[c].me \in Registering /\ reg[c].me \in Units
    BY <1>1, RegPieces DEF Registering
  <1>3. CASE /\ units' = [units EXCEPT ![reg[c].me] = IF @ = "enabled" THEN @ ELSE "written"]
             /\ reg' = [reg EXCEPT ![c].pc = "enable"]
    <2>1. /\ reg' \in [Clis -> Regs \cup {NoOp}] /\ reg'[c].pc = "enable"
          /\ \A k \in Clis \ {c} : reg'[k] = reg[k]
      BY <1>1, <1>3, RegPieces
    <2>2. Registering' \subseteq Registering
      BY <2>1, FewerRegistering
    <2>3. units' \in [Units -> {"none", "written", "enabled"}] /\ Present' \subseteq Present \cup {reg[c].me}
      BY <1>2, <1>3 DEF RegTypes, Present
    <2> QED  BY <1>1, <1>2, <2>1, <2>2, <2>3 DEF RegTypes, Fades, Coming
  <1>4. CASE End(c) /\ UNCHANGED units
    BY <1>1, <1>4, EndFades DEF RegTypes, Fades, Coming, Present
  <1> QED  BY <1>3, <1>4 DEF write_unit

LEMMA EnableFades ==
  ASSUME RegTypes, NEW c \in Clis, enable_unit(c)
  PROVE  RegTypes' /\ Fades
  <1>1. /\ reg[c].pc = "enable" /\ End(c)
        /\ port' = port /\ warned' = warned /\ raced' = raced /\ moved' = moved
    BY DEF enable_unit, regHist
  <1>2. units' \in [Units -> {"none", "written", "enabled"}] /\ Present' \subseteq Present
    BY <1>1 DEF enable_unit, RegTypes, Present
  <1> QED  BY <1>1, <1>2, EndFades DEF RegTypes, Fades, Coming

LEMMA OffFades ==
  ASSUME RegTypes, NEW c \in Clis,
         (\E me \in Units : startup_uninstall(c, me)) \/ (\E tty \in BOOLEAN : startup_off_all(c, tty))
  PROVE  RegTypes' /\ Fades
  <1>1. /\ \E R \in SUBSET Present : Unenroll(R)
        /\ port' = port /\ reg' = reg /\ warned' = warned /\ raced' = raced /\ moved' = moved
    BY DEF startup_uninstall, startup_off_all, regHist
  <1>2. units' \in [Units -> {"none", "written", "enabled"}] /\ Present' \subseteq Present
    BY <1>1, UnenrollDoes
  <1> QED  BY <1>1, <1>2 DEF RegTypes, Fades, Coming, Registering

\* The decision of `on` is one of three.
LEMMA DecisionIs ==
  \A me, C, tty : decide_v2(me, C, tty) \in {"write", "ask-same", "ask-cross"}
  BY DEF decide_v2

\* Within a domain the ports that are compared are the ports that are bound.
LEMMA ReadIsReal ==
  ASSUME RegTypes, NEW u \in Units, NEW v \in Units, Clashing(u, v)
  PROVE  PortsRead(u[1], u[1]) \cap PortsRead(u[1], v[1]) # {}
  BY RegAssumption DEF Clashing, SameDomain, RealPorts, PortsRead, server_instance_ports,
                       host_instance_ports, Units, Instances

\* `on` compares its unit with every unit there and every registration under way.
LEMMA OnShows ==
  ASSUME RegTypes, ShownEarly, NEW c \in Clis, NEW me \in Units, NEW tty \in BOOLEAN,
         startup_on(c, me, tty)
  PROVE  RegTypes' /\ ShownEarly'
  <1> DEFINE C == collect_conflicts(me)
  <1>1. /\ reg[c] = NoOp /\ units' = units /\ port' = port
        /\ reg' = [reg EXCEPT ![c] = [pc |-> decide_v2(me, C, tty), me |-> me, seen |-> C]]
        /\ warned' = (warned \ PairsOf(me)) \cup {{me, u} : u \in Overlapping(me, C)}
        /\ raced' = (raced \ PairsOf(me)) \cup {{me, u} : u \in Registering}
        /\ moved' = moved \ PairsOf(me)
    BY DEF startup_on, Start
  <1>2. C \subseteq Units /\ C = Present \ {me}
    BY DEF collect_conflicts, Present, classify_unit, Units
  <1> HIDE DEF C
  <1>3. decide_v2(me, C, tty) \in {"write", "ask-same", "ask-cross"}
    BY DecisionIs
  <1>4. Registering \subseteq Units
    BY DEF Registering, RegTypes, Regs, NoOp
  <1>5. /\ reg' \in [Clis -> Regs \cup {NoOp}]
        /\ Registering' \subseteq Registering \cup {me}
    <2>1. [pc |-> decide_v2(me, C, tty), me |-> me, seen |-> C] \in Regs
      BY <1>2, <1>3 DEF Regs
    <2>2. \A k \in Clis : reg'[k] = IF k = c THEN [pc |-> decide_v2(me, C, tty), me |-> me, seen |-> C]
                                    ELSE reg[k]
      BY <1>1 DEF RegTypes
    <2> QED  BY <1>1, <2>1, <2>2 DEF Registering, RegTypes
  <1>6. Overlapping(me, C) \subseteq Units
    BY <1>2 DEF Overlapping
  <1>7. RegTypes'
    BY <1>1, <1>4, <1>5, <1>6 DEF RegTypes
  <1>8. ASSUME NEW u \in Units, NEW v \in Units, {u, v} \in PairsOf(me)
        PROVE  u = me \/ v = me
    BY <1>8 DEF PairsOf
  <1>9. ASSUME NEW v \in Coming, v # me, Clashing(me, v) \/ Clashing(v, me)
        PROVE  {me, v} \in (warned \cup raced \cup moved)'
    <2>1. v \in Units /\ Clashing(me, v)
      BY <1>4, <1>9 DEF Coming, Present, Clashing, SameDomain
    <2>2. CASE v \in Present
      BY <1>1, <1>2, <1>9, <2>1, <2>2, ReadIsReal DEF Overlapping
    <2>3. CASE v \in Registering
      BY <1>1, <2>3
    <2> QED  BY <1>9, <2>2, <2>3 DEF Coming
  <1>10. Coming' \subseteq Coming \cup {me} /\ Coming \subseteq Units
    BY <1>1, <1>4, <1>5 DEF Coming, Present
  <1>11. \A u, v \in Units : Clashing(u, v)' = Clashing(u, v)
    BY <1>1 DEF Clashing, RealPorts
  <1>12. ASSUME NEW u \in Coming', NEW v \in Coming', u # v, Clashing(u, v)
         PROVE  {u, v} \in (warned \cup raced \cup moved)'
    <2>1. CASE u # me /\ v # me
      <3>1. {u, v} \in warned \cup raced \cup moved
        BY <1>10, <1>12, <2>1 DEF ShownEarly
      <3>2. {u, v} \notin PairsOf(me)
        BY <1>8, <1>10, <2>1
      <3> QED  BY <1>1, <3>1, <3>2
    <2>2. CASE u = me
      BY <1>9, <1>10, <1>12, <2>2
    <2>3. CASE v = me
      <3>1. {me, u} = {u, v}
        BY <2>3
      <3> QED  BY <1>9, <1>10, <1>12, <2>3, <3>1
    <2> QED  BY <2>1, <2>2, <2>3
  <1>13. ShownEarly'
    BY <1>10, <1>11, <1>12 DEF ShownEarly
  <1> QED  BY <1>7, <1>13

\* An edited port excuses every pair of its instance.
LEMMA EditShows ==
  ASSUME RegTypes, ShownEarly, NEW d \in Instances, NEW p \in Ports, EditPort(d, p)
  PROVE  RegTypes' /\ ShownEarly'
  <1>1. /\ port' = [port EXCEPT ![d] = p] /\ units' = units /\ reg' = reg
        /\ moved' = moved \cup UNION {PairsOf(<<d, b>>) : b \in UnitBrands}
        /\ warned' = warned /\ raced' = raced
    BY DEF EditPort
  <1>2. UNION {PairsOf(<<d, b>>) : b \in UnitBrands} \subseteq SUBSET Units
    BY DEF PairsOf, Units
  <1>3. RegTypes'
    BY <1>1, <1>2 DEF RegTypes
  <1>4. Coming' = Coming /\ Coming \subseteq Units
    BY <1>1 DEF Coming, Present, Registering, RegTypes, Regs, NoOp
  <1>5. ASSUME NEW u \in Units, NEW v \in Units, u[1] = d \/ v[1] = d
        PROVE  {u, v} \in moved'
    <2>1. u = <<u[1], u[2]>> /\ v = <<v[1], v[2]>> /\ u[2] \in UnitBrands /\ v[2] \in UnitBrands
      BY DEF Units
    <2>2. {u, v} \in PairsOf(u) /\ {u, v} \in PairsOf(v)
      BY DEF PairsOf
    <2> QED  BY <1>1, <1>5, <2>1, <2>2
  <1>6. ASSUME NEW u \in Units, NEW v \in Units, u[1] # d, v[1] # d
        PROVE  Clashing(u, v)' = Clashing(u, v)
    <2>1. port'[u[1]] = port[u[1]] /\ port'[v[1]] = port[v[1]]
      BY <1>1, <1>6 DEF RegTypes, Units
    <2> QED  BY <2>1 DEF Clashing, RealPorts
  <1>7. ShownEarly'
    BY <1>1, <1>4, <1>5, <1>6 DEF ShownEarly
  <1> QED  BY <1>3, <1>7

LEMMA RegStep ==
  ASSUME RegTypes, ShownEarly, [RegNext]_regVars
  PROVE  RegTypes' /\ ShownEarly'
  <1>1. CASE \E c \in Clis, u \in Units, tty \in BOOLEAN : startup_on(c, u, tty)
    BY <1>1, OnShows
  <1>2. CASE \E d \in Instances, p \in Ports : EditPort(d, p)
    BY <1>2, EditShows
  <1>3. CASE \E c \in Clis : \/ answer_same(c) \/ answer_cross(c) \/ answer_cancel(c)
                             \/ write_unit(c) \/ enable_unit(c)
                             \/ (\E me \in Units : startup_uninstall(c, me))
                             \/ (\E tty \in BOOLEAN : startup_off_all(c, tty))
    <2>1. RegTypes' /\ Fades
      BY <1>3, AnswerFades, CancelFades, WriteFades, EnableFades, OffFades
    <2> QED  BY <2>1, FadesKeepsShown
  <1>4. CASE UNCHANGED regVars
    <2>1. RegTypes' /\ Fades
      BY <1>4 DEF regVars, RegTypes, Fades, Coming, Present, Registering
    <2> QED  BY <2>1, FadesKeepsShown
  <1> QED  BY <1>1, <1>2, <1>3, <1>4 DEF RegNext

(***************************************************************************)
(* Two enabled boot units of one domain never clash over a configured port *)
(* in silence, for any number of instances, brands, CLIs and commands: the *)
(* comparison `startup on` makes, together with what is registered at the  *)
(* same time, covers every later order of writes and removals.             *)
(***************************************************************************)
THEOREM ClashIsShownHolds == RegSpec => []ClashIsShown
  <1>1. RegTypes /\ ShownEarly => ClashIsShown
    BY DEF ShownEarly, ClashIsShown, Clashing, Coming, Present
  <1>2. RegInit => RegTypes /\ ShownEarly
    BY RegTypesInit
  <1>3. RegTypes /\ ShownEarly /\ [RegNext]_regVars => (RegTypes /\ ShownEarly)'
    BY RegStep
  <1> QED  BY <1>1, <1>2, <1>3, PTL DEF RegSpec

\* The types of the boot units' model.
THEOREM RegTypesHold == RegSpec => []RegTypeOK
  <1>1. RegTypes => RegTypeOK
    BY DEF RegTypes, RegTypeOK, Regs
  <1>2. RegInit => RegTypes /\ ShownEarly
    BY RegTypesInit
  <1>3. RegTypes /\ ShownEarly /\ [RegNext]_regVars => (RegTypes /\ ShownEarly)'
    BY RegStep
  <1> QED  BY <1>1, <1>2, <1>3, PTL DEF RegSpec

(***************************************************************************)
(* Proofs: files                                                           *)
(***************************************************************************)
FilesInv == FileTypes /\ LinesKept /\ Migrated

LEMMA FilesInitially == FilesInit => FilesInv
  <1>1. SUFFICES ASSUME FilesInit PROVE FilesInv
    OBVIOUS
  <1>2. FileTypes
    BY <1>1 DEF FilesInit, FileTypes, Contents, Stopped, Running
  <1>3. ~Running /\ owed = {}
    BY <1>1 DEF FilesInit, Stopped, Running
  <1>4. LinesKept
    BY <1>3 DEF LinesKept, InOld
  <1>5. Migrated
    BY <1>3 DEF Migrated
  <1> QED  BY <1>2, <1>4, <1>5 DEF FilesInv

\* A text is a file of its own kind.
LEMMA TextIsOxfile ==
  ASSUME NEW f \in Texts
  PROVE  IsOxfile(f) /\ EnvOf(f) = f.env /\ f \in Oxfiles /\ f # NoFile /\ f # Garbled
  BY FilesAssumption DEF Texts, IsOxfile, EnvOf

LEMMA ContentsEnv ==
  ASSUME NEW f \in Contents
  PROVE  /\ EnvOf(f) \subseteq AppNames \X EnvKeys
         /\ IsOxfile(f) => f \in Texts
         /\ ~IsOxfile(f) => EnvOf(f) = {}
  BY DEF Contents, Texts, Oxfiles, EnvOf, IsOxfile

\* What the renderer writes: a text the guard accepts when the binary has the
\* brand's name; its lines are lines of the old text.
LEMMA RenderIs ==
  ASSUME NEW b \in Brands, NEW e \in Brands, wbin \in Brands \cup {NoFile}, NEW f \in Contents
  PROVE  /\ render_oxfile(b, e) \in Texts
         /\ merge_manual_env(f, render_oxfile(b, e)) \in Texts
         /\ render_oxfile(b, e).env = {}
         /\ \A t \in {render_oxfile(b, e), merge_manual_env(f, render_oxfile(b, e))} :
              e = b => ~oxfile_migration_needed(t, b)
  <1> DEFINE w == discover_weaknet_bin(b)
             A == {<<"server", b>>, <<"web", b>>} \cup (IF w = NoFile THEN {} ELSE {Weaknet})
             r == render_oxfile(b, e)
             m == merge_manual_env(f, r)
  <1>1. w \in Brands \cup {NoFile}
    BY DEF discover_weaknet_bin
  <1>2. A \subseteq AppNames
    BY FilesAssumption DEF AppNames, Weaknet
  <1>3. r = [apps |-> A, server |-> e, weaknet |-> w, env |-> {}]
    BY DEF render_oxfile
  <1>4. Weaknet \in A <=> w # NoFile
    BY DEF Weaknet
  <1>5. EnvOf(f) \subseteq AppNames \X EnvKeys
    BY ContentsEnv
  <1>6. m = [apps |-> A, server |-> e, weaknet |-> w, env |-> {x \in EnvOf(f) : x[1] \in A}]
    <2> HIDE DEF A, w
    <2> QED  BY <1>3 DEF merge_manual_env
  <1>7. {x \in EnvOf(f) : x[1] \in A} \subseteq A \X EnvKeys
    <2> HIDE DEF A
    <2> QED  BY <1>5
  <1> HIDE DEF A, r, m
  <1>8. r \in Texts /\ r.env = {} /\ r.server = e /\ r.apps = A /\ r.weaknet = w
    BY <1>1, <1>2, <1>3 DEF Texts, Oxfiles
  <1>9. m \in Texts /\ m.server = e /\ m.apps = A /\ m.weaknet = w
    <2>1. A \X EnvKeys \subseteq AppNames \X EnvKeys
      BY <1>2
    <2> QED  BY <1>1, <1>2, <1>6, <1>7, <2>1 DEF Texts, Oxfiles
  <1>10. ASSUME NEW t \in Texts, t.server = e, t.apps = A, t.weaknet = w, e = b
         PROVE  ~oxfile_migration_needed(t, b)
    BY <1>4, <1>10, TextIsOxfile DEF oxfile_migration_needed
  <1>11. /\ r \in Texts /\ m \in Texts /\ r.env = {}
         /\ \A t \in {r, m} : e = b => ~oxfile_migration_needed(t, b)
    BY <1>8, <1>9, <1>10
  <1> QED  BY <1>11 DEF r, m

Pcs == Before \cup Writing \cup {"open-ox", "done"}

LEMMA ProgRuns ==
  ASSUME FileTypes
  PROVE  /\ Running => prog \in Progs
         /\ \A x \in Pcs : AtPc(x) => Running
         /\ prog \in Progs => Running
  BY DEF FileTypes, Running, Stopped, Progs, AtPc, Pcs, Before, Writing

LEMMA GotoIs ==
  ASSUME FileTypes, Running, NEW x \in Pcs, GotoPc(x)
  PROVE  /\ prog' \in Progs /\ prog'.pc = x /\ Running' /\ prog \in Progs
         /\ prog'.op = prog.op /\ prog'.brand = prog.brand /\ prog'.exe = prog.exe
         /\ prog'.text = prog.text /\ prog'.lost = prog.lost
  <1>1. prog \in Progs
    BY ProgRuns
  <1> QED  BY <1>1 DEF GotoPc, Progs, Pcs, Running, Before, Writing

\* A step of the program that leaves the files it migrates alone.
LEMMA GuardsStay ==
  ASSUME wbin' = wbin, NEW b, NEW f
  PROVE  /\ oxfile_migration_needed(f, b)' = oxfile_migration_needed(f, b)
         /\ caddyfile_migration_needed(f, b)' = caddyfile_migration_needed(f, b)
  BY DEF oxfile_migration_needed, caddyfile_migration_needed, discover_weaknet_bin

LEMMA BeginsRun ==
  ASSUME FilesInv, NEW b \in Brands, NEW e \in Brands, cmd_init(b, e) \/ start_oxfile(b, e)
  PROVE  FilesInv'
  <1> DEFINE start(pc, op) == [pc |-> pc, op |-> op, brand |-> b, exe |-> e, text |-> NoFile, lost |-> {}]
  <1>1. /\ ~Running
        /\ prog' = start("rotate-ox", "init") \/ prog' = start("render", "start")
        /\ ox' = ox /\ oxbak' = oxbak /\ caddy' = caddy /\ accounts' = accounts /\ wbin' = wbin
        /\ owed' = owed /\ told' = told /\ torn' = torn
    BY DEF cmd_init, start_oxfile, hist3
  <1>2. /\ prog' \in Progs /\ Running'
        /\ prog'.pc = "rotate-ox" \/ (prog'.pc = "render" /\ prog'.op = "start")
    BY <1>1 DEF Progs, Running, Before
  <1>3. FileTypes'
    BY <1>1, <1>2 DEF FilesInv, FileTypes, Writing
  <1>4. torn \/ InOld
    BY <1>1, ProgRuns DEF FilesInv, LinesKept, Running, Before, Writing, FileTypes
  <1>5. LinesKept'
    BY <1>1, <1>2, <1>4 DEF LinesKept, InOld, OldText, EnvOf, IsOxfile, Before
  <1>6. Migrated'
    BY <1>2 DEF Migrated
  <1> QED  BY <1>3, <1>5, <1>6 DEF FilesInv

\* migrate_oxfile: the .bak has the lines the oxfile had.
LEMMA RotateKeeps ==
  ASSUME FilesInv, migrate_oxfile
  PROVE  FilesInv'
  <1>1. /\ AtPc("rotate-ox") /\ GotoPc("rotate-caddy")
        /\ \/ oxfile_migration_needed(ox, prog.brand) /\ oxbak' = ox /\ ox' = NoFile
           \/ ~oxfile_migration_needed(ox, prog.brand) /\ ox' = ox /\ oxbak' = oxbak
        /\ caddy' = caddy /\ accounts' = accounts /\ wbin' = wbin
        /\ owed' = owed /\ told' = told /\ torn' = torn
    BY DEF migrate_oxfile, hist3
  <1>2. Running /\ FileTypes
    BY <1>1, ProgRuns DEF FilesInv, Pcs, Before
  <1>3. /\ prog' \in Progs /\ prog'.pc = "rotate-caddy" /\ Running' /\ prog \in Progs
        /\ prog'.op = prog.op /\ prog'.brand = prog.brand /\ prog'.exe = prog.exe
        /\ prog'.text = prog.text /\ prog'.lost = prog.lost
    BY <1>1, <1>2, GotoIs DEF Pcs, Before
  <1>4. FileTypes'
    BY <1>1, <1>2, <1>3 DEF FileTypes, Writing, Contents
  <1>5. OldText' = OldText
    <2>1. CASE oxfile_migration_needed(ox, prog.brand)
      <3>1. ox # NoFile
        BY <2>1 DEF oxfile_migration_needed, IsOxfile
      <3> QED  BY <1>1, <2>1, <3>1 DEF OldText
    <2>2. CASE ~oxfile_migration_needed(ox, prog.brand)
      BY <1>1, <2>2 DEF OldText
    <2> QED  BY <2>1, <2>2
  <1>6. torn \/ InOld
    BY <1>1, <1>2 DEF FilesInv, LinesKept, AtPc, Before, Writing
  <1>7. LinesKept'
    BY <1>1, <1>3, <1>5, <1>6 DEF LinesKept, InOld, EnvOf, IsOxfile, Before
  <1>8. ~oxfile_migration_needed(ox, prog.brand)'
    <2>1. ~oxfile_migration_needed(ox', prog.brand)
      BY <1>1 DEF oxfile_migration_needed, IsOxfile
    <2> QED  BY <1>1, <1>3, <2>1, GuardsStay DEF oxfile_migration_needed, discover_weaknet_bin
  <1>9. Migrated'
    BY <1>3, <1>8 DEF Migrated, OxSettled
  <1> QED  BY <1>4, <1>7, <1>9 DEF FilesInv

\* The steps of init between the rotation and the render.
LEMMA TemplatesKeep ==
  ASSUME FilesInv, migrate_caddyfile \/ write_templates \/ bootstrap_admin \/ write_caddyfile
  PROVE  FilesInv'
  <1>1. /\ prog.pc \in {"rotate-caddy", "yaml", "admin", "caddy"}
        /\ ox' = ox /\ oxbak' = oxbak /\ wbin' = wbin
        /\ owed' = owed /\ told' = told /\ torn' = torn
    BY DEF migrate_caddyfile, write_templates, bootstrap_admin, write_caddyfile, AtPc, hist3
  <1>2. Running /\ FileTypes
    BY <1>1 DEF FilesInv, Running
  <1>3. \/ prog.pc = "rotate-caddy" /\ GotoPc("yaml")
           /\ caddy' = (IF caddyfile_migration_needed(caddy, prog.brand) THEN NoFile ELSE caddy)
           /\ accounts' = accounts
        \/ prog.pc = "yaml" /\ GotoPc("admin") /\ caddy' = caddy
           /\ accounts' = (IF accounts = NoFile THEN "template" ELSE accounts)
        \/ prog.pc = "admin" /\ GotoPc("caddy") /\ caddy' = caddy /\ accounts' \in {accounts, "admin"}
        \/ prog.pc = "caddy" /\ (GotoPc("render") \/ (ox # NoFile /\ GotoPc("done")))
           /\ caddy' = (IF caddy = NoFile THEN "block" ELSE caddy) /\ accounts' = accounts
    BY DEF migrate_caddyfile, write_templates, bootstrap_admin, write_caddyfile, AtPc, render_caddyfile
  <1>4. PICK x \in {"yaml", "admin", "caddy", "render", "done"} : GotoPc(x)
    BY <1>3
  <1>5. /\ prog' \in Progs /\ prog'.pc = x /\ Running' /\ prog \in Progs
        /\ prog'.op = prog.op /\ prog'.brand = prog.brand /\ prog'.exe = prog.exe
        /\ prog'.text = prog.text /\ prog'.lost = prog.lost
    BY <1>2, <1>4, GotoIs DEF Pcs, Before
  <1>6. FileTypes'
    <2>1. caddy' \in {NoFile, "plain", "block"} /\ accounts' \in {NoFile, "template", "admin"}
      BY <1>2, <1>3 DEF FileTypes
    <2> QED  BY <1>1, <1>2, <1>5, <2>1 DEF FileTypes, Writing, Contents
  <1>7. torn \/ InOld
    BY <1>1, <1>2 DEF FilesInv, LinesKept, Before, Writing
  <1>8. LinesKept'
    BY <1>1, <1>5, <1>7 DEF LinesKept, InOld, OldText, EnvOf, IsOxfile, Before
  <1>9. ~caddyfile_migration_needed(caddy', prog.brand) \/ prog.op # "init" \/ prog.exe # prog.brand
    <2>1. CASE prog.pc = "rotate-caddy"
      BY <1>3, <2>1 DEF caddyfile_migration_needed
    <2>2. CASE prog.pc # "rotate-caddy"
      <3>1. ~caddyfile_migration_needed(caddy, prog.brand) \/ prog.op # "init" \/ prog.exe # prog.brand
        BY <1>1, <1>2, <2>2 DEF FilesInv, Migrated, CaddySettled
      <3> QED  BY <1>3, <2>2, <3>1 DEF caddyfile_migration_needed
    <2> QED  BY <2>1, <2>2
  <1>10. ~oxfile_migration_needed(ox, prog.brand) \/ prog.op # "init" \/ prog.exe # prog.brand
    BY <1>1, <1>2 DEF FilesInv, Migrated, OxSettled
  <1>11. /\ (prog.op = "init" /\ prog.exe = prog.brand) =>
              ~oxfile_migration_needed(ox, prog.brand)' /\ ~caddyfile_migration_needed(caddy, prog.brand)'
    BY <1>1, <1>5, <1>9, <1>10 DEF oxfile_migration_needed, caddyfile_migration_needed, discover_weaknet_bin
  <1>12. Migrated'
    BY <1>4, <1>5, <1>11 DEF Migrated, OxSettled, CaddySettled
  <1> QED  BY <1>6, <1>8, <1>12 DEF FilesInv

\* write_oxfile's render: every line is in the new text or among the lost.
LEMMA RenderKeeps ==
  ASSUME FilesInv, Render
  PROVE  FilesInv'
  <1>1. /\ AtPc("render")
        /\ ox' = ox /\ oxbak' = oxbak /\ caddy' = caddy /\ accounts' = accounts /\ wbin' = wbin
        /\ owed' = owed /\ told' = told /\ torn' = torn
    BY DEF Render, hist3
  <1>2. Running /\ FileTypes /\ prog \in Progs
    BY <1>1, ProgRuns DEF FilesInv, Pcs, Before
  <1>3. OldText \in Contents /\ prog.brand \in Brands /\ prog.exe \in Brands
    BY <1>2 DEF FileTypes, OldText, Progs
  <1>4. /\ NewText \in Texts
        /\ Corrupt => NewText.env = {}
        /\ prog.exe = prog.brand => ~oxfile_migration_needed(NewText, prog.brand)
    BY <1>2, <1>3, RenderIs DEF NewText, FileTypes
  <1>5. PICK lost \in SUBSET (AppNames \X EnvKeys) :
          /\ lost = (EnvOf(OldText) \ NewText.env) \cup (IF Corrupt THEN owed \ NewText.env ELSE {})
          /\ prog' = [prog EXCEPT !.pc = "open-ox", !.text = NewText, !.lost = lost]
    <2>1. EnvOf(OldText) \subseteq AppNames \X EnvKeys /\ owed \subseteq AppNames \X EnvKeys
      BY <1>2, <1>3, ContentsEnv DEF FileTypes
    <2>2. (EnvOf(OldText) \ NewText.env) \cup (IF Corrupt THEN owed \ NewText.env ELSE {})
            \in SUBSET (AppNames \X EnvKeys)
      BY <2>1
    <2> QED  BY <2>2 DEF Render
  <1>6. /\ prog' \in Progs /\ prog'.pc = "open-ox" /\ Running'
        /\ prog'.op = prog.op /\ prog'.brand = prog.brand /\ prog'.exe = prog.exe
        /\ prog'.text = NewText /\ prog'.lost = lost
    BY <1>2, <1>4, <1>5 DEF Progs, Running
  <1>7. FileTypes'
    BY <1>1, <1>2, <1>4, <1>6 DEF FileTypes, Writing
  <1>8. torn \/ InOld
    BY <1>1, <1>2 DEF FilesInv, LinesKept, AtPc, Before, Writing
  <1>9. InOld => owed \ told \subseteq NewText.env \cup lost
    <2>1. CASE OldText = Garbled
      <3>1. Corrupt
        BY <2>1, FilesAssumption DEF Corrupt, looks_like_oxfile
      <3> QED  BY <1>5, <3>1
    <2>2. CASE owed \ told \subseteq EnvOf(OldText)
      BY <1>5, <2>2
    <2> QED  BY <2>1, <2>2 DEF InOld
  <1>10. EnvOf(NewText) = NewText.env
    BY <1>4, TextIsOxfile
  <1>11. LinesKept'
    <2>1. InOld' <=> InOld
      BY <1>1 DEF InOld, OldText, EnvOf, IsOxfile
    <2>2. InNew' <=> owed \ told \subseteq EnvOf(NewText) \cup lost
      BY <1>1, <1>6 DEF InNew, EnvOf, IsOxfile
    <2> QED  BY <1>1, <1>6, <1>8, <1>9, <1>10, <2>1, <2>2 DEF LinesKept
  <1>12. (prog.op = "init" /\ prog.exe = prog.brand) => ~caddyfile_migration_needed(caddy, prog.brand)
    BY <1>1, <1>2 DEF FilesInv, Migrated, CaddySettled, AtPc
  <1>13. Migrated'
    <2>1. \A f, b : oxfile_migration_needed(f, b)' = oxfile_migration_needed(f, b)
      BY <1>1, GuardsStay
    <2>2. (prog'.op = "init" /\ prog'.exe = prog'.brand) =>
             ~oxfile_migration_needed(prog.text, prog.brand)' /\ ~caddyfile_migration_needed(caddy, prog.brand)'
      <3>1. (prog.exe = prog.brand) => ~oxfile_migration_needed(prog.text, prog.brand)'
        BY <1>1, <1>4, <1>6 DEF oxfile_migration_needed, discover_weaknet_bin
      <3>2. caddyfile_migration_needed(caddy, prog.brand)' = caddyfile_migration_needed(caddy, prog.brand)
        BY <1>1, <1>6 DEF caddyfile_migration_needed, discover_weaknet_bin
      <3> QED  BY <1>6, <1>12, <3>1, <3>2
    <2> QED  BY <1>6, <2>2 DEF Migrated, OxSettled, CaddySettled
  <1> QED  BY <1>7, <1>11, <1>13 DEF FilesInv

\* The two files are truncated and written; the notes come last.
LEMMA WritesKeep ==
  ASSUME FilesInv, OpenOx \/ WriteOx \/ OpenBak \/ WriteBak
  PROVE  FilesInv'
  <1>1. /\ prog.pc \in {"open-ox", "write-ox", "open-bak", "write-bak"}
        /\ caddy' = caddy /\ accounts' = accounts /\ wbin' = wbin /\ owed' = owed /\ torn' = torn
    BY DEF OpenOx, WriteOx, OpenBak, WriteBak, AtPc, hist3
  <1>2. Running /\ FileTypes /\ prog \in Progs
    BY <1>1, ProgRuns DEF FilesInv, Running
  <1>3. \/ prog.pc = "open-ox" /\ GotoPc("write-ox") /\ ox' = Blank /\ oxbak' = oxbak /\ told' = told
        \/ prog.pc = "write-ox" /\ GotoPc("open-bak") /\ ox' = prog.text /\ oxbak' = oxbak /\ told' = told
        \/ prog.pc = "open-bak" /\ GotoPc("write-bak") /\ ox' = ox /\ oxbak' = Blank /\ told' = told
        \/ prog.pc = "write-bak" /\ GotoPc("done") /\ ox' = ox /\ oxbak' = prog.text
           /\ told' = told \cup prog.lost
    BY DEF OpenOx, WriteOx, OpenBak, WriteBak, AtPc, hist3
  <1>4. PICK x \in {"write-ox", "open-bak", "write-bak", "done"} :
          /\ GotoPc(x)
          /\ x = "write-ox" <=> prog.pc = "open-ox"
          /\ x = "open-bak" <=> prog.pc = "write-ox"
          /\ x = "write-bak" <=> prog.pc = "open-bak"
          /\ x = "done" <=> prog.pc = "write-bak"
    BY <1>3
  <1>5. /\ prog' \in Progs /\ prog'.pc = x /\ Running'
        /\ prog'.op = prog.op /\ prog'.brand = prog.brand /\ prog'.exe = prog.exe
        /\ prog'.text = prog.text /\ prog'.lost = prog.lost
    BY <1>2, <1>4, GotoIs DEF Pcs, Writing
  <1>6. prog.text \in Texts /\ prog.lost \subseteq AppNames \X EnvKeys
    BY <1>1, <1>2 DEF FileTypes, Writing, Progs
  <1>7. prog.pc \in {"open-bak", "write-bak"} => ox = prog.text
    BY <1>2 DEF FileTypes
  <1>8. FileTypes'
    <2>1. ox' \in Contents /\ oxbak' \in Contents
      BY <1>2, <1>3, <1>6 DEF FileTypes, Contents
    <2>2. told' \subseteq AppNames \X EnvKeys
      BY <1>2, <1>3, <1>6 DEF FileTypes
    <2>3. x \in {"open-bak", "write-bak"} => ox' = prog.text
      BY <1>3, <1>4, <1>7
    <2> QED  BY <1>1, <1>2, <1>5, <1>6, <2>1, <2>2, <2>3 DEF FileTypes
  <1>9. torn \/ InNew
    BY <1>1, <1>2 DEF FilesInv, LinesKept, Before, Writing
  <1>10. LinesKept'
    <2>1. CASE x \in Writing
      <3>1. told' = told
        BY <1>3, <1>4, <2>1 DEF Writing
      <3> QED  BY <1>1, <1>5, <1>9, <2>1, <3>1 DEF LinesKept, InNew, EnvOf, IsOxfile
    <2>2. CASE x = "done"
      <3>1. ox' = prog.text /\ told' = told \cup prog.lost
        BY <1>3, <1>4, <1>7, <2>2
      <3>2. OldText' = prog.text
        BY <1>6, <3>1, TextIsOxfile DEF OldText
      <3>3. InNew => InOld'
        BY <1>1, <3>1, <3>2 DEF InNew, InOld, EnvOf, IsOxfile
      <3> QED  BY <1>1, <1>5, <1>9, <2>2, <3>3 DEF LinesKept
    <2> QED  BY <1>4, <2>1, <2>2 DEF Writing
  <1>11. Migrated'
    <2>1. SUFFICES ASSUME prog.op = "init", prog.exe = prog.brand  PROVE Migrated'
      BY <1>5 DEF Migrated
    <2>2. ~caddyfile_migration_needed(caddy, prog.brand) /\ ~oxfile_migration_needed(prog.text, prog.brand)
      BY <1>1, <1>2, <1>7, <2>1 DEF FilesInv, Migrated, CaddySettled, OxSettled
    <2>3. x \in {"open-bak", "write-bak", "done"} => ox' = prog.text
      BY <1>3, <1>4, <1>7
    <2>4. caddyfile_migration_needed(caddy, prog.brand)' = caddyfile_migration_needed(caddy, prog.brand)
      BY <1>1, <1>5 DEF caddyfile_migration_needed, discover_weaknet_bin
    <2>5. oxfile_migration_needed(prog.text, prog.brand)' = oxfile_migration_needed(prog.text, prog.brand)
      BY <1>1, <1>5 DEF oxfile_migration_needed, discover_weaknet_bin
    <2>6. x \in {"open-bak", "write-bak", "done"} => ~oxfile_migration_needed(ox, prog.brand)'
      BY <1>5, <2>2, <2>3, <2>5 DEF oxfile_migration_needed, discover_weaknet_bin
    <2> QED  BY <1>5, <2>2, <2>4, <2>5, <2>6 DEF Migrated, OxSettled, CaddySettled
  <1> QED  BY <1>8, <1>10, <1>11 DEF FilesInv

LEMMA StoppedIs == prog' = Stopped => ~Running'
  BY DEF Running, Stopped

\* The end of a run, and a kill between any two of its steps.
LEMMA EndsKeep ==
  ASSUME FilesInv, Done \/ Killed
  PROVE  FilesInv'
  <1>1. /\ Running /\ prog' = Stopped /\ ~Running'
        /\ ox' = ox /\ oxbak' = oxbak /\ caddy' = caddy /\ accounts' = accounts /\ wbin' = wbin
        /\ owed' = owed /\ told' = told
        /\ \/ prog.pc = "done" /\ torn' = torn
           \/ (\/ torn \/ prog.pc \in {"write-ox", "write-bak"}
               \/ prog.pc = "open-bak" /\ prog.lost # {}) => torn'
    <2>1. CASE Done
      BY <2>1, ProgRuns, StoppedIs DEF FilesInv, Done, Quit, AtPc, hist3, Running
    <2>2. CASE Killed
      <3>1. /\ Running /\ prog' = Stopped /\ ~Running'
            /\ ox' = ox /\ oxbak' = oxbak /\ caddy' = caddy /\ accounts' = accounts /\ wbin' = wbin
            /\ owed' = owed /\ told' = told
        BY <2>2, StoppedIs DEF Killed, Quit
      <3>2. (\/ torn \/ prog.pc \in {"write-ox", "write-bak"}
             \/ prog.pc = "open-bak" /\ prog.lost # {}) => torn'
        BY <2>2, Zenon DEF Killed
      <3> QED  BY <3>1, <3>2
    <2> QED  BY <2>1, <2>2
  <1>2. FileTypes /\ prog \in Progs
    BY <1>1, ProgRuns DEF FilesInv
  <1>3. FileTypes'
    <2>1. torn' \in BOOLEAN
      <3>1. CASE Done
        BY <1>2, <3>1 DEF Done, hist3, FileTypes
      <3>2. CASE Killed
        BY <3>2, Zenon DEF Killed
      <3> QED  BY <3>1, <3>2
    <2> QED  BY <1>1, <1>2, <2>1 DEF FileTypes
  <1>4. LinesKept'
    <2>1. CASE torn'
      BY <2>1 DEF LinesKept
    <2>2. CASE ~torn'
      <3>1. ~torn /\ prog.pc \notin {"write-ox", "write-bak"}
        BY <1>1, <2>2
      <3>2. CASE prog.pc = "open-bak"
        <4>1. prog.lost = {} /\ ox = prog.text /\ prog.text \in Texts /\ InNew
          BY <1>1, <1>2, <2>2, <3>1, <3>2 DEF FilesInv, LinesKept, FileTypes, Before, Writing
        <4>2. OldText = prog.text
          BY <4>1, TextIsOxfile DEF OldText
        <4>3. InOld
          BY <4>1, <4>2 DEF InNew, InOld
        <4> QED  BY <1>1, <4>3 DEF LinesKept, InOld, OldText, EnvOf, IsOxfile
      <3>3. CASE prog.pc # "open-bak"
        <4>1. InOld
          BY <1>1, <3>1, <3>3 DEF FilesInv, LinesKept, Writing
        <4> QED  BY <1>1, <4>1 DEF LinesKept, InOld, OldText, EnvOf, IsOxfile
      <3> QED  BY <3>2, <3>3
    <2> QED  BY <2>1, <2>2
  <1>5. Migrated'
    BY <1>1 DEF Migrated
  <1> QED  BY <1>3, <1>4, <1>5 DEF FilesInv

\* The operator, between runs.
LEMMA EditsKeep ==
  ASSUME FilesInv,
         \/ \E a \in AppNames, k \in EnvKeys : AddEnv(a, k)
         \/ DeleteOxfile \/ GarbleOxfile \/ EditCaddyfile
         \/ \E w \in Brands \cup {NoFile} : Deploy(w)
  PROVE  FilesInv'
  <1>1. /\ ~Running /\ prog' = prog /\ oxbak' = oxbak /\ accounts' = accounts /\ torn' = torn
        /\ wbin' \in {wbin, NoFile} \cup Brands
    BY DEF AddEnv, DeleteOxfile, GarbleOxfile, EditCaddyfile, Deploy, Operator, hist3
  <1>2. ~Running' /\ FileTypes /\ prog \notin Progs
    BY <1>1, ProgRuns DEF FilesInv, Running
  <1>3. Migrated'
    BY <1>2 DEF Migrated
  <1>4. torn \/ InOld
    BY <1>1, <1>2 DEF FilesInv, LinesKept, FileTypes, Stopped, Before, Writing
  <1>5. ASSUME NEW a \in AppNames, NEW k \in EnvKeys, AddEnv(a, k)
        PROVE  FilesInv'
    <2>1. /\ IsOxfile(ox) /\ a \in ox.apps /\ ox' = [ox EXCEPT !.env = @ \cup {<<a, k>>}]
          /\ owed' = owed \cup {<<a, k>>} /\ told' = told \ {<<a, k>>} /\ caddy' = caddy /\ wbin' = wbin
      BY <1>5 DEF AddEnv
    <2>2. ox \in Texts
      BY <1>2, <2>1, ContentsEnv DEF FileTypes
    <2>3. ox' \in Texts /\ ox'.env = ox.env \cup {<<a, k>>}
      BY <2>1, <2>2 DEF Texts, Oxfiles
    <2>4. FileTypes'
      BY <1>1, <1>2, <2>1, <2>3 DEF FileTypes, Contents
    <2>5. OldText = ox /\ OldText' = ox' /\ ox # Garbled /\ EnvOf(ox) = ox.env
      BY <2>2, <2>3, TextIsOxfile DEF OldText
    <2>6. EnvOf(ox)' = ox'.env
      BY <2>3, TextIsOxfile DEF EnvOf, IsOxfile
    <2>7. InOld => InOld'
      BY <2>1, <2>3, <2>5, <2>6 DEF InOld
    <2> QED  BY <1>1, <1>2, <1>3, <1>4, <2>4, <2>7 DEF FilesInv, LinesKept
  <1>6. CASE DeleteOxfile \/ GarbleOxfile
    <2>1. /\ ox' \in {NoFile, Garbled} /\ owed' = owed \cap EnvOf(oxbak) /\ told' = told
          /\ caddy' = caddy /\ wbin' = wbin
      BY <1>6 DEF DeleteOxfile, GarbleOxfile
    <2>2. FileTypes'
      BY <1>1, <1>2, <2>1 DEF FileTypes, Contents
    <2>3. InOld'
      <3>1. OldText' = Garbled \/ OldText' = oxbak
        BY <1>1, <2>1 DEF OldText
      <3> QED  BY <2>1, <3>1 DEF InOld, EnvOf, IsOxfile
    <2> QED  BY <1>1, <1>2, <1>3, <2>2, <2>3 DEF FilesInv, LinesKept
  <1>7. CASE EditCaddyfile \/ \E w \in Brands \cup {NoFile} : Deploy(w)
    <2>1. /\ ox' = ox /\ owed' = owed /\ told' = told /\ caddy' \in {caddy, NoFile, "plain"}
      BY <1>7 DEF EditCaddyfile, Deploy, hist3
    <2>2. FileTypes'
      BY <1>1, <1>2, <2>1 DEF FileTypes
    <2>3. InOld => InOld'
      BY <1>1, <2>1 DEF InOld, OldText, EnvOf, IsOxfile
    <2> QED  BY <1>1, <1>2, <1>3, <1>4, <2>2, <2>3 DEF FilesInv, LinesKept
  <1> QED  BY <1>5, <1>6, <1>7

LEMMA FilesStutter ==
  ASSUME FilesInv, UNCHANGED fileVars PROVE FilesInv'
  <1>1. FileTypes'
    BY DEF fileVars, FilesInv, FileTypes, Running
  <1>2. LinesKept'
    BY DEF fileVars, FilesInv, LinesKept, Running, InOld, InNew, OldText, EnvOf, IsOxfile
  <1>3. Migrated'
    BY DEF fileVars, FilesInv, Migrated, Running, OxSettled, CaddySettled, oxfile_migration_needed,
           caddyfile_migration_needed, discover_weaknet_bin
  <1> QED  BY <1>1, <1>2, <1>3 DEF FilesInv

LEMMA FilesStep ==
  ASSUME FilesInv, [FilesNext]_fileVars
  PROVE  FilesInv'
  <1>1. CASE \E b \in Brands, e \in Brands : cmd_init(b, e) \/ start_oxfile(b, e)
    BY <1>1, BeginsRun
  <1>2. CASE migrate_oxfile
    BY <1>2, RotateKeeps
  <1>3. CASE migrate_caddyfile \/ write_templates \/ bootstrap_admin \/ write_caddyfile
    BY <1>3, TemplatesKeep
  <1>4. CASE Render
    BY <1>4, RenderKeeps
  <1>5. CASE OpenOx \/ WriteOx \/ OpenBak \/ WriteBak
    BY <1>5, WritesKeep
  <1>6. CASE Done \/ Killed
    BY <1>6, EndsKeep
  <1>7. CASE \/ \E a \in AppNames, k \in EnvKeys : AddEnv(a, k)
             \/ DeleteOxfile \/ GarbleOxfile \/ EditCaddyfile
             \/ \E w \in Brands \cup {NoFile} : Deploy(w)
    BY <1>7, EditsKeep
  <1>8. CASE UNCHANGED fileVars
    BY <1>8, FilesStutter
  <1> QED  BY <1>1, <1>2, <1>3, <1>4, <1>5, <1>6, <1>7, <1>8 DEF FilesNext

(***************************************************************************)
(* A manual env line is never lost in silence, for any brands, keys, runs, *)
(* edits and kills: by the step the program is at, the line is in the text *)
(* the next render merges from, in the text being written, or in the note  *)
(* to come.                                                                *)
(***************************************************************************)
THEOREM NoSilentLossHolds == FilesSpec => []NoSilentLoss
  <1>1. FilesInv => NoSilentLoss
    <2>1. SUFFICES ASSUME FilesInv, ~torn PROVE NoSilentLoss
      BY DEF NoSilentLoss
    <2>2. CASE InOld
      BY <2>2 DEF InOld, NoSilentLoss, OldText
    <2>3. CASE Running /\ InNew
      BY <2>3 DEF InNew, NoSilentLoss
    <2> QED  BY <2>1, <2>2, <2>3 DEF FilesInv, LinesKept, Running, Writing
  <1> QED  BY <1>1, FilesInitially, FilesStep, PTL DEF FilesSpec

(***************************************************************************)
(* An init that ran to its end leaves neither file to migrate: the guards  *)
(* and the renderer agree for every brand, binary name and weaknet binary, *)
(* and the Caddyfile and the oxfile agree on the weaknet unit.             *)
(***************************************************************************)
THEOREM InitConvergesHolds == FilesSpec => []InitConverges
  <1>1. FilesInv => InitConverges
    BY DEF FilesInv, Migrated, InitConverges, AtPc, Running, OxSettled, CaddySettled
  <1> QED  BY <1>1, FilesInitially, FilesStep, PTL DEF FilesSpec

\* The types of the files' model.
THEOREM FilesTypesHold == FilesSpec => []FilesTypeOK
  <1>1. FilesInv => FilesTypeOK
    BY DEF FilesInv, FileTypes, FilesTypeOK, Contents, Texts
  <1> QED  BY <1>1, FilesInitially, FilesStep, PTL DEF FilesSpec

(***************************************************************************)
(* Proofs: processes.  The world is the tables and the processes.          *)
(***************************************************************************)
Tables == [Homes -> [Apps -> EntryRecs \cup {Nothing}]]
Procs == [Pids -> ProcRecs \cup {Nothing}]

LEMMA EntryFields ==
  ASSUME table \in Tables, NEW h \in Homes, NEW a \in Apps, table[h][a] # Nothing
  PROVE  /\ table[h][a] \in EntryRecs /\ table[h][a].dir \in Dirs
         /\ table[h][a].pid \in Pids \cup {Nothing, Stale} /\ table[h][a].on \in BOOLEAN
  BY DEF Tables, EntryRecs

LEMMA ProcFields ==
  ASSUME proc \in Procs, NEW p \in Live
  PROVE  /\ p \in Pids /\ proc[p] \in ProcRecs /\ proc[p].dir \in Dirs /\ proc[p].app \in Apps
         /\ proc[p].home \in Homes \cup {Nothing} /\ proc[p].cwd \in Dirs \cup {Root}
  BY DEF Procs, ProcRecs, Live

\* Processes end, entries go or lose their pid; nothing appears.
Wanes ==
  /\ \A p \in Pids : proc'[p] # Nothing =>
       /\ proc[p] # Nothing /\ proc'[p].dir = proc[p].dir /\ proc'[p].home = proc[p].home
       /\ proc'[p].cwd = proc[p].cwd /\ proc'[p].app = proc[p].app
  /\ \A h \in Homes, a \in Apps : table'[h][a] # Nothing =>
       /\ table[h][a] # Nothing /\ table'[h][a].dir = table[h][a].dir
       /\ table'[h][a].pid \in Pids => table'[h][a].pid = table[h][a].pid

World == table \in Tables /\ proc \in Procs /\ TableIsTrue

LEMMA EndedIs ==
  ASSUME proc \in Procs, NEW K
  PROVE  /\ Ended(K) \in Procs
         /\ \A p \in Pids : Ended(K)[p] = IF p \in K THEN Nothing ELSE proc[p]
  BY DEF Ended, Procs

LEMMA SeenIs ==
  ASSUME table \in Tables, NEW K \in SUBSET Pids, NEW up
  PROVE  /\ Seen(table, K, up) \in Tables
         /\ \A h \in Homes, a \in Apps :
              \/ Seen(table, K, up)[h][a] = table[h][a]
                   /\ (table[h][a] = Nothing \/ table[h][a].pid \notin K)
              \/ /\ table[h][a] # Nothing /\ Seen(table, K, up)[h][a] \in EntryRecs
                 /\ table[h][a].pid \in K
                 /\ Seen(table, K, up)[h][a].dir = table[h][a].dir
                 /\ Seen(table, K, up)[h][a].pid \in {Nothing, Stale}
  <1>1. ASSUME NEW h \in Homes, NEW a \in Apps, NEW v \in {Nothing, Stale}, table[h][a] # Nothing
        PROVE  LET e == [table[h][a] EXCEPT !.pid = v]
               IN  e \in EntryRecs /\ e.dir = table[h][a].dir /\ e.pid = v
    BY <1>1 DEF Tables, EntryRecs
  <1>2. ASSUME NEW h \in Homes, NEW a \in Apps
        PROVE  /\ Seen(table, K, up)[h][a] \in EntryRecs \cup {Nothing}
               /\ \/ Seen(table, K, up)[h][a] = table[h][a]
                       /\ (table[h][a] = Nothing \/ table[h][a].pid \notin K)
                  \/ /\ table[h][a] # Nothing /\ Seen(table, K, up)[h][a] \in EntryRecs
                     /\ table[h][a].pid \in K
                     /\ Seen(table, K, up)[h][a].dir = table[h][a].dir
                     /\ Seen(table, K, up)[h][a].pid \in {Nothing, Stale}
    <2>1. CASE table[h][a] # Nothing /\ table[h][a].pid \in K
      <3>1. PICK v \in {Nothing, Stale} : Seen(table, K, up)[h][a] = [table[h][a] EXCEPT !.pid = v]
        BY <2>1 DEF Seen
      <3>2. [table[h][a] EXCEPT !.pid = v] \in EntryRecs
            /\ [table[h][a] EXCEPT !.pid = v].dir = table[h][a].dir /\ [table[h][a] EXCEPT !.pid = v].pid = v
        BY <1>1, <2>1
      <3> QED  BY <2>1, <3>1, <3>2
    <2>2. CASE table[h][a] = Nothing \/ table[h][a].pid \notin K
      <3>1. Seen(table, K, up)[h][a] = table[h][a]
        BY <2>2 DEF Seen
      <3> QED  BY <2>2, <3>1 DEF Tables
    <2> QED  BY <2>1, <2>2
  <1>3. Seen(table, K, up) \in Tables
    <2>1. Seen(table, K, up) = [h \in Homes |-> [a \in Apps |-> Seen(table, K, up)[h][a]]]
      BY DEF Seen
    <2> QED  BY <1>2, <2>1 DEF Tables
  <1> QED  BY <1>2, <1>3

LEMMA FewerTrue ==
  ASSUME TableIsTrue, NEW K, \A p \in Pids : proc'[p] = IF p \in K THEN Nothing ELSE proc[p]
  PROVE  \A p \in Live' : /\ proc'[p].cwd \in {proc'[p].dir, Root}
                          /\ proc'[p].home \in Dirs => proc'[p].dir = proc'[p].home
  <1>1. ASSUME NEW p \in Live'
        PROVE  p \in Live /\ proc'[p] = proc[p]
    BY <1>1 DEF Live
  <1> QED  BY <1>1 DEF TableIsTrue

\* The end of K, noticed in the tables.
LEMMA SeenTrue ==
  ASSUME World, NEW K \in SUBSET Pids, NEW up, proc' = Ended(K), table' = Seen(table, K, up)
  PROVE  World' /\ Wanes /\ Live' = Live \ K
  <1>1. proc' \in Procs /\ \A p \in Pids : proc'[p] = IF p \in K THEN Nothing ELSE proc[p]
    BY EndedIs DEF World
  <1>2. /\ table' \in Tables
        /\ \A h \in Homes, a \in Apps :
              \/ table'[h][a] = table[h][a] /\ (table[h][a] = Nothing \/ table[h][a].pid \notin K)
              \/ /\ table[h][a] # Nothing /\ table'[h][a] \in EntryRecs
                 /\ table'[h][a].dir = table[h][a].dir
                 /\ table'[h][a].pid \in {Nothing, Stale}
    BY SeenIs DEF World
  <1>3. Wanes
    <2>1. Nothing \notin Pids /\ Stale \notin Pids
      BY LifeAssumption
    <2> QED  BY <1>1, <1>2, <2>1 DEF Wanes
  <1>4. Live' = Live \ K
    BY <1>1 DEF Live
  <1>5. TableIsTrue'
    <2>1. ASSUME NEW h \in Homes, NEW a \in Apps, table'[h][a] # Nothing
          PROVE  /\ table'[h][a].pid \in Pids =>
                      LET q == proc'[table'[h][a].pid]
                      IN  q # Nothing /\ q.home = h /\ q.app = a /\ q.dir = table'[h][a].dir
                 /\ h \in Dirs => table'[h][a].dir = h
      <3>1. table[h][a] # Nothing /\ table'[h][a].dir = table[h][a].dir
        BY <1>2, <2>1
      <3>2. /\ table[h][a].pid \in Pids =>
                 LET q == proc[table[h][a].pid]
                 IN  q # Nothing /\ q.home = h /\ q.app = a /\ q.dir = table[h][a].dir
            /\ h \in Dirs => table[h][a].dir = h
        BY <3>1 DEF World, TableIsTrue, Entries
      <3> QED  BY <1>1, <1>2, <3>1, <3>2, LifeAssumption
    <2>2. \A p \in Live' : /\ proc'[p].cwd \in {proc'[p].dir, Root}
                           /\ proc'[p].home \in Dirs => proc'[p].dir = proc'[p].home
      BY <1>1, FewerTrue DEF World
    <2> QED  BY <2>1, <2>2 DEF TableIsTrue, Entries
  <1> QED  BY <1>1, <1>2, <1>3, <1>4, <1>5 DEF World

\* One entry is closed: its process ends, it goes or loses its pid.
LEMMA CloseTrue ==
  ASSUME World, NEW h \in Homes, NEW a \in Apps, NEW e \in EntryRecs \cup {Nothing},
         NEW K, \A p \in K : table[h][a] # Nothing /\ p = table[h][a].pid,
         e # Nothing => table[h][a] # Nothing /\ e.dir = table[h][a].dir /\ e.pid = Nothing,
         proc' = Ended(K), table' \in Tables, table'[h][a] = e,
         \A k \in Homes, b \in Apps : (k # h \/ b # a) => table'[k][b] = table[k][b]
  PROVE  World' /\ Wanes /\ Live' = Live \ K
  <1>1. proc' \in Procs /\ \A p \in Pids : proc'[p] = IF p \in K THEN Nothing ELSE proc[p]
    BY EndedIs DEF World
  <1>2. /\ table' \in Tables /\ table'[h][a] = e
        /\ \A k \in Homes, b \in Apps : (k # h \/ b # a) => table'[k][b] = table[k][b]
    OBVIOUS
  <1>3. Wanes
    <2>1. Nothing \notin Pids /\ Stale \notin Pids
      BY LifeAssumption
    <2> QED  BY <1>1, <1>2, <2>1 DEF Wanes
  <1>4. Live' = Live \ K
    BY <1>1 DEF Live
  <1>5. TableIsTrue'
    <2>1. ASSUME NEW k \in Homes, NEW b \in Apps, table'[k][b] # Nothing
          PROVE  /\ table'[k][b].pid \in Pids =>
                      LET q == proc'[table'[k][b].pid]
                      IN  q # Nothing /\ q.home = k /\ q.app = b /\ q.dir = table'[k][b].dir
                 /\ k \in Dirs => table'[k][b].dir = k
      <3>1. table[k][b] # Nothing /\ table'[k][b].dir = table[k][b].dir
        BY <1>2, <2>1
      <3>2. /\ table[k][b].pid \in Pids =>
                 LET q == proc[table[k][b].pid]
                 IN  q # Nothing /\ q.home = k /\ q.app = b /\ q.dir = table[k][b].dir
            /\ k \in Dirs => table[k][b].dir = k
        BY <3>1 DEF World, TableIsTrue, Entries
      <3>3. CASE k = h /\ b = a
        BY <1>2, <2>1, <3>1, <3>2, <3>3, LifeAssumption
      <3>4. CASE k # h \/ b # a
        <4>1. table'[k][b] = table[k][b]
          BY <1>2, <3>4
        <4>2. ASSUME table[k][b].pid \in Pids PROVE table[k][b].pid \notin K
          <5>1. SUFFICES ASSUME table[h][a] # Nothing, table[h][a].pid = table[k][b].pid PROVE FALSE
            BY <4>2
          <5>2. LET q == proc[table[h][a].pid] IN q.home = h /\ q.app = a
            BY <4>2, <5>1 DEF World, TableIsTrue, Entries
          <5> QED  BY <3>2, <3>4, <4>2, <5>1, <5>2
        <4> QED  BY <1>1, <3>2, <4>1, <4>2
      <3> QED  BY <3>3, <3>4
    <2>2. \A p \in Live' : /\ proc'[p].cwd \in {proc'[p].dir, Root}
                           /\ proc'[p].home \in Dirs => proc'[p].dir = proc'[p].home
      BY <1>1, FewerTrue DEF World
    <2> QED  BY <2>1, <2>2 DEF TableIsTrue, Entries
  <1> QED  BY <1>1, <1>2, <1>3, <1>4, <1>5 DEF World

\* A fresh pid takes a process of directory d, of home h.
Arrives(p, d, h) ==
  /\ p \in Fresh /\ proc'[p] # Nothing /\ proc'[p].dir = d /\ proc'[p].home = h
  /\ \A q \in Pids \ {p} : proc'[q] = proc[q]

LEMMA LaunchIs ==
  ASSUME NEW a \in Apps, NEW d \in Dirs, NEW cwd \in Dirs \cup {Root}, NEW h \in Homes \cup {Nothing}
  PROVE  /\ Launch(a, d, cwd, h) \in ProcRecs /\ Launch(a, d, cwd, h) # Nothing
         /\ Launch(a, d, cwd, h).app = a /\ Launch(a, d, cwd, h).dir = d
         /\ Launch(a, d, cwd, h).cwd = cwd /\ Launch(a, d, cwd, h).home = h
  <1>1. Launch(a, d, cwd, h) \in ProcRecs
    BY DEF Launch, ProcRecs
  <1> QED  BY <1>1, LifeAssumption DEF Launch

LEMMA FreshIs ==
  ASSUME NEW p \in Fresh
  PROVE  p \in Pids /\ p \notin Live /\ proc[p] = Nothing /\ p \notin spared /\ (Busy => p \notin cli.held)
  BY DEF Fresh, Live

\* The daemon of h revives the process of an entry.
LEMMA ReviveDoes ==
  ASSUME World, NEW h \in Homes, NEW a \in Apps, Revive(h, a)
  PROVE  /\ World'
         /\ a \in Entries(h)
         /\ h \in Dirs => table[h][a].dir = h
         /\ \E p \in Pids :
              /\ Arrives(p, table[h][a].dir, h)
              /\ \A k \in Homes, b \in Apps :
                   /\ table'[k][b] # Nothing <=> table[k][b] # Nothing
                   /\ table'[k][b] # Nothing => table'[k][b].dir = table[k][b].dir
                   /\ table'[k][b] # Nothing => table'[k][b].pid \in {table[k][b].pid, p}
  <1>1. table \in Tables /\ proc \in Procs /\ TableIsTrue
    BY DEF World
  <1>2. a \in Entries(h) /\ table[h][a] # Nothing
    BY DEF Revive, Entries
  <1>3. PICK p \in Fresh :
          /\ proc' = [proc EXCEPT ![p] = Launch(a, table[h][a].dir, table[h][a].dir, h)]
          /\ table' = [table EXCEPT ![h][a].pid = p]
    BY DEF Revive
  <1>4. table[h][a] \in EntryRecs /\ table[h][a].dir \in Dirs /\ table[h][a].pid \in Pids \cup {Nothing, Stale}
    BY <1>1, <1>2, EntryFields
  <1>5. PICK d \in Dirs : d = table[h][a].dir
    BY <1>4
  <1>6. PICK new \in ProcRecs :
          /\ new = Launch(a, d, d, h) /\ new # Nothing /\ new.app = a /\ new.dir = d
          /\ new.cwd = d /\ new.home = h
    BY <1>5, LaunchIs
  <1>7. p \in Pids /\ p \notin Live /\ proc[p] = Nothing
    BY FreshIs
  <1>8. /\ proc' \in Procs /\ proc'[p] = new
        /\ \A q \in Pids \ {p} : proc'[q] = proc[q]
    BY <1>1, <1>3, <1>5, <1>6, <1>7 DEF Procs
  <1>9. PICK e \in EntryRecs : e = [table[h][a] EXCEPT !.pid = p] /\ e.dir = d /\ e.pid = p
    <2>1. LET r == [table[h][a] EXCEPT !.pid = p]
          IN  r \in EntryRecs /\ r.dir = table[h][a].dir /\ r.pid = p
      BY <1>4, <1>7 DEF EntryRecs
    <2> QED  BY <1>5, <2>1
  <1>10. table' = [table EXCEPT ![h][a] = e]
    BY <1>1, <1>3, <1>9 DEF Tables
  <1>11. /\ table' \in Tables /\ table'[h][a] = e /\ e # Nothing
         /\ \A k \in Homes, b \in Apps : (k # h \/ b # a) => table'[k][b] = table[k][b]
    <2>1. e # Nothing
      BY LifeAssumption
    <2> QED  BY <1>1, <1>10, <2>1 DEF Tables
  <1>12. \A k \in Homes, b \in Apps :
           /\ table'[k][b] # Nothing <=> table[k][b] # Nothing
           /\ table'[k][b] # Nothing => table'[k][b].dir = table[k][b].dir
           /\ table'[k][b] # Nothing => table'[k][b].pid \in {table[k][b].pid, p}
    BY <1>2, <1>5, <1>9, <1>11
  <1>13. h \in Dirs => d = h
    BY <1>1, <1>2, <1>5 DEF TableIsTrue
  <1>14. TableIsTrue'
    <2>1. ASSUME NEW k \in Homes, NEW b \in Apps, table'[k][b] # Nothing
          PROVE  /\ table'[k][b].pid \in Pids =>
                      LET q == proc'[table'[k][b].pid]
                      IN  q # Nothing /\ q.home = k /\ q.app = b /\ q.dir = table'[k][b].dir
                 /\ k \in Dirs => table'[k][b].dir = k
      <3>1. CASE k = h /\ b = a
        <4>1. table'[k][b] = e /\ e.pid = p /\ e.dir = d /\ proc'[p] = new
          BY <1>8, <1>9, <1>11, <3>1
        <4>2. proc'[table'[k][b].pid] = new /\ table'[k][b].dir = d
          BY <4>1
        <4>3. new # Nothing /\ new.home = k /\ new.app = b /\ new.dir = d /\ (k \in Dirs => d = k)
          BY <1>6, <1>13, <3>1
        <4> QED  BY <4>2, <4>3
      <3>2. CASE k # h \/ b # a
        <4>1. table'[k][b] = table[k][b] /\ table[k][b] # Nothing
          BY <1>11, <2>1, <3>2
        <4>2. /\ table[k][b].pid \in Pids =>
                   LET q == proc[table[k][b].pid]
                   IN  q # Nothing /\ q.home = k /\ q.app = b /\ q.dir = table[k][b].dir
              /\ k \in Dirs => table[k][b].dir = k
          BY <1>1, <4>1 DEF TableIsTrue, Entries
        <4> QED  BY <1>7, <1>8, <4>1, <4>2
      <3> QED  BY <3>1, <3>2
    <2>2. ASSUME NEW q \in Live'
          PROVE  /\ proc'[q].cwd \in {proc'[q].dir, Root}
                 /\ proc'[q].home \in Dirs => proc'[q].dir = proc'[q].home
      <3>1. CASE q = p
        BY <1>6, <1>8, <1>13, <3>1
      <3>2. CASE q # p
        <4>1. q \in Live /\ proc'[q] = proc[q]
          BY <1>8, <2>2, <3>2 DEF Live
        <4> QED  BY <1>1, <4>1 DEF TableIsTrue
      <3> QED  BY <3>1, <3>2
    <2> QED  BY <2>1, <2>2 DEF TableIsTrue, Entries
  <1>15. Arrives(p, d, h)
    BY <1>6, <1>8 DEF Arrives
  <1> QED  BY <1>2, <1>5, <1>7, <1>8, <1>11, <1>12, <1>13, <1>14, <1>15 DEF World

\* A process started by hand has no home.
LEMMA HandDoes ==
  ASSUME World, NEW a \in Apps, NEW d \in Dirs, NEW cwd \in {d, Root}, NEW p \in Fresh,
         proc' = [proc EXCEPT ![p] = Launch(a, d, cwd, Nothing)], table' = table
  PROVE  World' /\ Arrives(p, d, Nothing)
  <1>1. table \in Tables /\ proc \in Procs /\ TableIsTrue
    BY DEF World
  <1>2. PICK new \in ProcRecs :
          /\ new = Launch(a, d, cwd, Nothing) /\ new # Nothing /\ new.dir = d
          /\ new.cwd = cwd /\ new.home = Nothing
    BY LaunchIs
  <1>3. p \in Pids /\ p \notin Live /\ proc[p] = Nothing
    BY FreshIs
  <1>4. /\ proc' \in Procs /\ proc'[p] = new
        /\ \A q \in Pids \ {p} : proc'[q] = proc[q]
    BY <1>1, <1>2, <1>3 DEF Procs
  <1>5. TableIsTrue'
    <2>1. ASSUME NEW k \in Homes, NEW b \in Apps, table[k][b] # Nothing
          PROVE  /\ table[k][b].pid \in Pids =>
                      LET q == proc'[table[k][b].pid]
                      IN  q # Nothing /\ q.home = k /\ q.app = b /\ q.dir = table[k][b].dir
                 /\ k \in Dirs => table[k][b].dir = k
      <3>1. /\ table[k][b].pid \in Pids =>
                 LET q == proc[table[k][b].pid]
                 IN  q # Nothing /\ q.home = k /\ q.app = b /\ q.dir = table[k][b].dir
            /\ k \in Dirs => table[k][b].dir = k
        BY <1>1, <2>1 DEF TableIsTrue, Entries
      <3> QED  BY <1>3, <1>4, <3>1
    <2>2. ASSUME NEW q \in Live'
          PROVE  /\ proc'[q].cwd \in {proc'[q].dir, Root}
                 /\ proc'[q].home \in Dirs => proc'[q].dir = proc'[q].home
      <3>1. CASE q = p
        BY <1>2, <1>4, <3>1, LifeAssumption
      <3>2. CASE q # p
        <4>1. q \in Live /\ proc'[q] = proc[q]
          BY <1>4, <2>2, <3>2 DEF Live
        <4> QED  BY <1>1, <4>1 DEF TableIsTrue
      <3> QED  BY <3>1, <3>2
    <2> QED  BY <2>1, <2>2 DEF TableIsTrue, Entries
  <1> QED  BY <1>1, <1>2, <1>4, <1>5 DEF World, Arrives

LEMMA BindDoes ==
  ASSUME World, NEW p \in Pids, BindPort(p)
  PROVE  World' /\ Wanes
  <1>1. table \in Tables /\ proc \in Procs /\ TableIsTrue
    BY DEF World
  <1>2. p \in Live /\ proc' = [proc EXCEPT ![p].listen = TRUE] /\ table' = table
    BY DEF BindPort
  <1>3. proc[p] \in ProcRecs /\ proc[p] # Nothing
    BY <1>1, <1>2, ProcFields DEF Live
  <1>4. PICK new \in ProcRecs :
          /\ new = [proc[p] EXCEPT !.listen = TRUE] /\ new.dir = proc[p].dir /\ new.app = proc[p].app
          /\ new.cwd = proc[p].cwd /\ new.home = proc[p].home
    <2>1. LET r == [proc[p] EXCEPT !.listen = TRUE]
          IN  /\ r \in ProcRecs /\ r.dir = proc[p].dir /\ r.app = proc[p].app
              /\ r.cwd = proc[p].cwd /\ r.home = proc[p].home
      BY <1>3 DEF ProcRecs
    <2> QED  BY <2>1
  <1>5. /\ proc' \in Procs /\ proc'[p] = new /\ new # Nothing
        /\ \A q \in Pids \ {p} : proc'[q] = proc[q]
    <2>1. new # Nothing
      BY LifeAssumption
    <2>2. proc' = [proc EXCEPT ![p] = new]
      BY <1>1, <1>2, <1>4 DEF Procs
    <2> QED  BY <1>1, <2>1, <2>2 DEF Procs
  <1>6. \A q \in Pids : /\ proc'[q] # Nothing <=> proc[q] # Nothing
                        /\ proc'[q].dir = proc[q].dir /\ proc'[q].app = proc[q].app
                        /\ proc'[q].cwd = proc[q].cwd /\ proc'[q].home = proc[q].home
    BY <1>3, <1>4, <1>5
  <1>7. Wanes
    BY <1>2, <1>6 DEF Wanes
  <1>8. TableIsTrue'
    <2>1. Live' = Live /\ \A h : Entries(h)' = Entries(h)
      BY <1>2, <1>6 DEF Live, Entries
    <2> QED  BY <1>1, <1>2, <1>6, <2>1 DEF TableIsTrue, Live
  <1> QED  BY <1>1, <1>2, <1>5, <1>7, <1>8 DEF World

\* What apply makes of the entry of one app.
Applies(d, web, a) ==
  IF a = "web" /\ ~web
  THEN IF table[d][a] = Nothing THEN Nothing
       ELSE [table[d][a] EXCEPT !.on = FALSE, !.pid = Nothing]
  ELSE IF table[d][a] = Nothing THEN EntryOf(d)
       ELSE [table[d][a] EXCEPT !.on = TRUE]

LEMMA AppliesIs ==
  ASSUME World, NEW d \in Dirs, NEW web \in BOOLEAN, NEW a \in Apps
  PROVE  /\ Applies(d, web, a) \in EntryRecs \cup {Nothing}
         /\ Applies(d, web, a) # Nothing =>
              /\ Applies(d, web, a).dir = d
              /\ Applies(d, web, a).pid \in Pids =>
                   /\ table[d][a] # Nothing /\ Applies(d, web, a).pid = table[d][a].pid
                   /\ a # "web" \/ web
  <1>1. d \in Homes /\ table \in Tables
    BY DEF World, Homes
  <1>2. CASE table[d][a] = Nothing
    <2>1. Applies(d, web, a) \in {Nothing, EntryOf(d)}
      BY <1>2 DEF Applies
    <2>2. EntryOf(d) \in EntryRecs /\ EntryOf(d).dir = d /\ EntryOf(d).pid = Nothing
      BY DEF EntryOf, EntryRecs
    <2> QED  BY <2>1, <2>2, LifeAssumption
  <1>3. CASE table[d][a] # Nothing
    <2>1. table[d][a] \in EntryRecs /\ table[d][a].dir = d
      BY <1>1, <1>3, EntryFields DEF World, TableIsTrue, Entries
    <2>2. LET r == [table[d][a] EXCEPT !.on = FALSE, !.pid = Nothing]
          IN  r \in EntryRecs /\ r.dir = table[d][a].dir /\ r.pid = Nothing
      BY <2>1 DEF EntryRecs
    <2>3. LET r == [table[d][a] EXCEPT !.on = TRUE]
          IN  r \in EntryRecs /\ r.dir = table[d][a].dir /\ r.pid = table[d][a].pid
      BY <2>1 DEF EntryRecs
    <2>4. CASE a = "web" /\ ~web
      <3>1. Applies(d, web, a) = [table[d][a] EXCEPT !.on = FALSE, !.pid = Nothing]
        BY <1>3, <2>4 DEF Applies
      <3> QED  BY <2>1, <2>2, <3>1, LifeAssumption
    <2>5. CASE ~(a = "web" /\ ~web)
      <3>1. Applies(d, web, a) = [table[d][a] EXCEPT !.on = TRUE]
        BY <1>3, <2>5 DEF Applies
      <3> QED  BY <1>3, <2>1, <2>3, <2>5, <3>1
    <2> QED  BY <2>4, <2>5
  <1> QED  BY <1>2, <1>3

LEMMA ApplyDoes ==
  ASSUME World, NEW d \in Dirs, NEW web \in BOOLEAN, NEW K,
         \A p \in K : ~web /\ table[d]["web"] # Nothing /\ p = table[d]["web"].pid /\ p \in Live,
         table' \in Tables, \A k \in Homes \ {d} : table'[k] = table[k],
         \A b \in Apps : table'[d][b] = Applies(d, web, b), proc' = Ended(K)
  PROVE  /\ World' /\ Live' = Live \ K
         /\ \A p \in Live' : proc'[p] = proc[p]
         /\ \A p \in K : proc[p].dir = d
  <1>1. d \in Homes /\ table \in Tables /\ proc \in Procs /\ TableIsTrue
    BY DEF World, Homes
  <1>2. proc' \in Procs /\ \A p \in Pids : proc'[p] = IF p \in K THEN Nothing ELSE proc[p]
    BY <1>1, EndedIs
  <1>3. /\ \A k \in Homes \ {d} : table'[k] = table[k]
        /\ \A b \in Apps : table'[d][b] = Applies(d, web, b)
    OBVIOUS
  <1>4. table' \in Tables
    OBVIOUS
  <1>5. Live' = Live \ K /\ \A p \in Live' : proc'[p] = proc[p]
    BY <1>2 DEF Live
  <1>6. ASSUME NEW p \in K
        PROVE  ~web /\ proc[p].home = d /\ proc[p].app = "web" /\ proc[p].dir = d
    <2>1. ~web /\ table[d]["web"] # Nothing /\ p = table[d]["web"].pid /\ p \in Pids
      BY <1>6 DEF Live
    <2>2. "web" \in Entries(d)
      BY <2>1, LifeAssumption DEF Entries
    <2> QED  BY <1>1, <2>1, <2>2 DEF TableIsTrue
  <1>7. TableIsTrue'
    <2>1. ASSUME NEW k \in Homes, NEW b \in Apps, table'[k][b] # Nothing
          PROVE  /\ table'[k][b].pid \in Pids =>
                      LET q == proc'[table'[k][b].pid]
                      IN  q # Nothing /\ q.home = k /\ q.app = b /\ q.dir = table'[k][b].dir
                 /\ k \in Dirs => table'[k][b].dir = k
      <3>1. table[k][b] # Nothing =>
              /\ table[k][b].pid \in Pids =>
                   LET q == proc[table[k][b].pid]
                   IN  q # Nothing /\ q.home = k /\ q.app = b /\ q.dir = table[k][b].dir
              /\ k \in Dirs => table[k][b].dir = k
        BY <1>1 DEF TableIsTrue, Entries
      <3>2. CASE k # d
        <4>1. table'[k][b] = table[k][b]
          BY <1>3, <3>2
        <4>2. table[k][b].pid \in Pids => table[k][b].pid \notin K
          BY <1>6, <2>1, <3>1, <3>2, <4>1
        <4> QED  BY <1>2, <2>1, <3>1, <4>1, <4>2
      <3>3. CASE k = d
        <4>1. /\ table'[k][b].dir = d
              /\ table'[k][b].pid \in Pids => /\ table[k][b] # Nothing /\ table'[k][b].pid = table[k][b].pid
                                              /\ b # "web" \/ web
          BY <1>3, <2>1, <3>3, AppliesIs
        <4>2. table'[k][b].pid \in Pids => table[k][b].pid \notin K
          BY <1>6, <3>1, <3>3, <4>1
        <4>3. table'[k][b].pid \in Pids => table[k][b].dir = d
          BY <3>1, <3>3, <4>1
        <4> QED  BY <1>2, <3>1, <3>3, <4>1, <4>2, <4>3
      <3> QED  BY <3>2, <3>3
    <2>2. \A p \in Live' : /\ proc'[p].cwd \in {proc'[p].dir, Root}
                           /\ proc'[p].home \in Dirs => proc'[p].dir = proc'[p].home
      BY <1>1, <1>2, FewerTrue
    <2> QED  BY <2>1, <2>2 DEF TableIsTrue, Entries
  <1> QED  BY <1>2, <1>3, <1>4, <1>5, <1>6, <1>7 DEF World

(***************************************************************************)
(* The layers of the invariant and what each kind of step does to them     *)
(***************************************************************************)
LifeInv == /\ LifeTypes /\ Course /\ TableIsTrue /\ PlanKnowsHome /\ PlanIsOurs
           /\ StopProgress /\ QuietStays
CliPcs == {"start", "apply", "list", "names", "sweep", "gscan", "steps", "gfinal",
           "daemon", "verify", "poll"}

LEMMA InvWorld == LifeInv => World
  BY DEF LifeInv, LifeTypes, World, Tables, Procs

LEMMA CliIs ==
  ASSUME LifeInv
  PROVE  /\ Busy => cli \in Commands
         /\ \A x \in CliPcs : At(x) => Busy /\ cli \in Commands
         /\ cli \in Commands => Busy
  BY DEF LifeInv, LifeTypes, Busy, Idle, Commands, At, CliPcs

LEMMA IdleIs ==
  cli' = Idle => /\ ~Busy' /\ cli' \in Commands \cup {Idle} /\ Course' /\ PlanKnowsHome' /\ PlanIsOurs'
                 /\ StopProgress'
  <1>1. cli' = Idle => ~Busy'
    BY DEF Busy, Idle
  <1> QED  BY <1>1 DEF Course, PlanKnowsHome, PlanIsOurs, StopProgress

\* What waning does to the sets of processes and entries.
LEMMA WanesSets ==
  ASSUME World, World', Wanes
  PROVE  /\ Live' \subseteq Live
         /\ \A p \in Live' : proc'[p].dir = proc[p].dir /\ proc'[p].home = proc[p].home
         /\ \A d : Ours(d)' \subseteq Ours(d)
         /\ \A h \in Homes : Entries(h)' \subseteq Entries(h)
  <1>1. Live' \subseteq Live /\ \A p \in Live' : proc'[p].dir = proc[p].dir /\ proc'[p].home = proc[p].home
    BY DEF Wanes, Live
  <1>2. \A h \in Homes : Entries(h)' \subseteq Entries(h)
    BY DEF Wanes, Entries
  <1> QED  BY <1>1, <1>2 DEF Ours

LEMMA WanesAccounted ==
  ASSUME World, World', Wanes, spared \subseteq spared', NEW d, NEW P, Accounted(d, P)
  PROVE  Accounted(d, P)'
  <1>1. /\ Ours(d)' \subseteq Ours(d) /\ Ours(d)' \subseteq Live'
        /\ \A p \in Live' : proc'[p].home = proc[p].home
    BY WanesSets DEF Ours
  <1> QED  BY <1>1 DEF Accounted

\* An instance that is quiet stays so.
LEMMA WanesQuiet ==
  ASSUME LifeInv, World', Wanes, quiet' \ blind' \subseteq quiet \ blind,
         spared \subseteq spared' \/ Live' = {}
  PROVE  (\A d \in quiet \ blind : Entries(d) = {} /\ Accounted(d, {}))'
  <1>1. World
    BY InvWorld
  <1>2. ASSUME NEW d \in quiet' \ blind'
        PROVE  Entries(d)' = {} /\ Accounted(d, {})'
    <2>1. d \in Homes /\ Entries(d) = {} /\ Accounted(d, {})
      BY <1>2 DEF LifeInv, LifeTypes, QuietStays, Homes
    <2>2. Entries(d)' = {}
      BY <1>1, <2>1, WanesSets
    <2>3. CASE spared \subseteq spared'
      BY <1>1, <2>1, <2>2, <2>3, WanesAccounted
    <2>4. CASE Live' = {}
      BY <2>2, <2>4 DEF Accounted, Ours
    <2> QED  BY <2>3, <2>4
  <1> QED  BY <1>2

\* The plan, as the world wanes and steps are taken off it.
LEMMA WanesPlan ==
  ASSUME LifeInv, World', Wanes, cli \in Commands, cli' \in Commands,
         cli'.plan \subseteq cli.plan, cli.held \subseteq cli'.held,
         cli'.held \subseteq cli.held \cup Ours(cli.on),
         cli'.on = cli.on, cli'.cmd = cli.cmd
  PROVE  PlanKnowsHome' /\ PlanIsOurs'
  <1>1. World /\ Busy
    BY InvWorld, CliIs
  <1>2. PlanKnowsHome'
    <2>1. ASSUME NEW s \in cli'.plan
          PROVE  /\ s.pid \in cli'.held
                 /\ \A h \in Homes : \A a \in Entries(h)' : table'[h][a].pid = s.pid => h = s.via
      <3>1. s \in cli.plan /\ s.pid \in cli.held /\ s.pid \in Pids
        BY <1>1, <2>1 DEF LifeInv, PlanKnowsHome, Commands
      <3>2. ASSUME NEW h \in Homes, NEW a \in Entries(h)', table'[h][a].pid = s.pid
            PROVE  h = s.via
        <4>1. a \in Entries(h) /\ table[h][a].pid = s.pid
          BY <3>1, <3>2 DEF Wanes, Entries
        <4> QED  BY <1>1, <3>1, <4>1 DEF LifeInv, PlanKnowsHome
      <3> QED  BY <3>1, <3>2
    <2> QED  BY <2>1 DEF PlanKnowsHome
  <1>3. ASSUME cli.cmd \in Own
        PROVE  /\ \A p \in cli'.held \cap Live' : proc'[p].dir = cli.on
               /\ \A s \in cli'.plan : (s.via # Nothing /\ ~s.above /\ table'[s.via][s.app] # Nothing)
                              => table'[s.via][s.app].dir = cli.on
    <2>1. \A p \in cli.held \cap Live : proc[p].dir = cli.on
      BY <1>1, <1>3 DEF LifeInv, PlanIsOurs
    <2>2. \A p \in Live' : p \in Live /\ proc'[p].dir = proc[p].dir
      BY <1>1, WanesSets
    <2>3. \A p \in cli'.held \cap Live' : proc'[p].dir = cli.on
      BY <2>1, <2>2 DEF Ours
    <2>4. ASSUME NEW s \in cli'.plan, s.via # Nothing, ~s.above, table'[s.via][s.app] # Nothing
          PROVE  table'[s.via][s.app].dir = cli.on
      <3>1. s \in cli.plan /\ s.via \in Homes /\ s.app \in Apps
        BY <2>4 DEF Commands, StepRecs
      <3>2. table[s.via][s.app] # Nothing /\ table'[s.via][s.app].dir = table[s.via][s.app].dir
        BY <2>4, <3>1 DEF Wanes
      <3> QED  BY <1>1, <1>3, <2>4, <3>1, <3>2 DEF LifeInv, PlanIsOurs
    <2> QED  BY <2>3, <2>4
  <1>4. PlanIsOurs'
    BY <1>3 DEF PlanIsOurs
  <1> QED  BY <1>2, <1>4

\* What the daemons, the kernel and the operator's shell do leaves the command alone.
Elsewhere == cli' = cli /\ quiet' = quiet /\ blind' = blind /\ daemon' \subseteq Homes

LEMMA WanesElsewhere ==
  ASSUME LifeInv, World', Wanes, Elsewhere,
         \A h \in Homes : Entries(h)' = Entries(h),
         spared' = spared \/ (~Busy /\ Live' = {} /\ spared' = {})
  PROVE  LifeInv'
  <1>1. World
    BY InvWorld
  <1>2. LifeTypes'
    BY DEF LifeInv, LifeTypes, World, Tables, Procs, Elsewhere
  <1>3. QuietStays'
    <2>1. (\A d \in quiet \ blind : Entries(d) = {} /\ Accounted(d, {}))'
      BY WanesQuiet DEF Elsewhere
    <2>2. (Busy /\ cli.cmd \in {"start", "restart", "takeover"})' => cli'.dir \notin quiet'
      BY DEF LifeInv, QuietStays, Elsewhere, Busy
    <2> QED  BY <2>1, <2>2 DEF QuietStays
  <1>4. CASE ~Busy
    BY <1>2, <1>3, <1>4 DEF LifeInv, World, Elsewhere, Busy, Course, PlanKnowsHome, PlanIsOurs, StopProgress
  <1>5. CASE Busy
    <2>1. cli \in Commands /\ cli' \in Commands /\ Busy' /\ spared' = spared
      BY <1>5, CliIs DEF Elsewhere, Busy
    <2>2. PlanKnowsHome' /\ PlanIsOurs'
      BY <2>1, WanesPlan DEF Elsewhere
    <2>3. Course'
      BY <1>5, <2>1 DEF LifeInv, Course, Elsewhere, Homes
    <2>4. StopProgress'
      <3>1. SUFFICES ASSUME cli.cmd = "stop", ~cli.failed, cli.on \notin blind \cup cli.meddled
                     PROVE  StopProgress'
        BY DEF StopProgress, Elsewhere
      <3>2. cli.on \in Homes /\ cli.on \in Dirs
        BY <1>5, <3>1 DEF LifeInv, Course, Homes
      <3>3. PICK P : P = {s.pid : s \in cli.plan}
        OBVIOUS
      <3>4. /\ Accounted(cli.on, P) => Accounted(cli.on, P)'
            /\ Accounted(cli.on, {}) => Accounted(cli.on, {})'
        BY <1>1, <2>1, WanesAccounted DEF Elsewhere
      <3>5. Entries(cli.on)' = Entries(cli.on)
        BY <3>2 DEF Elsewhere
      <3>6. /\ cli.pc = "names" => Entries(cli.on) \subseteq cli.todo
            /\ cli.pc \in {"sweep", "steps", "daemon", "verify", "poll"} => Entries(cli.on) = {}
            /\ cli.pc = "steps" => Accounted(cli.on, P)
            /\ cli.pc \in {"daemon", "verify", "poll"} => Accounted(cli.on, {})
        BY <1>5, <3>1, <3>3 DEF LifeInv, StopProgress
      <3> QED  BY <3>3, <3>4, <3>5, <3>6 DEF StopProgress, Elsewhere
    <2> QED  BY <1>2, <1>3, <2>2, <2>3, <2>4 DEF LifeInv, World
  <1> QED  BY <1>4, <1>5

\* A process arrives.  Unless it is the default daemon's, its instance has
\* entries, or is neither quiet any more nor judged by the running stop.
LEMMA ArrivesKeeps ==
  ASSUME LifeInv, World', NEW p \in Pids, NEW d \in Dirs, NEW h, Arrives(p, d, h),
         \A k \in Homes, b \in Apps :
           /\ table'[k][b] # Nothing <=> table[k][b] # Nothing
           /\ table'[k][b] # Nothing => table'[k][b].dir = table[k][b].dir
           /\ table'[k][b] # Nothing => table'[k][b].pid \in {table[k][b].pid, p},
         daemon' = daemon, blind' = blind, spared' = spared, quiet' \subseteq quiet,
         \/ cli' = cli
         \/ /\ cli \in Commands /\ cli' \in Commands
            /\ cli'.pc = cli.pc /\ cli'.cmd = cli.cmd /\ cli'.dir = cli.dir /\ cli'.on = cli.on
            /\ cli'.todo = cli.todo /\ cli'.plan = cli.plan /\ cli'.held = cli.held
            /\ cli'.failed = cli.failed /\ cli.meddled \subseteq cli'.meddled,
         h = Default \/ Entries(d) # {} \/ (d \notin quiet' /\ (Busy => d \in cli'.meddled))
  PROVE  LifeInv'
  <1>1. World
    BY InvWorld
  <1>2. /\ p \notin Live /\ p \notin spared /\ (Busy => p \notin cli.held)
        /\ proc'[p] # Nothing /\ proc'[p].dir = d /\ proc'[p].home = h
        /\ \A q \in Pids \ {p} : proc'[q] = proc[q]
    BY FreshIs DEF Arrives
  <1>3. Live' = Live \cup {p} /\ \A q \in Live : proc'[q] = proc[q]
    BY <1>2 DEF Live
  <1>4. \A k \in Homes : Entries(k)' = Entries(k)
    BY DEF Entries
  <1>5. ASSUME NEW e \in Dirs, NEW P, Accounted(e, P), e # d \/ h = Default
        PROVE  Accounted(e, P)'
    <2>1. Ours(e)' \subseteq Ours(e) \cup (IF e = d THEN {p} ELSE {})
      BY <1>2, <1>3 DEF Ours
    <2>2. \A q \in Ours(e) : proc'[q] = proc[q]
      BY <1>3 DEF Ours
    <2> QED  BY <1>2, <1>5, <2>1, <2>2 DEF Accounted
  <1>6. cli' \in Commands \cup {Idle} /\ Busy' = Busy
    BY DEF LifeInv, LifeTypes, Busy
  <1>7. LifeTypes'
    BY <1>6 DEF LifeInv, LifeTypes, World, Tables, Procs
  <1>8. QuietStays'
    <2>1. ASSUME NEW e \in quiet' \ blind'
          PROVE  Entries(e)' = {} /\ Accounted(e, {})'
      <3>1. e \in Dirs /\ e \in Homes /\ Entries(e) = {} /\ Accounted(e, {})
        BY <2>1 DEF LifeInv, LifeTypes, QuietStays, Homes
      <3>2. e # d \/ h = Default
        BY <2>1, <3>1
      <3> QED  BY <1>4, <1>5, <3>1, <3>2
    <2>2. (Busy /\ cli.cmd \in {"start", "restart", "takeover"})' => cli'.dir \notin quiet'
      BY <1>6 DEF LifeInv, QuietStays
    <2> QED  BY <2>1, <2>2 DEF QuietStays
  <1>9. CASE ~Busy
    <2>1. ~Busy'
      BY <1>6, <1>9
    <2> QED  BY <1>7, <1>8, <2>1 DEF LifeInv, World, Course, PlanKnowsHome, PlanIsOurs, StopProgress
  <1>10. CASE Busy
    <2>1. /\ cli \in Commands /\ cli' \in Commands /\ Busy'
          /\ cli'.pc = cli.pc /\ cli'.cmd = cli.cmd /\ cli'.dir = cli.dir /\ cli'.on = cli.on
          /\ cli'.todo = cli.todo /\ cli'.plan = cli.plan /\ cli'.held = cli.held
          /\ cli'.failed = cli.failed /\ cli.meddled \subseteq cli'.meddled
      BY <1>6, <1>10, CliIs
    <2>2. Course'
      <3>1. cli.on \in Dirs => Entries(cli.on)' = Entries(cli'.on)
        BY <1>4, <2>1 DEF Homes, Entries
      <3>2. cli.pc = "names" => cli.on \in Dirs /\ cli.todo \subseteq Entries(cli.on)
        BY <1>10 DEF LifeInv, Course
      <3>3. cli'.pc = "names" => cli'.todo \subseteq Entries(cli.on)'
        BY <1>4, <2>1, <3>2 DEF Homes, Entries
      <3> QED  BY <1>10, <2>1, <3>3 DEF LifeInv, Course
    <2>3. PlanKnowsHome'
      <3>1. ASSUME NEW s \in cli.plan
            PROVE  /\ s.pid \in cli.held
                   /\ \A k \in Homes : \A a \in Entries(k)' : table'[k][a].pid = s.pid => k = s.via
        <4>1. s.pid \in cli.held /\ s.pid # p
          BY <1>2, <1>10, <3>1 DEF LifeInv, PlanKnowsHome
        <4>2. ASSUME NEW k \in Homes, NEW a \in Entries(k)', table'[k][a].pid = s.pid
              PROVE  k = s.via
          <5>1. a \in Entries(k) /\ a \in Apps /\ table'[k][a] # Nothing
            BY <1>4, <4>2 DEF Entries
          <5>2. table[k][a].pid = s.pid
            BY <4>1, <4>2, <5>1
          <5> QED  BY <1>10, <3>1, <5>1, <5>2 DEF LifeInv, PlanKnowsHome
        <4> QED  BY <4>1, <4>2
      <3> QED  BY <2>1, <3>1 DEF PlanKnowsHome
    <2>4. PlanIsOurs'
      <3>1. ASSUME cli.cmd \in Own
            PROVE  /\ \A q \in cli.held \cap Live' : proc'[q].dir = cli.on
                   /\ \A s \in cli.plan : (s.via # Nothing /\ ~s.above /\ table'[s.via][s.app] # Nothing)
                              => table'[s.via][s.app].dir = cli.on
        <4>1. \A q \in cli.held \cap Live' : q \in Live /\ proc'[q] = proc[q]
          BY <1>2, <1>3, <1>10
        <4>2. \A s \in cli.plan : s.via # Nothing => s.via \in Homes /\ s.app \in Apps
          BY <2>1 DEF Commands, StepRecs
        <4> QED  BY <1>10, <3>1, <4>1, <4>2 DEF LifeInv, PlanIsOurs
      <3> QED  BY <2>1, <3>1 DEF PlanIsOurs
    <2>5. StopProgress'
      <3>1. SUFFICES ASSUME cli.cmd = "stop", ~cli.failed, cli.on \notin blind \cup cli'.meddled
                     PROVE  StopProgress'
        BY <2>1 DEF StopProgress
      <3>2. PICK o \in Dirs : o = cli.on
        BY <1>10, <3>1 DEF LifeInv, Course
      <3>3. PICK P : P = {s.pid : s \in cli.plan}
        OBVIOUS
      <3>4. /\ cli.pc = "names" => Entries(o) \subseteq cli.todo
            /\ cli.pc \in {"sweep", "steps", "daemon", "verify", "poll"} => Entries(o) = {}
            /\ cli.pc = "steps" => Accounted(o, P)
            /\ cli.pc \in {"daemon", "verify", "poll"} => Accounted(o, {})
        BY <1>10, <2>1, <3>1, <3>2, <3>3 DEF LifeInv, StopProgress
      <3>5. Entries(o) = {} => o # d \/ h = Default
        BY <1>10, <3>1, <3>2
      <3>6. Entries(o)' = Entries(o)
        BY <1>4 DEF Homes
      <3>7. /\ cli.pc = "steps" => Accounted(o, P)'
            /\ cli.pc \in {"daemon", "verify", "poll"} => Accounted(o, {})'
        BY <1>5, <3>4, <3>5
      <3> QED  BY <2>1, <3>2, <3>3, <3>4, <3>6, <3>7 DEF StopProgress
    <2> QED  BY <1>7, <1>8, <2>2, <2>3, <2>4, <2>5 DEF LifeInv, World
  <1> QED  BY <1>9, <1>10

LEMMA DaemonsKeep ==
  ASSUME LifeInv, NEW h \in Homes, DaemonDies(h) \/ DaemonReturns(h)
  PROVE  LifeInv'
  <1>1. /\ table' = table /\ proc' = proc /\ spared' = spared /\ Elsewhere
    BY DEF DaemonDies, DaemonReturns, Elsewhere, LifeInv, LifeTypes
  <1>2. World' /\ Wanes
    BY <1>1, InvWorld DEF World, Wanes, TableIsTrue, Live, Entries
  <1>3. \A k \in Homes : Entries(k)' = Entries(k)
    BY <1>1 DEF Entries
  <1> QED  BY <1>1, <1>2, <1>3, WanesElsewhere

LEMMA BindKeeps ==
  ASSUME LifeInv, NEW p \in Pids, BindPort(p)
  PROVE  LifeInv'
  <1>1. table' = table /\ spared' = spared /\ Elsewhere
    BY DEF BindPort, Elsewhere, LifeInv, LifeTypes
  <1>2. World' /\ Wanes
    BY InvWorld, BindDoes
  <1>3. \A k \in Homes : Entries(k)' = Entries(k)
    BY <1>1 DEF Entries
  <1> QED  BY <1>1, <1>2, <1>3, WanesElsewhere

LEMMA SeenEntries ==
  ASSUME World, NEW K \in SUBSET Pids, NEW up, table' = Seen(table, K, up)
  PROVE  \A h \in Homes : Entries(h)' = Entries(h)
  <1>1. \A h \in Homes, a \in Apps : table'[h][a] # Nothing <=> table[h][a] # Nothing
    BY SeenIs, LifeAssumption DEF World
  <1> QED  BY <1>1 DEF Entries

LEMMA DeathKeeps ==
  ASSUME LifeInv, NEW p \in Pids, ProcessDies(p)
  PROVE  LifeInv'
  <1>1. /\ proc' = Ended({p}) /\ table' = Seen(table, {p}, daemon)
        /\ spared' = spared /\ Elsewhere
    BY DEF ProcessDies, Elsewhere, LifeInv, LifeTypes
  <1>2. World' /\ Wanes /\ \A k \in Homes : Entries(k)' = Entries(k)
    BY <1>1, InvWorld, SeenTrue, SeenEntries
  <1> QED  BY <1>1, <1>2, WanesElsewhere

LEMMA RebootKeeps ==
  ASSUME LifeInv, Reboot
  PROVE  LifeInv'
  <1>1. /\ ~Busy /\ proc' = Ended(Pids) /\ table' = Seen(table, Live, {}) /\ spared' = {} /\ Elsewhere
    BY LifeAssumption DEF Reboot, Elsewhere, Ended, LifeInv, LifeTypes, Homes
  <1>2. proc' = Ended(Live)
    BY <1>1 DEF Ended, Live
  <1>3. World' /\ Wanes /\ Live' = {} /\ \A k \in Homes : Entries(k)' = Entries(k)
    <2>1. Live \subseteq Pids
      BY DEF Live
    <2> QED  BY <1>1, <1>2, <2>1, InvWorld, SeenTrue, SeenEntries
  <1> QED  BY <1>1, <1>3, WanesElsewhere

LEMMA ReviveKeeps ==
  ASSUME LifeInv, NEW h \in Homes, NEW a \in Apps, Revive(h, a)
  PROVE  LifeInv'
  <1>1. /\ daemon' = daemon /\ cli' = cli /\ quiet' = quiet /\ spared' = spared /\ blind' = blind
    BY DEF Revive
  <1>2. World' /\ a \in Entries(h) /\ (h \in Dirs => table[h][a].dir = h)
    BY InvWorld, ReviveDoes
  <1>3. PICK p \in Pids :
              /\ Arrives(p, table[h][a].dir, h)
              /\ \A k \in Homes, b \in Apps :
                   /\ table'[k][b] # Nothing <=> table[k][b] # Nothing
                   /\ table'[k][b] # Nothing => table'[k][b].dir = table[k][b].dir
                   /\ table'[k][b] # Nothing => table'[k][b].pid \in {table[k][b].pid, p}
    BY InvWorld, ReviveDoes
  <1>4. PICK d \in Dirs : d = table[h][a].dir
    <2>1. table \in Tables /\ table[h][a] # Nothing
      BY <1>2, InvWorld DEF World, Entries
    <2> QED  BY <2>1, EntryFields
  <1>5. Arrives(p, d, h)
    BY <1>3, <1>4
  <1>6. h = Default \/ Entries(d) # {}
    BY <1>2, <1>4 DEF Homes
  <1> QED  BY <1>1, <1>2, <1>3, <1>5, <1>6, ArrivesKeeps

LEMMA HandKeeps ==
  ASSUME LifeInv, NEW a \in Apps, NEW d \in Dirs, NEW cwd \in {d, Root}, HandStart(a, d, cwd)
  PROVE  LifeInv'
  <1>1. /\ daemon' = daemon /\ table' = table /\ spared' = spared /\ blind' = blind /\ quiet' = quiet \ {d}
        /\ IF Busy THEN cli' = [cli EXCEPT !.meddled = @ \cup {d}] ELSE cli' = cli
    BY DEF HandStart
  <1>2. PICK p \in Fresh : proc' = [proc EXCEPT ![p] = Launch(a, d, cwd, Nothing)]
    BY DEF HandStart
  <1>3. World' /\ Arrives(p, d, Nothing) /\ p \in Pids
    BY <1>1, <1>2, InvWorld, HandDoes, FreshIs
  <1>4. CASE ~Busy
    <2>1. cli' = cli
      BY <1>1, <1>4
    <2> QED  BY <1>1, <1>3, <1>4, <2>1, ArrivesKeeps
  <1>5. CASE Busy
    <2>1. cli \in Commands
      BY <1>5, CliIs
    <2>2. /\ cli' \in Commands
          /\ cli'.pc = cli.pc /\ cli'.cmd = cli.cmd /\ cli'.dir = cli.dir /\ cli'.on = cli.on
          /\ cli'.todo = cli.todo /\ cli'.plan = cli.plan /\ cli'.held = cli.held
          /\ cli'.failed = cli.failed /\ cli'.meddled = cli.meddled \cup {d}
      BY <1>1, <1>5, <2>1 DEF Commands
    <2> QED  BY <1>1, <1>3, <1>5, <2>1, <2>2, ArrivesKeeps
  <1> QED  BY <1>4, <1>5

(***************************************************************************)
(* The steps of the command                                                *)
(***************************************************************************)
SameWorld == table' = table /\ proc' = proc

LEMMA SameWorldIs ==
  ASSUME World, SameWorld
  PROVE  /\ World' /\ Wanes /\ Live' = Live
         /\ \A d : Ours(d)' = Ours(d) /\ Entries(d)' = Entries(d)
  BY DEF SameWorld, World, Wanes, TableIsTrue, Live, Entries, Ours

\* The command goes on with the same instance.
SameRun == /\ cli \in Commands /\ cli' \in Commands /\ Busy /\ Busy'
           /\ cli'.cmd = cli.cmd /\ cli'.dir = cli.dir /\ cli'.on = cli.on /\ cli'.meddled = cli.meddled

LEMMA GotoKeeps ==
  ASSUME LifeInv, Busy, NEW x \in CliPcs, Goto(x)
  PROVE  /\ SameRun /\ cli'.pc = x /\ cli'.todo = cli.todo /\ cli'.plan = cli.plan
         /\ cli'.held = cli.held /\ cli'.failed = cli.failed
  <1>1. cli \in Commands
    BY CliIs
  <1> QED  BY <1>1 DEF Goto, SameRun, Commands, Busy, CliPcs

\* A step that only moves on: start, the end of a loop, the daemon's stop.
LEMMA MovesKeep ==
  ASSUME LifeInv, start_impl \/ names_done \/ steps_done \/ stop_daemon
  PROVE  LifeInv'
  <1>1. /\ SameWorld /\ quiet' = quiet /\ spared' = spared /\ blind' = blind
        /\ cli.pc \in {"start", "names", "steps", "daemon"}
        /\ \/ cli.pc = "start" /\ Goto("apply")
           \/ cli.pc = "names" /\ cli.todo = {} /\ Goto(IF cli.cmd = "takeover" THEN "daemon" ELSE "sweep")
           \/ cli.pc = "steps" /\ cli.plan = {} /\ Goto(IF cli.cmd = "stop-g" THEN "gfinal" ELSE "daemon")
           \/ cli.pc = "daemon" /\ Goto(IF cli.cmd = "takeover" THEN "apply" ELSE "verify")
    BY DEF start_impl, names_done, steps_done, stop_daemon, SameWorld, At
  <1>2. daemon' \subseteq Homes
    BY DEF start_impl, names_done, steps_done, stop_daemon, LifeInv, LifeTypes
  <1>3. Busy
    BY <1>1 DEF Busy
  <1>4. PICK x \in {"apply", "sweep", "daemon", "gfinal", "verify"} :
          /\ Goto(x)
          /\ x = "apply" => cli.pc = "start" \/ (cli.pc = "daemon" /\ cli.cmd = "takeover")
          /\ x = "sweep" => cli.pc = "names" /\ cli.todo = {} /\ cli.cmd # "takeover"
          /\ x = "daemon" => \/ cli.pc = "names" /\ cli.cmd = "takeover"
                             \/ cli.pc = "steps" /\ cli.plan = {} /\ cli.cmd # "stop-g"
          /\ x = "gfinal" => cli.pc = "steps" /\ cli.plan = {} /\ cli.cmd = "stop-g"
          /\ x = "verify" => cli.pc = "daemon" /\ cli.cmd # "takeover"
    BY <1>1
  <1>5. /\ SameRun /\ cli'.pc = x /\ cli'.todo = cli.todo /\ cli'.plan = cli.plan
        /\ cli'.held = cli.held /\ cli'.failed = cli.failed
    BY <1>3, <1>4, GotoKeeps DEF CliPcs
  <1>6. World /\ World' /\ Wanes /\ \A d : Ours(d)' = Ours(d) /\ Entries(d)' = Entries(d)
    BY <1>1, InvWorld, SameWorldIs
  <1>7. LifeTypes'
    BY <1>1, <1>2, <1>5, <1>6 DEF LifeInv, LifeTypes, World, Tables, Procs, SameRun
  <1>8. PlanKnowsHome' /\ PlanIsOurs'
    BY <1>5, <1>6, WanesPlan DEF SameRun
  <1>9. Course'
    BY <1>3, <1>4, <1>5 DEF LifeInv, Course, SameRun
  <1>10. QuietStays'
    <2>1. (\A d \in quiet \ blind : Entries(d) = {} /\ Accounted(d, {}))'
      BY <1>1, <1>6, WanesQuiet
    <2> QED  BY <1>1, <1>5, <2>1 DEF QuietStays, LifeInv, SameRun
  <1>11. StopProgress'
    <2>1. SUFFICES ASSUME cli.cmd = "stop", ~cli.failed, cli.on \notin blind \cup cli.meddled
                   PROVE  StopProgress'
      BY <1>1, <1>5 DEF StopProgress, SameRun
    <2>2. PICK o : o = cli.on
      OBVIOUS
    <2>3. /\ cli.pc = "names" => Entries(o) \subseteq cli.todo
          /\ cli.pc \in {"sweep", "steps", "daemon", "verify", "poll"} => Entries(o) = {}
          /\ cli.pc = "steps" => Accounted(o, {s.pid : s \in cli.plan})
          /\ cli.pc \in {"daemon", "verify", "poll"} => Accounted(o, {})
      BY <1>3, <2>1, <2>2 DEF LifeInv, StopProgress
    <2>4. cli.pc = "start" => FALSE
      BY <1>3, <2>1 DEF LifeInv, Course
    <2>5. x \in {"sweep", "daemon", "verify"} /\ Entries(o) = {}
      BY <1>3, <1>4, <2>1, <2>3, <2>4
    <2>6. x \in {"daemon", "verify"} => Accounted(o, {})
      <3>1. CASE cli.pc = "steps" /\ cli.plan = {}
        <4>1. {s.pid : s \in cli.plan} = {}
          BY <3>1
        <4> QED  BY <2>3, <3>1, <4>1
      <3> QED  BY <1>4, <2>1, <2>3, <3>1
    <2>7. /\ Entries(o)' = {}
          /\ x \in {"daemon", "verify"} => Accounted(o, {})'
      BY <1>1, <1>6, <2>5, <2>6, WanesAccounted
    <2> QED  BY <1>5, <2>2, <2>5, <2>7 DEF StopProgress, SameRun
  <1> QED  BY <1>6, <1>7, <1>8, <1>9, <1>10, <1>11 DEF LifeInv, World

\* The end of a command.
LEMMA ReturnKeeps ==
  ASSUME LifeInv, World', cli' = Idle, daemon' \subseteq Homes, quiet' \subseteq Dirs, spared' \subseteq Pids,
         blind' \subseteq Dirs, (\A d \in quiet \ blind : Entries(d) = {} /\ Accounted(d, {}))'
  PROVE  LifeInv'
  <1>1. /\ ~Busy' /\ cli' \in Commands \cup {Idle} /\ Course' /\ PlanKnowsHome' /\ PlanIsOurs'
        /\ StopProgress'
    BY IdleIs
  <1>2. QuietStays'
    BY <1>1 DEF QuietStays
  <1> QED  BY <1>1, <1>2 DEF LifeInv, LifeTypes, World, Tables, Procs

LEMMA RefusalKeeps ==
  ASSUME LifeInv, contention_refused \/ global_final
  PROVE  LifeInv'
  <1>1. /\ SameWorld /\ cli' = Idle /\ daemon' = daemon /\ quiet' = quiet /\ spared' = spared /\ blind' = blind
    BY DEF contention_refused, global_final, SameWorld, Return
  <1>2. World' /\ Wanes
    BY <1>1, InvWorld, SameWorldIs
  <1>3. (\A d \in quiet \ blind : Entries(d) = {} /\ Accounted(d, {}))'
    BY <1>1, <1>2, WanesQuiet
  <1> QED  BY <1>1, <1>2, <1>3, ReturnKeeps DEF LifeInv, LifeTypes

LEMMA BeginKeeps ==
  ASSUME LifeInv, NEW cmd \in {"start", "restart", "stop", "stop-g"}, NEW d \in Dirs \cup {Nothing},
         NEW pc \in CliPcs, NEW web \in BOOLEAN, Begin(cmd, d, pc, web),
         cmd = "stop-g" => pc = "gscan",
         cmd # "stop-g" => d \in Dirs /\ pc \in {"start", "list"},
         pc = "start" => cmd = "start"
  PROVE  LifeInv'
  <1>1. /\ SameWorld /\ daemon' = daemon /\ spared' = spared /\ blind' = blind
        /\ quiet' \subseteq quiet /\ (cmd \in {"start", "restart"} => d \notin quiet')
        /\ cli' = [pc |-> pc, cmd |-> cmd, dir |-> d, on |-> d, web |-> web, todo |-> {},
                   plan |-> {}, held |-> {}, found |-> FALSE, failed |-> FALSE, meddled |-> {}]
    BY DEF Begin, SameWorld
  <1>2. /\ cli' \in Commands /\ Busy' /\ cli'.pc = pc /\ cli'.cmd = cmd /\ cli'.dir = d /\ cli'.on = d
        /\ cli'.plan = {} /\ cli'.held = {} /\ cli'.failed = FALSE
    BY <1>1 DEF Commands, Busy, CliPcs
  <1>3. World' /\ Wanes
    BY <1>1, InvWorld, SameWorldIs
  <1>4. (\A e \in quiet \ blind : Entries(e) = {} /\ Accounted(e, {}))'
    BY <1>1, <1>3, WanesQuiet
  <1>5. LifeTypes'
    BY <1>1, <1>2, <1>3 DEF LifeInv, LifeTypes, World, Tables, Procs
  <1>6. Course'
    BY <1>2 DEF Course, Own
  <1>7. PlanKnowsHome' /\ PlanIsOurs'
    BY <1>2 DEF PlanKnowsHome, PlanIsOurs
  <1>8. StopProgress'
    BY <1>2 DEF StopProgress
  <1>9. QuietStays'
    BY <1>1, <1>2, <1>4 DEF QuietStays
  <1> QED  BY <1>3, <1>5, <1>6, <1>7, <1>8, <1>9 DEF LifeInv, World

LEMMA TakeoverKeeps ==
  ASSUME LifeInv, contention_takeover
  PROVE  LifeInv'
  <1>1. /\ SameWorld /\ daemon' = daemon /\ quiet' = quiet /\ spared' = spared /\ blind' = blind
        /\ cli.pc = "start" /\ Busy
    BY DEF contention_takeover, SameWorld, At, Busy
  <1>2. PICK od \in Dirs : cli' = [cli EXCEPT !.pc = "list", !.on = od, !.cmd = "takeover"]
    <2>1. \A p \in Live : proc[p].dir \in Dirs
      BY InvWorld, ProcFields DEF World
    <2> QED  BY <2>1 DEF contention_takeover, find_other_server_dir
  <1>3. cli \in Commands /\ cli.dir \in Dirs /\ cli.plan = {} /\ cli.cmd \in {"start", "restart", "takeover"}
    BY <1>1, CliIs DEF LifeInv, Course
  <1>4. /\ cli' \in Commands /\ Busy' /\ cli'.pc = "list" /\ cli'.cmd = "takeover" /\ cli'.on = od
        /\ cli'.dir = cli.dir /\ cli'.plan = {}
    BY <1>2, <1>3 DEF Commands, Busy
  <1>5. World' /\ Wanes
    BY <1>1, InvWorld, SameWorldIs
  <1>6. (\A e \in quiet \ blind : Entries(e) = {} /\ Accounted(e, {}))'
    BY <1>1, <1>5, WanesQuiet
  <1>7. LifeTypes'
    BY <1>1, <1>4, <1>5 DEF LifeInv, LifeTypes, World, Tables, Procs
  <1>8. Course'
    BY <1>3, <1>4 DEF Course, Own
  <1>9. PlanKnowsHome' /\ PlanIsOurs' /\ StopProgress'
    BY <1>4 DEF PlanKnowsHome, PlanIsOurs, StopProgress, Own
  <1>10. QuietStays'
    BY <1>1, <1>3, <1>4, <1>6 DEF LifeInv, QuietStays
  <1> QED  BY <1>5, <1>7, <1>8, <1>9, <1>10 DEF LifeInv, World

LEMMA ListKeeps ==
  ASSUME LifeInv, list_registered_apps
  PROVE  LifeInv'
  <1>1. SameWorld /\ spared' = spared /\ cli.pc = "list" /\ Busy /\ cli \in Commands
    BY CliIs DEF list_registered_apps, SameWorld, At, Busy, CliPcs
  <1>2. PICK d \in Dirs : d = cli.on
    BY <1>1 DEF LifeInv, Course
  <1>3. daemon' \subseteq Homes
    BY <1>2 DEF list_registered_apps, CallWorks, CallFails, LifeInv, LifeTypes, Homes
  <1>4. World' /\ Wanes /\ Entries(d)' = Entries(d)
    BY <1>1, InvWorld, SameWorldIs
  <1>5. cli.plan = {} /\ Entries(d) \subseteq Apps
    BY <1>1 DEF LifeInv, Course, Entries
  <1>6. CASE /\ cli' = [cli EXCEPT !.pc = "names", !.todo = Entries(d), !.found = Entries(d) # {}]
             /\ blind' = blind \ {d} /\ quiet' = quiet \ ({d} \cap blind)
    <2>1. /\ SameRun /\ cli'.pc = "names" /\ cli'.todo = Entries(d) /\ cli'.plan = {} /\ cli'.held = cli.held
      BY <1>1, <1>5, <1>6 DEF Commands, SameRun, Busy
    <2>2. LifeTypes'
      BY <1>1, <1>3, <1>4, <1>6, <2>1 DEF LifeInv, LifeTypes, World, Tables, Procs, SameRun
    <2>3. Course'
      <3>1. Entries(cli.on)' = Entries(d)
        BY <1>2, <1>4, <2>1 DEF SameRun, Entries
      <3> QED  BY <1>1, <2>1, <3>1 DEF LifeInv, Course, SameRun
    <2>4. PlanKnowsHome' /\ PlanIsOurs'
      BY <1>4, <1>5, <2>1, WanesPlan DEF SameRun
    <2>5. StopProgress'
      <3>1. Entries(cli.on)' = Entries(d)
        BY <1>2, <1>4, <2>1 DEF SameRun, Entries
      <3> QED  BY <2>1, <3>1 DEF StopProgress
    <2>6. (\A e \in quiet \ blind : Entries(e) = {} /\ Accounted(e, {}))'
      BY <1>1, <1>4, <1>6, WanesQuiet
    <2>7. QuietStays'
      BY <1>1, <1>6, <2>1, <2>6 DEF LifeInv, QuietStays, SameRun
    <2> QED  BY <1>4, <2>2, <2>3, <2>4, <2>5, <2>7 DEF LifeInv, World
  <1>7. CASE /\ Goto(IF cli.cmd = "takeover" THEN "apply" ELSE "sweep")
             /\ blind' = blind \cup {d} /\ quiet' = quiet
    <2>1. PICK x \in {"apply", "sweep"} : Goto(x) /\ (x = "apply" => cli.cmd = "takeover")
      BY <1>7
    <2>2. SameRun /\ cli'.pc = x /\ cli'.plan = {} /\ cli'.held = cli.held
      BY <1>1, <1>5, <2>1, GotoKeeps DEF CliPcs
    <2>3. LifeTypes'
      BY <1>1, <1>3, <1>4, <1>7, <2>2 DEF LifeInv, LifeTypes, World, Tables, Procs, SameRun
    <2>4. Course'
      BY <1>1, <2>1, <2>2 DEF LifeInv, Course, SameRun
    <2>5. PlanKnowsHome' /\ PlanIsOurs'
      BY <1>4, <1>5, <2>2, WanesPlan DEF SameRun
    <2>6. StopProgress'
      BY <1>2, <1>7, <2>2 DEF StopProgress, SameRun
    <2>7. (\A e \in quiet \ blind : Entries(e) = {} /\ Accounted(e, {}))'
      BY <1>1, <1>4, <1>7, WanesQuiet
    <2>8. QuietStays'
      BY <1>1, <1>7, <2>2, <2>7 DEF LifeInv, QuietStays, SameRun
    <2> QED  BY <1>4, <2>3, <2>4, <2>5, <2>6, <2>8 DEF LifeInv, World
  <1> QED  BY <1>2, <1>6, <1>7 DEF list_registered_apps

\* The process of an entry is of the entry's instance.
LEMMA EntryProcess ==
  ASSUME World, NEW h \in Homes, NEW a \in Apps, table[h][a] # Nothing, table[h][a].pid \in Live
  PROVE  /\ proc[table[h][a].pid].dir = table[h][a].dir
         /\ h \in Dirs => table[h][a].dir = h
  BY DEF World, TableIsTrue, Entries, Live

\* stop_cluster takes one name off the list: done, or remembered as failed.
LEMMA StopClusterDoes ==
  ASSUME LifeInv, stop_cluster
  PROVE  /\ World' /\ Wanes /\ daemon' \subseteq Homes
         /\ quiet' = quiet /\ spared' = spared /\ blind' = blind
         /\ cli.pc = "names" /\ SameRun /\ cli'.pc = "names" /\ cli'.plan = {} /\ cli'.held = cli.held
         /\ \A p \in Live \ Live' : proc[p].dir = cli.on
         /\ cli'.todo \subseteq Entries(cli.on)'
         /\ ~cli'.failed => ~cli.failed /\ Entries(cli.on)' \cap cli.todo \subseteq cli'.todo
  <1>1. cli.pc = "names" /\ Busy /\ cli \in Commands /\ quiet' = quiet /\ spared' = spared /\ blind' = blind
    BY CliIs DEF stop_cluster, At, Busy, CliPcs
  <1>2. PICK h \in Dirs : h = cli.on
    BY <1>1 DEF LifeInv, Course
  <1>3. h \in Homes /\ World /\ cli.plan = {} /\ cli.todo \subseteq Entries(h) /\ daemon \subseteq Homes
    BY <1>1, <1>2, InvWorld DEF Homes, LifeInv, LifeTypes, Course
  <1>4. PICK a \in cli.todo :
          LET K == IF table[h][a] = Nothing THEN {} ELSE {table[h][a].pid} \cap Live
              stopped == [table EXCEPT ![h][a].on = FALSE, ![h][a].pid = Nothing]
          IN  \/ /\ CallWorks(h)
                 /\ table' = Without(h, a) /\ proc' = Ended(K)
                 /\ cli' = [cli EXCEPT !.todo = @ \ {a}]
              \/ /\ CallFails(h)
                 /\ UNCHANGED daemon
                 /\ \/ UNCHANGED <<table, proc>>
                    \/ table' = stopped /\ proc' = Ended(K)
                 /\ cli' = [cli EXCEPT !.todo = @ \ {a}, !.failed = TRUE]
    BY <1>2 DEF stop_cluster
  <1>5. PICK K : K = IF table[h][a] = Nothing THEN {} ELSE {table[h][a].pid} \cap Live
    OBVIOUS
  <1>6. a \in Apps /\ table[h][a] # Nothing
    BY <1>3 DEF Entries
  <1>7. \A p \in K : proc[p].dir = h
    BY <1>3, <1>5, <1>6, EntryProcess
  <1>8. CASE /\ CallWorks(h) /\ table' = Without(h, a) /\ proc' = Ended(K)
             /\ cli' = [cli EXCEPT !.todo = @ \ {a}]
    <2>1. table' = [table EXCEPT ![h][a] = Nothing]
      BY <1>8 DEF Without
    <2>2. World' /\ Wanes /\ Live' = Live \ K
      <3>1. proc' = Ended(K) /\ \A p \in K : table[h][a] # Nothing /\ p = table[h][a].pid
        BY <1>5, <1>8
      <3>2. /\ table' \in Tables /\ table'[h][a] = Nothing
            /\ \A k \in Homes, b \in Apps : (k # h \/ b # a) => table'[k][b] = table[k][b]
        BY <1>3, <1>6, <2>1 DEF World, Tables
      <3> QED  BY <1>3, <1>6, <3>1, <3>2, CloseTrue
    <2>3. SameRun /\ cli'.pc = "names" /\ cli'.plan = {} /\ cli'.held = cli.held
          /\ cli'.todo = cli.todo \ {a} /\ cli'.failed = cli.failed
      BY <1>1, <1>3, <1>8 DEF SameRun, Commands, Busy
    <2>4. Entries(h)' = Entries(h) \ {a}
      BY <1>3, <1>6, <2>1 DEF Entries, World, Tables
    <2>5. Entries(cli.on)' = Entries(h)'
      BY <1>2, <2>3 DEF SameRun, Entries
    <2>6. daemon' \subseteq Homes
      BY <1>3, <1>8 DEF CallWorks
    <2> QED  BY <1>1, <1>2, <1>3, <1>7, <2>2, <2>3, <2>4, <2>5, <2>6
  <1>9. CASE /\ UNCHANGED daemon
             /\ \/ UNCHANGED <<table, proc>>
                \/ table' = [table EXCEPT ![h][a].on = FALSE, ![h][a].pid = Nothing] /\ proc' = Ended(K)
             /\ cli' = [cli EXCEPT !.todo = @ \ {a}, !.failed = TRUE]
    <2>1. SameRun /\ cli'.pc = "names" /\ cli'.plan = {} /\ cli'.held = cli.held
          /\ cli'.todo = cli.todo \ {a} /\ cli'.failed = TRUE
      BY <1>1, <1>3, <1>9 DEF SameRun, Commands, Busy
    <2>2. World' /\ Wanes /\ (\A p \in Live \ Live' : proc[p].dir = h) /\ Entries(h)' = Entries(h)
      <3>1. CASE UNCHANGED <<table, proc>>
        BY <1>3, <3>1, SameWorldIs DEF SameWorld
      <3>2. CASE table' = [table EXCEPT ![h][a].on = FALSE, ![h][a].pid = Nothing] /\ proc' = Ended(K)
        <4>1. table \in Tables /\ table[h][a] \in EntryRecs
          BY <1>3, <1>6, EntryFields DEF World
        <4>2. PICK e \in EntryRecs : e = [table[h][a] EXCEPT !.on = FALSE, !.pid = Nothing]
                                     /\ e.dir = table[h][a].dir /\ e.pid = Nothing
          <5>1. LET r == [table[h][a] EXCEPT !.on = FALSE, !.pid = Nothing]
                IN  r \in EntryRecs /\ r.dir = table[h][a].dir /\ r.pid = Nothing
            BY <4>1 DEF EntryRecs
          <5> QED  BY <5>1
        <4>3. table' = [table EXCEPT ![h][a] = e]
          BY <1>3, <1>6, <3>2, <4>1, <4>2 DEF Tables
        <4>4. World' /\ Wanes /\ Live' = Live \ K
          <5>1. proc' = Ended(K) /\ \A p \in K : table[h][a] # Nothing /\ p = table[h][a].pid
            BY <1>5, <3>2
          <5>2. /\ table' \in Tables /\ table'[h][a] = e
                /\ \A k \in Homes, b \in Apps : (k # h \/ b # a) => table'[k][b] = table[k][b]
            BY <1>3, <1>6, <4>1, <4>3 DEF Tables
          <5>3. /\ e \in EntryRecs \cup {Nothing}
                /\ e # Nothing => table[h][a] # Nothing /\ e.dir = table[h][a].dir /\ e.pid = Nothing
            BY <1>6, <4>2
          <5> QED  BY <1>3, <1>6, <5>1, <5>2, <5>3, CloseTrue
        <4>5. Entries(h)' = Entries(h)
          <5>1. e # Nothing
            BY LifeAssumption
          <5> QED  BY <1>3, <1>6, <4>1, <4>3, <5>1 DEF Entries, Tables
        <4> QED  BY <1>7, <4>4, <4>5
      <3> QED  BY <1>9, <3>1, <3>2
    <2>3. Entries(cli.on)' = Entries(h)'
      BY <1>2, <2>1 DEF SameRun, Entries
    <2> QED  BY <1>1, <1>2, <1>3, <1>9, <2>1, <2>2, <2>3
  <1> QED  BY <1>4, <1>5, <1>8, <1>9

LEMMA StopClusterKeeps ==
  ASSUME LifeInv, stop_cluster
  PROVE  LifeInv'
  <1>1. /\ World' /\ Wanes /\ daemon' \subseteq Homes
        /\ quiet' = quiet /\ spared' = spared /\ blind' = blind
        /\ cli.pc = "names" /\ SameRun /\ cli'.pc = "names" /\ cli'.plan = {} /\ cli'.held = cli.held
        /\ cli'.todo \subseteq Entries(cli.on)'
        /\ ~cli'.failed => ~cli.failed /\ Entries(cli.on)' \cap cli.todo \subseteq cli'.todo
    BY StopClusterDoes
  <1>2. LifeTypes'
    BY <1>1 DEF LifeInv, LifeTypes, World, Tables, Procs, SameRun
  <1>3. Course'
    BY <1>1 DEF LifeInv, Course, SameRun
  <1>4. PlanKnowsHome' /\ PlanIsOurs'
    BY <1>1, WanesPlan DEF SameRun
  <1>5. StopProgress'
    <2>1. SUFFICES ASSUME cli.cmd = "stop", ~cli'.failed, cli.on \notin blind \cup cli.meddled
                   PROVE  Entries(cli.on)' \subseteq cli'.todo
      BY <1>1 DEF StopProgress, SameRun
    <2>2. Entries(cli.on) \subseteq cli.todo
      BY <1>1, <2>1 DEF LifeInv, StopProgress, SameRun
    <2>3. Entries(cli.on)' \subseteq Entries(cli.on)
      <3>1. PICK h \in Homes : h = cli.on
        BY <1>1 DEF LifeInv, Course, SameRun, Homes
      <3>2. Entries(h)' \subseteq Entries(h)
        BY <1>1, InvWorld, WanesSets
      <3> QED  BY <1>1, <3>1, <3>2 DEF SameRun, Entries
    <2> QED  BY <1>1, <2>1, <2>2, <2>3
  <1>6. (\A e \in quiet \ blind : Entries(e) = {} /\ Accounted(e, {}))'
    BY <1>1, WanesQuiet
  <1>7. QuietStays'
    BY <1>1, <1>6 DEF LifeInv, QuietStays, SameRun
  <1> QED  BY <1>1, <1>2, <1>3, <1>4, <1>5, <1>7 DEF LifeInv, World

\* The second scan and the verdict of a stop.
LEMMA VerdictKeeps ==
  ASSUME LifeInv, SameWorld, daemon' = daemon, spared' = spared, blind' = blind, Busy,
         cli.pc \in {"verify", "poll"}, NEW rc, StopReturns(rc), rc = 0 => cli.pc = "poll"
  PROVE  LifeInv'
  <1>1. World /\ World' /\ Wanes /\ \A d : Entries(d)' = Entries(d)
    BY InvWorld, SameWorldIs
  <1>2. cli.cmd # "stop-g" /\ cli.on \in Dirs /\ cli.plan = {} /\ cli \in Commands
    BY CliIs DEF LifeInv, Course
  <1>3. PICK o \in Dirs : o = cli.on
    BY <1>2
  <1>4. \/ quiet' = quiet \ {o}
        \/ rc = 0 /\ cli.cmd = "stop" /\ o \notin cli.meddled /\ quiet' = quiet \cup {o}
    BY <1>3 DEF StopReturns
  <1>5. (\A e \in quiet \ blind : Entries(e) = {} /\ Accounted(e, {}))'
    <2>1. ASSUME NEW e \in quiet' \ blind'
          PROVE  Entries(e)' = {} /\ Accounted(e, {})'
      <3>1. Entries(e) = {} /\ Accounted(e, {})
        <4>1. CASE e \in quiet
          BY <2>1, <4>1 DEF LifeInv, QuietStays
        <4>2. CASE e \notin quiet
          <5>1. e = o /\ cli.pc = "poll" /\ cli.cmd = "stop" /\ o \notin cli.meddled
            BY <1>4, <2>1, <4>2
          <5>2. ~cli.failed
            BY <5>1 DEF LifeInv, Course
          <5> QED  BY <1>3, <2>1, <5>1, <5>2 DEF LifeInv, StopProgress
        <4> QED  BY <4>1, <4>2
      <3> QED  BY <1>1, <3>1, WanesAccounted
    <2> QED  BY <2>1
  <1>6. quiet' \subseteq Dirs
    BY <1>4 DEF LifeInv, LifeTypes
  <1>7. CASE cli' = Idle
    BY <1>1, <1>5, <1>6, <1>7, ReturnKeeps DEF LifeInv, LifeTypes
  <1>8. CASE cli.cmd = "restart" /\ Goto("start")
    <2>1. SameRun /\ cli'.pc = "start" /\ cli'.plan = {} /\ cli'.held = cli.held
      BY <1>2, <1>8, GotoKeeps DEF CliPcs
    <2>2. LifeTypes'
      BY <1>1, <1>6, <2>1 DEF LifeInv, LifeTypes, World, Tables, Procs, SameRun
    <2>3. Course'
      BY <1>8, <2>1 DEF LifeInv, Course, SameRun
    <2>4. PlanKnowsHome' /\ PlanIsOurs'
      BY <1>1, <1>2, <2>1, WanesPlan DEF SameRun
    <2>5. StopProgress'
      BY <1>8, <2>1 DEF StopProgress, SameRun
    <2>6. QuietStays'
      <3>1. cli.dir \notin quiet /\ quiet' \subseteq quiet
        BY <1>4, <1>8 DEF LifeInv, QuietStays
      <3> QED  BY <1>5, <2>1, <3>1 DEF QuietStays, SameRun
    <2> QED  BY <1>1, <2>2, <2>3, <2>4, <2>5, <2>6 DEF LifeInv, World
  <1> QED  BY <1>7, <1>8 DEF StopReturns, Return

LEMMA VerifyKeeps ==
  ASSUME LifeInv, verify_scan \/ verify_ports_attribution
  PROVE  LifeInv'
  <1>1. /\ SameWorld /\ daemon' = daemon /\ spared' = spared /\ blind' = blind
        /\ cli.pc \in {"verify", "poll"} /\ Busy
    BY DEF verify_scan, verify_ports_attribution, SameWorld, At, Busy
  <1>2. CASE verify_ports_attribution
    <2>1. cli.pc = "poll" /\ \E rc \in {0, 1} : StopReturns(rc)
      BY <1>2 DEF verify_ports_attribution, At
    <2> QED  BY <1>1, <2>1, VerdictKeeps
  <1>3. CASE verify_scan /\ cli.failed
    <2>1. StopReturns(1)
      BY <1>3 DEF verify_scan
    <2> QED  BY <1>1, <2>1, VerdictKeeps
  <1>4. CASE verify_scan /\ ~cli.failed
    <2>1. /\ cli' = [cli EXCEPT !.pc = "poll", !.held = @ \cup Ours(cli.on)] /\ quiet' = quiet
          /\ cli.pc = "verify"
      BY <1>4 DEF verify_scan, At
    <2>2. cli \in Commands /\ cli.plan = {} /\ Ours(cli.on) \subseteq Pids
      BY <1>1, <2>1, CliIs DEF LifeInv, Course, Ours, Live
    <2>3. /\ SameRun /\ cli'.pc = "poll" /\ cli'.plan = {} /\ cli'.held = cli.held \cup Ours(cli.on)
          /\ cli'.failed = cli.failed
      BY <1>1, <2>1, <2>2 DEF SameRun, Commands, Busy
    <2>4. World /\ World' /\ Wanes /\ \A d : Entries(d)' = Entries(d)
      BY <1>1, InvWorld, SameWorldIs
    <2>5. LifeTypes'
      BY <1>1, <2>1, <2>3, <2>4 DEF LifeInv, LifeTypes, World, Tables, Procs, SameRun
    <2>6. Course'
      BY <1>1, <1>4, <2>1, <2>3 DEF LifeInv, Course, SameRun
    <2>7. PlanKnowsHome' /\ PlanIsOurs'
      BY <2>2, <2>3, <2>4, WanesPlan DEF SameRun
    <2>8. StopProgress'
      <3>1. SUFFICES ASSUME cli.cmd = "stop", ~cli.failed, cli.on \notin blind \cup cli.meddled
                     PROVE  StopProgress'
        BY <1>1, <2>3 DEF StopProgress, SameRun
      <3>2. PICK o : o = cli.on
        OBVIOUS
      <3>3. Entries(o) = {} /\ Accounted(o, {})
        BY <1>1, <2>1, <3>1, <3>2 DEF LifeInv, StopProgress
      <3>4. Entries(o)' = {} /\ Accounted(o, {})'
        BY <1>1, <2>4, <3>3, WanesAccounted
      <3> QED  BY <2>3, <3>2, <3>4 DEF StopProgress, SameRun
    <2>9. (\A e \in quiet \ blind : Entries(e) = {} /\ Accounted(e, {}))'
      BY <1>1, <2>1, <2>4, WanesQuiet
    <2>10. QuietStays'
      BY <1>1, <2>1, <2>3, <2>9 DEF LifeInv, QuietStays, SameRun
    <2> QED  BY <2>4, <2>5, <2>6, <2>7, <2>8, <2>10 DEF LifeInv, World
  <1> QED  BY <1>2, <1>3, <1>4

\* apply writes the table of the command's own directory, which is not quiet.
LEMMA ApplyHarms ==
  ASSUME LifeInv, apply_oxfile
  PROVE  /\ World' /\ cli.pc = "apply" /\ Busy /\ cli' = Idle /\ daemon' \subseteq Homes
         /\ quiet' = quiet /\ spared' = spared /\ blind' = blind /\ Live' \subseteq Live
         /\ cli.dir \in Dirs /\ \A k \in Homes \ {cli.dir} : table'[k] = table[k]
         /\ \A p \in Live' : proc'[p] = proc[p]
         /\ \A p \in Live \ Live' : proc[p].dir = cli.dir
  <1>1. /\ cli.pc = "apply" /\ Busy /\ cli \in Commands /\ cli' = Idle
        /\ quiet' = quiet /\ spared' = spared /\ blind' = blind
    BY CliIs DEF apply_oxfile, At, Return, CliPcs
  <1>2. PICK d \in Dirs : d = cli.dir
    BY <1>1 DEF LifeInv, Course
  <1>3. PICK web \in BOOLEAN : web = cli.web
    BY <1>1 DEF Commands
  <1>4. World /\ daemon \subseteq Homes /\ d \in Homes
    BY InvWorld DEF LifeInv, LifeTypes, Homes
  <1>5. PICK K : K = IF web \/ table[d]["web"] = Nothing THEN {} ELSE {table[d]["web"].pid} \cap Live
    OBVIOUS
  <1>6. CASE /\ daemon' = daemon \cup {d}
             /\ table' = [table EXCEPT ![d] = [a \in Apps |-> Applies(d, web, a)]]
             /\ proc' = Ended(K)
    <2>1. /\ \A k \in Homes \ {d} : table'[k] = table[k]
          /\ \A b \in Apps : table'[d][b] = Applies(d, web, b)
      BY <1>4, <1>6 DEF World, Tables
    <2>2. table' \in Tables
      <3>1. [a \in Apps |-> Applies(d, web, a)] \in [Apps -> EntryRecs \cup {Nothing}]
        BY <1>4, AppliesIs
      <3> QED  BY <1>4, <1>6, <3>1 DEF World, Tables
    <2>3. proc' = Ended(K)
          /\ \A p \in K : ~web /\ table[d]["web"] # Nothing /\ p = table[d]["web"].pid /\ p \in Live
      BY <1>5, <1>6
    <2>4. /\ World' /\ Live' = Live \ K
          /\ \A p \in Live' : proc'[p] = proc[p]
          /\ \A p \in K : proc[p].dir = d
      BY <1>4, <2>1, <2>2, <2>3, ApplyDoes
    <2> QED  BY <1>1, <1>2, <1>4, <1>6, <2>1, <2>4
  <1>7. CASE UNCHANGED <<daemon, table, proc>>
    BY <1>1, <1>2, <1>4, <1>7, SameWorldIs DEF SameWorld
  <1> QED  BY <1>2, <1>3, <1>5, <1>6, <1>7 DEF apply_oxfile, Applies

LEMMA ApplyKeeps ==
  ASSUME LifeInv, apply_oxfile
  PROVE  LifeInv'
  <1>1. /\ World' /\ cli.pc = "apply" /\ Busy /\ cli' = Idle /\ daemon' \subseteq Homes
        /\ quiet' = quiet /\ spared' = spared /\ blind' = blind /\ Live' \subseteq Live
        /\ cli.dir \in Dirs /\ \A k \in Homes \ {cli.dir} : table'[k] = table[k]
        /\ \A p \in Live' : proc'[p] = proc[p]
    BY ApplyHarms
  <1>2. (\A e \in quiet \ blind : Entries(e) = {} /\ Accounted(e, {}))'
    <2>1. cli.dir \notin quiet
      BY <1>1 DEF LifeInv, QuietStays, Course
    <2>2. ASSUME NEW e \in quiet \ blind
          PROVE  Entries(e)' = {} /\ Accounted(e, {})'
      <3>1. e \in Homes /\ Entries(e) = {} /\ Accounted(e, {}) /\ table'[e] = table[e]
        BY <1>1, <2>1, <2>2 DEF LifeInv, LifeTypes, QuietStays, Homes
      <3>2. Ours(e)' \subseteq Ours(e) /\ Ours(e)' \subseteq Live'
        BY <1>1 DEF Ours
      <3> QED  BY <1>1, <3>1, <3>2 DEF Accounted, Entries
    <2> QED  BY <1>1, <2>2
  <1> QED  BY <1>1, <1>2, ReturnKeeps DEF LifeInv, LifeTypes

(***************************************************************************)
(* The sweep: its plan and its steps                                       *)
(***************************************************************************)

\* A process in a table of the homes that are searched is sent to its home.
LEMMA RoutesAre ==
  ASSUME World, NEW p \in Live, NEW homes \in SUBSET Homes, NEW s \in Routes(p, homes)
  PROVE  /\ s.pid = p /\ s.via \in homes \cup {Nothing} /\ s.app \in Apps \cup {Nothing}
         /\ s \in [pid : Pids, via : Homes \cup {Nothing}, app : Apps \cup {Nothing}, above : BOOLEAN]
         /\ s.via # Nothing => (s.above <=> proc[p].cwd = Root)
         /\ \A h \in homes, a \in Apps :
              (a \in Entries(h) /\ table[h][a].pid = p) => s.via = h
  <1> DEFINE own == {proc[p].home} \cap homes
             found(H) == {h \in H : lookup(h, p) # {}}
             inst == found(homes \ {Default})
             hs == IF found(own) # {} THEN found(own)
                   ELSE IF inst # {} THEN inst ELSE found(homes)
  <1>1. \A h \in Homes : lookup(h, p) \subseteq Apps
    BY DEF lookup, Entries
  <1>2. hs \subseteq homes
    OBVIOUS
  <1>3. \/ hs = {} /\ s = [pid |-> p, via |-> Nothing, app |-> Nothing, above |-> FALSE]
        \/ \E x \in hs, a \in UNION {lookup(y, p) : y \in hs} :
             s = [pid |-> p, via |-> x, app |-> a, above |-> proc[p].cwd = Root]
    BY DEF Routes
  <1>4. p \in Pids
    BY DEF Live
  <1>5. Nothing \notin Homes
    BY LifeAssumption DEF Homes
  <1>6. ASSUME NEW h \in homes, NEW a \in Apps, a \in Entries(h), table[h][a].pid = p
        PROVE  hs = {h}
    <2>1. proc[p].home = h
      BY <1>4, <1>6 DEF World, TableIsTrue
    <2>2. own = {h}
      BY <2>1
    <2>3. lookup(h, p) # {}
      <3>1. a \in {b \in Entries(h) : table[h][b].pid = p}
        BY <1>6
      <3> QED  BY <3>1 DEF lookup
    <2>4. found(own) = {h}
      BY <2>2, <2>3
    <2> QED  BY <2>4
  <1> HIDE DEF hs
  <1>7. CASE hs = {} /\ s = [pid |-> p, via |-> Nothing, app |-> Nothing, above |-> FALSE]
    BY <1>4, <1>6, <1>7
  <1>8. ASSUME NEW x \in hs, NEW a \in UNION {lookup(y, p) : y \in hs}, NEW up \in BOOLEAN,
               up <=> proc[p].cwd = Root, s = [pid |-> p, via |-> x, app |-> a, above |-> up]
        PROVE  /\ s.pid = p /\ s.via \in homes \cup {Nothing} /\ s.app \in Apps \cup {Nothing}
               /\ s \in [pid : Pids, via : Homes \cup {Nothing}, app : Apps \cup {Nothing}, above : BOOLEAN]
               /\ s.via # Nothing => (s.above <=> proc[p].cwd = Root)
               /\ \A h \in homes, b \in Apps :
                    (b \in Entries(h) /\ table[h][b].pid = p) => s.via = h
    <2>1. a \in Apps
      BY <1>1, <1>2, <1>8
    <2>2. \A h \in homes, b \in Apps : (b \in Entries(h) /\ table[h][b].pid = p) => x = h
      BY <1>6, <1>8
    <2> QED  BY <1>2, <1>4, <1>8, <2>1, <2>2
  <1>9. CASE \E x \in hs, a \in UNION {lookup(y, p) : y \in hs} :
               s = [pid |-> p, via |-> x, app |-> a, above |-> proc[p].cwd = Root]
    BY <1>8, <1>9
  <1> QED  BY <1>3, <1>7, <1>9 DEF hs

LEMMA PlansAre ==
  ASSUME World, NEW M \in SUBSET Live, NEW homes \in SUBSET Homes, NEW S \in Plans(M, homes)
  PROVE  /\ S \subseteq StepRecs
         /\ \A s \in S : /\ s.pid \in M /\ s.via \in homes \cup {Nothing}
                         /\ s.via # Nothing => /\ s.app \in lookup(s.via, s.pid)
                                               /\ s.above <=> proc[s.pid].cwd = Root
                         /\ \A h \in homes, a \in Apps :
                              (a \in Entries(h) /\ table[h][a].pid = s.pid) => s.via = h
         /\ M \subseteq {s.pid : s \in S}
  <1>1. /\ S \subseteq UNION {Routes(p, homes) : p \in M}
        /\ \A s \in S : s.via # Nothing => s.app \in lookup(s.via, s.pid)
        /\ \A p \in M : Cardinality({s \in S : s.pid = p}) = 1
    BY DEF Plans
  <1>2. ASSUME NEW s \in S
        PROVE  /\ s \in StepRecs
               /\ s.pid \in M /\ s.via \in homes \cup {Nothing}
               /\ s.via # Nothing => /\ s.app \in lookup(s.via, s.pid)
                                     /\ s.above <=> proc[s.pid].cwd = Root
               /\ \A h \in homes, a \in Apps :
                    (a \in Entries(h) /\ table[h][a].pid = s.pid) => s.via = h
    <2>1. PICK p \in M : s \in Routes(p, homes)
      BY <1>1
    <2>2. /\ s.pid = p /\ s.via \in homes \cup {Nothing} /\ s.app \in Apps \cup {Nothing}
          /\ s \in [pid : Pids, via : Homes \cup {Nothing}, app : Apps \cup {Nothing}, above : BOOLEAN]
          /\ s.via # Nothing => (s.above <=> proc[p].cwd = Root)
          /\ \A h \in homes, a \in Apps :
               (a \in Entries(h) /\ table[h][a].pid = p) => s.via = h
      BY <2>1, RoutesAre
    <2>3. s.via # Nothing => s.app \in lookup(s.via, s.pid) /\ s.app \in Apps
      BY <1>1 DEF lookup, Entries
    <2>4. s \in StepRecs
      BY <2>2, <2>3 DEF StepRecs
    <2> QED  BY <2>1, <2>2, <2>3, <2>4
  <1>3. ASSUME NEW p \in M PROVE p \in {s.pid : s \in S}
    <2>1. {s \in S : s.pid = p} # {}
      BY <1>1, FS_EmptySet
    <2> QED  BY <2>1
  <1> QED  BY <1>2, <1>3

LEMMA PlanMade ==
  ASSUME LifeInv, SameWorld, daemon' = daemon, quiet' = quiet, spared' = spared, blind' = blind,
         cli.pc \in {"sweep", "gscan"}, NEW M \in SUBSET Live, NEW homes \in SUBSET Homes,
         NEW S \in Plans(M, homes), cli' = [cli EXCEPT !.pc = "steps", !.plan = S, !.held = M],
         \A p \in M : proc[p].home \in Homes => proc[p].home \in homes,
         cli.cmd \in Own => M = Ours(cli.on)
  PROVE  LifeInv'
  <1>1. World /\ World' /\ Wanes /\ \A d : Entries(d)' = Entries(d) /\ Ours(d)' = Ours(d)
    BY InvWorld, SameWorldIs
  <1>2. Busy /\ cli \in Commands
    BY CliIs DEF Busy
  <1>3. /\ S \subseteq StepRecs
        /\ \A s \in S : /\ s.pid \in M /\ s.via \in homes \cup {Nothing}
                        /\ s.via # Nothing => /\ s.app \in lookup(s.via, s.pid)
                                              /\ s.above <=> proc[s.pid].cwd = Root
                        /\ \A h \in homes, a \in Apps :
                             (a \in Entries(h) /\ table[h][a].pid = s.pid) => s.via = h
        /\ M \subseteq {s.pid : s \in S}
    BY <1>1, PlansAre
  <1>4. M \subseteq Pids
    BY DEF Live
  <1>5. /\ SameRun /\ cli'.pc = "steps" /\ cli'.plan = S /\ cli'.held = M /\ cli'.failed = cli.failed
    BY <1>2, <1>3, <1>4 DEF SameRun, Commands, Busy
  <1>6. LifeTypes'
    BY <1>1, <1>5 DEF LifeInv, LifeTypes, World, Tables, Procs, SameRun
  <1>7. Course'
    BY <1>2, <1>5 DEF LifeInv, Course, SameRun
  <1>8. PlanKnowsHome'
    <2>1. ASSUME NEW s \in S, NEW h \in Homes, NEW a \in Entries(h), table[h][a].pid = s.pid
          PROVE  h = s.via
      <3>1. s.pid \in Pids /\ a \in Apps
        BY <1>3, <1>4 DEF Entries
      <3>2. proc[s.pid].home = h
        BY <1>1, <2>1, <3>1 DEF World, TableIsTrue
      <3>3. h \in homes
        BY <1>3, <3>2
      <3> QED  BY <1>3, <2>1, <3>1, <3>3
    <2> QED  BY <1>1, <1>3, <1>5, <2>1 DEF PlanKnowsHome, SameWorld
  <1>9. PlanIsOurs'
    <2>1. SUFFICES ASSUME cli.cmd \in Own, NEW o, o = cli.on
                   PROVE  /\ \A p \in M : proc[p].dir = o
                          /\ \A s \in S : (s.via # Nothing /\ ~s.above /\ table[s.via][s.app] # Nothing)
                                             => table[s.via][s.app].dir = o
      BY <1>5 DEF PlanIsOurs, SameWorld, SameRun
    <2>2. \A p \in M : proc[p].dir = o
      BY <2>1 DEF Ours
    <2>3. ASSUME NEW s \in S, s.via # Nothing, ~s.above, table[s.via][s.app] # Nothing
          PROVE  table[s.via][s.app].dir = o
      <3>1. PICK p \in M : p = s.pid
        BY <1>3
      <3>2. PICK h \in Homes : h = s.via
        BY <1>3, <2>3
      <3>3. PICK a \in Apps : a = s.app /\ a \in lookup(h, p) /\ a \in Entries(h)
        <4>1. s.app \in lookup(s.via, s.pid)
          BY <1>3, <2>3
        <4>2. lookup(h, p) \subseteq Entries(h) /\ Entries(h) \subseteq Apps
          BY DEF lookup, Entries
        <4> QED  BY <3>1, <3>2, <4>1, <4>2
      <3>4. proc[p].dir = o /\ proc[p].cwd # Root /\ p \in Live
        BY <1>3, <2>2, <2>3, <3>1
      <3>5. CASE table[h][a].pid = p
        BY <1>1, <1>4, <3>2, <3>3, <3>4, <3>5 DEF World, TableIsTrue
      <3>6. CASE proc[p].cwd \in {table[h][a].dir, Root}
        BY <1>1, <3>2, <3>3, <3>4, <3>6 DEF World, TableIsTrue
      <3> QED  BY <3>3, <3>5, <3>6 DEF lookup
    <2> QED  BY <2>2, <2>3
  <1>10. StopProgress'
    <2>1. SUFFICES ASSUME cli.cmd = "stop", ~cli.failed, cli.on \notin blind \cup cli.meddled
                   PROVE  Entries(cli.on)' = {} /\ Accounted(cli.on, {s.pid : s \in cli.plan})'
      BY <1>5 DEF StopProgress, SameRun
    <2>2. cli.pc = "sweep"
      BY <1>2, <2>1 DEF LifeInv, Course
    <2>3. Entries(cli.on) = {} /\ M = Ours(cli.on)
      BY <1>2, <2>1, <2>2 DEF LifeInv, StopProgress, Own
    <2>4. Entries(cli.on)' = {}
      BY <1>5, <2>3 DEF SameRun, SameWorld, Entries
    <2>5. Ours(cli.on)' = M
      BY <1>5, <2>3 DEF SameRun, SameWorld, Ours, Live
    <2>6. M \subseteq {s.pid : s \in cli'.plan}
      BY <1>3, <1>5
    <2> QED  BY <2>4, <2>5, <2>6 DEF Accounted
  <1>11. (\A e \in quiet \ blind : Entries(e) = {} /\ Accounted(e, {}))'
    BY <1>1, WanesQuiet
  <1>12. QuietStays'
    BY <1>2, <1>5, <1>11 DEF LifeInv, QuietStays, SameRun
  <1> QED  BY <1>1, <1>6, <1>7, <1>8, <1>9, <1>10, <1>12 DEF LifeInv, World

LEMMA ReapKeeps ==
  ASSUME LifeInv, reap_under
  PROVE  LifeInv'
  <1>1. /\ SameWorld /\ daemon' = daemon /\ quiet' = quiet /\ spared' = spared /\ blind' = blind
        /\ cli.pc = "sweep"
    BY DEF reap_under, SameWorld, At
  <1>2. World /\ cli.on \in Dirs
    BY <1>1, InvWorld, CliIs DEF LifeInv, Course, Busy
  <1>3. PICK M \in SUBSET Live : M = Ours(cli.on)
    BY DEF Ours
  <1>4. PICK homes \in SUBSET Homes : homes = {cli.on, Default}
    BY <1>2 DEF Homes
  <1>5. PICK S \in Plans(M, homes) : cli' = [cli EXCEPT !.pc = "steps", !.plan = S, !.held = M]
    BY <1>3, <1>4 DEF reap_under
  <1>6. \A p \in M : proc[p].home \in Homes => proc[p].home \in homes
    BY <1>2, <1>3, <1>4 DEF World, TableIsTrue, Ours, Homes
  <1> QED  BY <1>1, <1>3, <1>5, <1>6, PlanMade

LEMMA ScanKeeps ==
  ASSUME LifeInv, scan_all
  PROVE  LifeInv'
  <1>1. /\ SameWorld /\ daemon' = daemon /\ quiet' = quiet /\ spared' = spared /\ blind' = blind
        /\ cli.pc = "gscan"
    BY DEF scan_all, SameWorld, At
  <1>2. cli.cmd \notin Own
    BY <1>1 DEF LifeInv, Course, Own, Busy
  <1>3. PICK M \in SUBSET Live : M = Live
    OBVIOUS
  <1>4. PICK homes \in SUBSET Homes : homes = {Default} \cup ({proc[p].home : p \in Live} \cap Dirs)
    BY DEF Homes
  <1>5. PICK S \in Plans(M, homes) : cli' = [cli EXCEPT !.pc = "steps", !.plan = S, !.held = M]
    BY <1>3, <1>4 DEF scan_all
  <1>6. \A p \in M : proc[p].home \in Homes => proc[p].home \in homes
    BY <1>3, <1>4 DEF Homes
  <1> QED  BY <1>1, <1>2, <1>5, <1>6, PlanMade

\* One step of the sweep is taken; its process is dead or was left alive.
Takes(s) ==
  /\ s \in cli.plan /\ cli.pc = "steps" /\ SameRun /\ cli'.pc = "steps" /\ cli'.plan = cli.plan \ {s}
  /\ cli'.held = cli.held /\ cli'.failed = cli.failed /\ quiet' = quiet /\ blind' = blind
  /\ spared \subseteq spared' /\ spared' \subseteq Pids /\ daemon' \subseteq Homes
  /\ s.pid \in Live' => s.pid \in spared'

LEMMA TakesKeeps ==
  ASSUME LifeInv, World', Wanes, NEW s, Takes(s)
  PROVE  LifeInv'
  <1>1. LifeTypes'
    BY DEF LifeInv, LifeTypes, World, Tables, Procs, Takes, SameRun
  <1>2. Course'
    BY DEF LifeInv, Course, Takes, SameRun
  <1>3. PlanKnowsHome' /\ PlanIsOurs'
    BY WanesPlan DEF Takes, SameRun
  <1>4. StopProgress'
    <2>1. SUFFICES ASSUME cli.cmd = "stop", ~cli.failed, cli.on \notin blind \cup cli.meddled
                   PROVE  Entries(cli.on)' = {} /\ Accounted(cli.on, {x.pid : x \in cli.plan})'
      BY DEF StopProgress, SameRun, Takes
    <2>2. PICK o \in Homes : o = cli.on /\ o = cli'.on
      BY <2>1 DEF LifeInv, Course, Takes, SameRun, Homes
    <2>3. PICK P : P = {x.pid : x \in cli.plan}
      OBVIOUS
    <2>4. Entries(o) = {} /\ Accounted(o, P)
      BY <2>1, <2>2, <2>3 DEF LifeInv, StopProgress, Takes, SameRun
    <2>5. Entries(o)' = {} /\ Accounted(o, P)'
      BY <2>4, InvWorld, WanesSets, WanesAccounted DEF Takes
    <2>6. \A p \in P : p = s.pid \/ p \in {x.pid : x \in cli'.plan}
      BY <2>3 DEF Takes
    <2>7. s.pid \in Ours(o)' => s.pid \in spared'
      BY DEF Takes, Ours
    <2>8. \A p \in Ours(o)' : p \in spared' \/ proc'[p].home = Default \/ p \in {x.pid : x \in cli'.plan}
      BY <2>5, <2>6, <2>7 DEF Accounted
    <2> QED  BY <2>2, <2>5, <2>8 DEF Accounted
  <1>5. (\A e \in quiet \ blind : Entries(e) = {} /\ Accounted(e, {}))'
    BY WanesQuiet DEF Takes
  <1>6. QuietStays'
    BY <1>5 DEF LifeInv, QuietStays, SameRun, Takes
  <1> QED  BY <1>1, <1>2, <1>3, <1>4, <1>6 DEF LifeInv, World

LEMMA StepTakes ==
  ASSUME LifeInv, cli.pc = "steps", NEW s \in cli.plan, NEW K, StepDone(s, K),
         s.pid \in Live' => s.pid \in Live \ K,
         quiet' = quiet, blind' = blind, daemon' \subseteq Homes
  PROVE  Takes(s)
  <1>1. Busy /\ cli \in Commands /\ spared \subseteq Pids
    BY CliIs DEF Busy, LifeInv, LifeTypes
  <1>2. cli' = [cli EXCEPT !.plan = @ \ {s}] /\ spared' = spared \cup ({s.pid} \cap (Live \ K))
    BY DEF StepDone
  <1>3. /\ SameRun /\ cli'.pc = "steps" /\ cli'.plan = cli.plan \ {s} /\ cli'.held = cli.held
        /\ cli'.failed = cli.failed
    BY <1>1, <1>2 DEF SameRun, Commands, Busy
  <1>4. spared \subseteq spared' /\ spared' \subseteq Pids
    BY <1>1, <1>2 DEF Live
  <1> QED  BY <1>2, <1>3, <1>4 DEF Takes

\* A daemon closes the entry its step names.
LEMMA ViaDaemonDoes ==
  ASSUME LifeInv, execute_via_daemon
  PROVE  \E s \in cli.plan :
           /\ World' /\ Wanes /\ Takes(s) /\ s.via \in Homes /\ s.app \in Apps
           /\ table[s.via][s.app] # Nothing
           /\ \A p \in Live \ Live' : proc[p].dir = table[s.via][s.app].dir
  <1>1. cli.pc = "steps" /\ Busy /\ cli \in Commands /\ quiet' = quiet /\ blind' = blind
        /\ World /\ daemon \subseteq Homes
    BY CliIs, InvWorld DEF execute_via_daemon, At, Busy, LifeInv, LifeTypes, CliPcs
  <1>2. PICK s \in cli.plan :
          LET K == IF table[s.via][s.app] = Nothing THEN {} ELSE {table[s.via][s.app].pid} \cap Live
          IN  /\ s.via # Nothing /\ table[s.via][s.app] # Nothing
              /\ CallWorks(s.via)
              /\ table' = Without(s.via, s.app) /\ proc' = Ended(K)
              /\ StepDone(s, K)
    BY DEF execute_via_daemon
  <1>3. PICK h \in Homes, a \in Apps : h = s.via /\ a = s.app
    BY <1>1, <1>2 DEF Commands, StepRecs
  <1>4. PICK K : K = {table[h][a].pid} \cap Live
    OBVIOUS
  <1>5. /\ table[h][a] # Nothing /\ CallWorks(h) /\ table' = [table EXCEPT ![h][a] = Nothing]
        /\ proc' = Ended(K) /\ StepDone(s, K)
    BY <1>2, <1>3, <1>4 DEF Without
  <1>6. World' /\ Wanes /\ Live' = Live \ K
    <2>1. /\ table' \in Tables /\ table'[h][a] = Nothing
          /\ \A k \in Homes, b \in Apps : (k # h \/ b # a) => table'[k][b] = table[k][b]
      BY <1>1, <1>5 DEF World, Tables
    <2>2. proc' = Ended(K) /\ \A p \in K : table[h][a] # Nothing /\ p = table[h][a].pid
      BY <1>4, <1>5
    <2> QED  BY <1>1, <2>1, <2>2, CloseTrue
  <1>7. daemon' \subseteq Homes
    BY <1>1, <1>5 DEF CallWorks
  <1>8. Takes(s)
    BY <1>1, <1>5, <1>6, <1>7, StepTakes
  <1>9. \A p \in Live \ Live' : proc[p].dir = table[h][a].dir
    BY <1>1, <1>4, <1>5, <1>6, EntryProcess
  <1> QED  BY <1>3, <1>5, <1>6, <1>8, <1>9

LEMMA SkipDoes ==
  ASSUME LifeInv, execute_skip
  PROVE  World' /\ Wanes /\ Live' = Live /\ \E s \in cli.plan : Takes(s)
  <1>1. /\ cli.pc = "steps" /\ quiet' = quiet /\ blind' = blind /\ SameWorld /\ daemon' \subseteq Homes
    BY DEF execute_skip, At, SameWorld, LifeInv, LifeTypes
  <1>2. World' /\ Wanes /\ Live' = Live
    BY <1>1, InvWorld, SameWorldIs
  <1>3. PICK s \in cli.plan : StepDone(s, {})
    BY DEF execute_skip
  <1>4. Takes(s)
    BY <1>1, <1>2, <1>3, StepTakes
  <1> QED  BY <1>2, <1>4

\* A kill that the gate allows ends the step's process and no other, and no
\* table of a running daemon has it.
LEMMA KillDoes ==
  ASSUME LifeInv, execute_kill
  PROVE  \E s \in cli.plan :
           /\ World' /\ Wanes /\ Takes(s) /\ Live \ Live' \subseteq {s.pid}
           /\ \A h \in daemon, a \in Apps : table'[h][a] = table[h][a]
  <1>1. cli.pc = "steps" /\ Busy /\ cli \in Commands /\ quiet' = quiet /\ blind' = blind
        /\ World /\ daemon \subseteq Homes /\ daemon' = daemon
    BY CliIs, InvWorld DEF execute_kill, At, Busy, LifeInv, LifeTypes, CliPcs
  <1>2. PICK s \in cli.plan :
          /\ KillAllowed(s)
          /\ \/ /\ proc' = Ended({s.pid} \cap Live)
                /\ table' = Seen(table, {s.pid} \cap Live, daemon)
                /\ StepDone(s, {s.pid})
             \/ StepDone(s, {}) /\ UNCHANGED <<table, proc>>
    BY DEF execute_kill
  <1>3. CASE StepDone(s, {}) /\ UNCHANGED <<table, proc>>
    <2>1. World' /\ Wanes /\ Live' = Live
      BY <1>1, <1>3, SameWorldIs DEF SameWorld
    <2>2. Takes(s)
      BY <1>1, <1>3, <2>1, StepTakes
    <2> QED  BY <1>3, <2>1, <2>2
  <1>4. CASE /\ proc' = Ended({s.pid} \cap Live) /\ table' = Seen(table, {s.pid} \cap Live, daemon)
             /\ StepDone(s, {s.pid})
    <2>1. PICK K \in SUBSET Pids : K = {s.pid} \cap Live
      BY DEF Live
    <2>2. World' /\ Wanes /\ Live' = Live \ K
      BY <1>1, <1>4, <2>1, SeenTrue
    <2>3. Takes(s)
      BY <1>1, <1>4, <2>1, <2>2, StepTakes
    <2>4. ASSUME NEW h \in daemon, NEW a \in Apps
          PROVE  table'[h][a] = table[h][a]
      <3>1. h \in Homes /\ table \in Tables
        BY <1>1 DEF World
      <3>2. table' = Seen(table, K, daemon)
        BY <1>4, <2>1
      <3>3. table'[h][a] = table[h][a] \/ (table[h][a] # Nothing /\ table[h][a].pid \in K)
        BY <3>1, <3>2, SeenIs
      <3>4. ASSUME table[h][a] # Nothing, table[h][a].pid \in K
            PROVE  FALSE
        <4>1. a \in Entries(h) /\ table[h][a].pid = s.pid
          BY <2>1, <3>4 DEF Entries
        <4>2. h = s.via
          BY <1>1, <3>1, <4>1 DEF LifeInv, PlanKnowsHome
        <4>3. Nothing \notin Homes
          BY LifeAssumption DEF Homes
        <4> QED  BY <1>2, <3>1, <4>2, <4>3 DEF KillAllowed
      <3> QED  BY <3>3, <3>4
    <2> QED  BY <2>1, <2>2, <2>3, <2>4
  <1> QED  BY <1>2, <1>3, <1>4

LEMMA LifeStutter ==
  ASSUME LifeInv, UNCHANGED procVars PROVE LifeInv'
  <1>1. SameWorld /\ spared' = spared /\ Elsewhere
    BY DEF procVars, SameWorld, Elsewhere, LifeInv, LifeTypes
  <1>2. World' /\ Wanes /\ \A k : Entries(k)' = Entries(k)
    BY <1>1, InvWorld, SameWorldIs
  <1> QED  BY <1>1, <1>2, WanesElsewhere

LEMMA LifeInitially == LifeInit => LifeInv
  <1>1. SUFFICES ASSUME LifeInit PROVE LifeInv
    OBVIOUS
  <1>2. PICK up \in SUBSET Dirs, old \in Dirs \cup {Nothing} :
          /\ daemon = up \cup {Default}
          /\ table = [h \in Homes |-> [a \in Apps |->
               IF h \in up THEN EntryOf(h)
               ELSE IF h = Default /\ old # Nothing THEN EntryOf(old) ELSE Nothing]]
    BY <1>1 DEF LifeInit
  <1>3. /\ proc = [p \in Pids |-> Nothing] /\ cli = Idle /\ quiet = {} /\ spared = {} /\ blind = {}
    BY <1>1 DEF LifeInit
  <1>4. \A d \in Dirs : EntryOf(d) \in EntryRecs /\ EntryOf(d).dir = d /\ EntryOf(d).pid = Nothing
    BY DEF EntryOf, EntryRecs
  <1>5. ASSUME NEW h \in Homes, NEW a \in Apps
        PROVE  /\ table[h][a] \in EntryRecs \cup {Nothing}
               /\ table[h][a] # Nothing => table[h][a].pid = Nothing /\ (h \in Dirs => table[h][a].dir = h)
    <2>1. table[h][a] = IF h \in up THEN EntryOf(h)
                        ELSE IF h = Default /\ old # Nothing THEN EntryOf(old) ELSE Nothing
      BY <1>2
    <2>2. Default \notin Dirs
      BY LifeAssumption
    <2> QED  BY <1>4, <2>1, <2>2
  <1>6. table \in [Homes -> [Apps -> EntryRecs \cup {Nothing}]]
    <2>1. table = [h \in Homes |-> [a \in Apps |-> table[h][a]]]
      BY <1>2
    <2> QED  BY <1>5, <2>1
  <1>7. LifeTypes
    BY <1>2, <1>3, <1>6 DEF LifeTypes, Homes
  <1>8. TableIsTrue
    <2>1. Nothing \notin Pids
      BY LifeAssumption
    <2>2. Live = {}
      BY <1>3 DEF Live
    <2> QED  BY <1>5, <2>1, <2>2 DEF TableIsTrue, Entries
  <1>9. ~Busy
    BY <1>3 DEF Busy, Idle
  <1> QED  BY <1>3, <1>7, <1>8, <1>9 DEF LifeInv, Course, PlanKnowsHome, PlanIsOurs, StopProgress, QuietStays

LEMMA LifeStep ==
  ASSUME LifeInv, [LifeNext]_procVars
  PROVE  LifeInv'
  <1>1. CASE \E h \in Homes : DaemonDies(h) \/ DaemonReturns(h) \/ \E a \in Apps : Revive(h, a)
    BY <1>1, DaemonsKeep, ReviveKeeps
  <1>2. CASE \E p \in Pids : BindPort(p) \/ ProcessDies(p)
    BY <1>2, BindKeeps, DeathKeeps
  <1>3. CASE Reboot
    BY <1>3, RebootKeeps
  <1>4. CASE \E a \in Apps, d \in Dirs : HandStart(a, d, d) \/ HandStart(a, d, Root)
    BY <1>4, HandKeeps
  <1>5. CASE \/ \E d \in Dirs, web \in BOOLEAN : cmd_start(d, web) \/ cmd_restart(d, web)
             \/ (\E d \in Dirs : cmd_stop(d)) \/ cmd_stop_global
    BY <1>5, BeginKeeps DEF cmd_start, cmd_restart, cmd_stop, cmd_stop_global, CliPcs
  <1>6. CASE start_impl \/ names_done \/ steps_done \/ stop_daemon
    BY <1>6, MovesKeep
  <1>7. CASE contention_refused \/ global_final
    BY <1>7, RefusalKeeps
  <1>8. CASE contention_takeover
    BY <1>8, TakeoverKeeps
  <1>9. CASE apply_oxfile
    BY <1>9, ApplyKeeps
  <1>10. CASE list_registered_apps
    BY <1>10, ListKeeps
  <1>11. CASE stop_cluster
    BY <1>11, StopClusterKeeps
  <1>12. CASE reap_under \/ scan_all
    BY <1>12, ReapKeeps, ScanKeeps
  <1>13. CASE execute_via_daemon
    BY <1>13, ViaDaemonDoes, TakesKeeps
  <1>14. CASE execute_skip
    BY <1>14, SkipDoes, TakesKeeps
  <1>15. CASE execute_kill
    BY <1>15, KillDoes, TakesKeeps
  <1>16. CASE verify_scan \/ verify_ports_attribution
    BY <1>16, VerifyKeeps
  <1>17. CASE UNCHANGED procVars
    BY <1>17, LifeStutter
  <1> QED  BY <1>1, <1>2, <1>3, <1>4, <1>5, <1>6, <1>7, <1>8, <1>9, <1>10, <1>11, <1>12, <1>13,
              <1>14, <1>15, <1>16, <1>17 DEF LifeNext

\* The processes that a step of an instance's own command ends.
Spares ==
  (cli # cli' /\ Busy /\ cli.cmd \in Own) =>
    \A p \in Live : proc'[p] = Nothing => proc[p].dir = cli.on \/ \E s \in cli.plan : s.above

LEMMA UntouchedSpares ==
  ASSUME \A p \in Live : proc'[p] # Nothing
  PROVE  Spares
  BY DEF Spares

LEMMA SameProcSpares == proc' = proc => Spares
  BY DEF Spares, Live

LEMMA HandSpares ==
  ASSUME LifeInv, NEW a \in Apps, NEW d \in Dirs, NEW cwd \in {d, Root}, HandStart(a, d, cwd)
  PROVE  Spares
  <1>1. PICK p \in Fresh : proc' = [proc EXCEPT ![p] = Launch(a, d, cwd, Nothing)]
    BY DEF HandStart
  <1>2. \A q \in Live : q # p
    BY <1>1, FreshIs
  <1>3. proc \in Procs
    BY DEF LifeInv, LifeTypes, Procs
  <1>4. \A q \in Live : proc'[q] = proc[q]
    BY <1>1, <1>2, <1>3 DEF Live, Procs
  <1> QED  BY <1>4 DEF Spares, Live

LEMMA SweepSpares ==
  ASSUME LifeInv, execute_via_daemon \/ execute_skip \/ execute_kill
  PROVE  Spares
  <1>1. SUFFICES ASSUME Busy, cli.cmd \in Own, NEW p \in Live, proc'[p] = Nothing
                 PROVE  proc[p].dir = cli.on \/ \E s \in cli.plan : s.above
    BY DEF Spares
  <1>2. p \in Live \ Live'
    BY <1>1 DEF Live
  <1>3. PlanIsOurs /\ PlanKnowsHome
    BY DEF LifeInv
  <1>4. CASE execute_via_daemon
    <2>1. PICK s \in cli.plan :
            /\ s.via \in Homes /\ table[s.via][s.app] # Nothing
            /\ \A q \in Live \ Live' : proc[q].dir = table[s.via][s.app].dir
      BY <1>4, ViaDaemonDoes
    <2>2. s.via # Nothing
      BY <2>1, LifeAssumption DEF Homes
    <2>3. CASE s.above
      BY <2>3
    <2>4. CASE ~s.above
      BY <1>1, <1>2, <1>3, <2>1, <2>2, <2>4 DEF PlanIsOurs
    <2> QED  BY <2>3, <2>4
  <1>5. CASE execute_skip
    BY <1>2, <1>5, SkipDoes
  <1>6. CASE execute_kill
    <2>1. PICK s \in cli.plan : Live \ Live' \subseteq {s.pid}
      BY <1>6, KillDoes
    <2>2. p = s.pid /\ s.pid \in cli.held
      BY <1>1, <1>2, <1>3, <2>1 DEF PlanKnowsHome
    <2> QED  BY <1>1, <1>3, <2>2 DEF PlanIsOurs
  <1> QED  BY <1>4, <1>5, <1>6

LEMMA LifeSpares ==
  ASSUME LifeInv, [LifeNext]_procVars
  PROVE  Spares
  <1>1. CASE \E h \in Homes : DaemonDies(h) \/ DaemonReturns(h) \/ \E a \in Apps : Revive(h, a)
    BY <1>1 DEF DaemonDies, DaemonReturns, Revive, Spares
  <1>2. CASE \E p \in Pids : BindPort(p) \/ ProcessDies(p)
    BY <1>2 DEF BindPort, ProcessDies, Spares
  <1>3. CASE Reboot
    BY <1>3 DEF Reboot, Spares
  <1>4. CASE \E a \in Apps, d \in Dirs : HandStart(a, d, d) \/ HandStart(a, d, Root)
    BY <1>4, HandSpares
  <1>5. CASE \/ \E d \in Dirs, web \in BOOLEAN : cmd_start(d, web) \/ cmd_restart(d, web)
             \/ (\E d \in Dirs : cmd_stop(d)) \/ cmd_stop_global
    BY <1>5, SameProcSpares DEF cmd_start, cmd_restart, cmd_stop, cmd_stop_global, Begin
  <1>6. CASE start_impl \/ names_done \/ steps_done \/ stop_daemon
    BY <1>6, SameProcSpares DEF start_impl, names_done, steps_done, stop_daemon
  <1>7. CASE contention_refused \/ global_final \/ contention_takeover
    BY <1>7, SameProcSpares DEF contention_refused, global_final, contention_takeover
  <1>8. CASE list_registered_apps \/ reap_under \/ scan_all
    BY <1>8, SameProcSpares DEF list_registered_apps, reap_under, scan_all
  <1>9. CASE verify_scan \/ verify_ports_attribution
    BY <1>9, SameProcSpares DEF verify_scan, verify_ports_attribution
  <1>10. CASE apply_oxfile
    <2>1. \A p \in Live \ Live' : proc[p].dir = cli.dir
      BY <1>10, ApplyHarms
    <2>2. Busy /\ cli.cmd \in Own => cli.on = cli.dir
      BY DEF LifeInv, Course
    <2> QED  BY <2>1, <2>2 DEF Spares, Live
  <1>11. CASE stop_cluster
    <2>1. \A p \in Live \ Live' : proc[p].dir = cli.on
      BY <1>11, StopClusterDoes
    <2> QED  BY <2>1 DEF Spares, Live
  <1>12. CASE execute_via_daemon \/ execute_skip \/ execute_kill
    BY <1>12, SweepSpares
  <1>13. CASE UNCHANGED procVars
    BY <1>13, SameProcSpares DEF procVars
  <1> QED  BY <1>1, <1>2, <1>3, <1>4, <1>5, <1>6, <1>7, <1>8, <1>9, <1>10, <1>11, <1>12, <1>13 DEF LifeNext

(***************************************************************************)
(* StopSticks: after a stop that returned 0 nothing of the instance runs   *)
(* but what the sweep left alive or the default daemon revived from an old *)
(* entry, for any number of instances, processes, daemons, commands and    *)
(* faults: the names of the table, then the steps of the plan account for  *)
(* every process, and an empty table revives none.                         *)
(***************************************************************************)
THEOREM StopSticksHolds == LifeSpec => []StopSticks
  <1>1. LifeInv => StopSticks
    BY DEF LifeInv, QuietStays, Accounted, StopSticks
  <1>2. LifeInv /\ [LifeNext]_procVars => LifeInv'
    BY LifeStep
  <1> QED  BY <1>1, <1>2, LifeInitially, PTL DEF LifeSpec

(***************************************************************************)
(* StopSparesOthers: a step of stop, start or restart ends no process of   *)
(* another instance, but for what a process started above the instances is *)
(* taken for.                                                              *)
(***************************************************************************)
THEOREM StopSparesOthersHolds == LifeSpec => StopSparesOthers
  <1>1. LifeInv /\ [LifeNext]_procVars =>
          [(cli # cli' /\ Busy /\ cli.cmd \in {"start", "stop", "restart"}) =>
             \A p \in Live : proc'[p] = Nothing =>
               \/ proc[p].dir = cli.on
               \/ \E s \in cli.plan : s.above]_procVars
    BY LifeSpares DEF Spares, Own
  <1>2. LifeInv /\ [LifeNext]_procVars => LifeInv'
    BY LifeStep
  <1> QED  BY <1>1, <1>2, LifeInitially, PTL DEF LifeSpec, StopSparesOthers

(***************************************************************************)
(* KillsStayDead: a direct kill of the sweep changes no entry of a running *)
(* daemon, so none of them sees a death to repair.                         *)
(***************************************************************************)
THEOREM KillsStayDeadHolds == LifeSpec => KillsStayDead
  <1>1. LifeInv /\ [LifeNext]_procVars =>
          [execute_kill => \A h \in daemon, a \in Apps : table'[h][a] = table[h][a]]_procVars
    BY KillDoes
  <1>2. LifeInv /\ [LifeNext]_procVars => LifeInv'
    BY LifeStep
  <1> QED  BY <1>1, <1>2, LifeInitially, PTL DEF LifeSpec, KillsStayDead

\* The types of the process model.
THEOREM LifeTypesHold == LifeSpec => []LifeTypeOK
  <1>1. LifeInv => LifeTypeOK
    BY DEF LifeInv, LifeTypes, LifeTypeOK
  <1>2. LifeInv /\ [LifeNext]_procVars => LifeInv'
    BY LifeStep
  <1> QED  BY <1>1, <1>2, LifeInitially, PTL DEF LifeSpec
=============================================================================
