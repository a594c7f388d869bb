-------------------------- MODULE MCServerInstance --------------------------
(* The three models of a server instance's command line, each on its own:  *)
(* a behaviour runs one of them and leaves the variables of the others at  *)
(* fixed values.                                                           *)
EXTENDS ServerFiles, ServerLifecycle, Autostart, TLC

VARIABLE focus

all == <<focus, fileVars, procVars, regVars>>

FilesParked ==
  /\ ox = NoFile /\ oxbak = NoFile /\ caddy = NoFile /\ yaml = FALSE
  /\ accounts = NoFile /\ wbin = NoFile /\ prog = Stopped
  /\ edits = 0 /\ kills = 0 /\ owed = {} /\ told = {} /\ torn = FALSE
LifeParked ==
  /\ daemon = {} /\ table = [h \in Homes |-> [a \in Apps |-> Nothing]]
  /\ proc = [p \in Pids |-> Nothing] /\ cli = Idle
  /\ cmds = 0 /\ faults = 0 /\ hands = 0 /\ quiet = {} /\ spared = {} /\ blind = {}
RegParked ==
  /\ units = [u \in Units |-> "none"] /\ port = [d \in Instances |-> Unset]
  /\ reg = [c \in Clis |-> NoOp] /\ ops = 0 /\ slips = 0
  /\ warned = {} /\ raced = {} /\ moved = {}

MCInit ==
  \/ focus = "files" /\ FilesInit /\ LifeParked /\ RegParked
  \/ focus = "processes" /\ LifeInit /\ FilesParked /\ RegParked
  \/ focus = "autostart" /\ RegInit /\ FilesParked /\ LifeParked

MCNext ==
  \/ focus = "files" /\ FilesNext /\ UNCHANGED <<focus, procVars, regVars>>
  \/ focus = "processes" /\ LifeNext /\ UNCHANGED <<focus, fileVars, regVars>>
  \/ focus = "autostart" /\ RegNext /\ UNCHANGED <<focus, fileVars, procVars>>

MCSpec == MCInit /\ [][MCNext]_all

Symmetry == Permutations(Pids) \cup Permutations(Hosts) \cup Permutations(UnitBrands)
              \cup Permutations(Clis)
=============================================================================
