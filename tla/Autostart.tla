------------------------------ MODULE Autostart ------------------------------
(***************************************************************************)
(* Boot registration: `startup on|off` of the server's and of the host's   *)
(* CLI over the same directory of systemd user units (server               *)
(* lifecycle/startup.rs; host bin/host.rs, a mirror of it).  A unit is     *)
(* named after an instance directory and the brand of the binary.  `on`    *)
(* reads the other units and the ports in their instances' files, decides, *)
(* may ask the operator, then writes and enables; it holds no lock, so the *)
(* other CLI runs between any two of its steps.  systemd is external.      *)
(***************************************************************************)
EXTENDS Naturals, FiniteSets

CONSTANTS Servers, Hosts,  \* instance directories of the two domains
          UnitBrands,      \* the brands a binary may carry
          Ports,
          DefaultPort,     \* the gateway port of a host that configures none
          WeaknetPort,     \* the port in the oxfile of a server
          Unset,           \* the host.yaml has no local_port
          Clis,            \* CLI processes
          MaxOps,          \* bound: startup commands
          MaxSlips         \* bound: failing systemctl or rm, edited ports

VARIABLES units,           \* units[u]: "none", "written" or "enabled"
          port,            \* port[d]: the port in the instance's configuration
          reg,             \* reg[c]: the command CLI c runs
          ops, slips,
          \* history
          warned,          \* pairs of units the operator was shown as clashing
          raced,           \* pairs registered at the same time
          moved            \* pairs whose ports changed since they were compared

regVars == <<units, port, reg, ops, slips, warned, raced, moved>>

\* A directory is an instance of one domain.
ASSUME RegAssumption == Servers \cap Hosts = {}

Instances == Servers \cup Hosts
Units == Instances \X UnitBrands
NoOp == [pc |-> "none"]
Present == {u \in Units : units[u] # "none"}
SameDomain(d, e) == {d, e} \subseteq Servers \/ {d, e} \subseteq Hosts

\* The ports an instance binds.
RealPorts(d) == IF d \in Servers THEN {port[d], WeaknetPort}
                ELSE {IF port[d] = Unset THEN DefaultPort ELSE port[d]}

\* instance_ports: server.yaml, Caddyfile and the oxfile's --listen.
server_instance_ports(d) == IF d \in Servers THEN {port[d], WeaknetPort} ELSE {}

\* startup_instance_ports: host.yaml's local_port and the oxfile's --listen.
host_instance_ports(d) == IF d \in Servers THEN {WeaknetPort} ELSE {port[d]} \ {Unset}

PortsRead(me, d) == IF me \in Servers THEN server_instance_ports(d) ELSE host_instance_ports(d)

\* Mutant: only units of the running brand are recognised.
classify_own_brand(u, b) == u[2] = b

\* Both domains' units of every known brand are recognised.
classify_unit(u, b) == b \in UnitBrands

\* The other units, and those whose ports meet mine.
collect_conflicts(me) == {u \in Present \ {me} : classify_unit(u, me[2])}
Overlapping(me, C) == {u \in C : PortsRead(me[1], me[1]) \cap PortsRead(me[1], u[1]) # {}}

decide_v2(me, C, tty) ==
  LET hit == Overlapping(me, C)
      same == {u \in hit : SameDomain(u[1], me[1])}
  IN  IF hit = {} \/ ~tty THEN "write"
      ELSE IF same # {} THEN "ask-same" ELSE "ask-cross"

RegInit ==
  /\ units = [u \in Units |-> "none"]
  /\ port \in [Instances -> Ports \cup {Unset}] /\ \A d \in Servers : port[d] # Unset
  /\ reg = [c \in Clis |-> NoOp]
  /\ ops = 0 /\ slips = 0
  /\ warned = {} /\ raced = {} /\ moved = {}

Slip == slips < MaxSlips /\ slips' = slips + 1
Start(c) == reg[c] = NoOp /\ ops < MaxOps /\ ops' = ops + 1
End(c) == reg' = [reg EXCEPT ![c] = NoOp]
PairsOf(u) == {{u, v} : v \in Units}
Registering == {reg[c].me : c \in {k \in Clis : reg[k].pc \in {"write", "ask-same", "ask-cross"}}}
regHist == <<warned, raced, moved>>

\* startup_install up to its decision: one pass over the unit directory.
startup_on(c, me, tty) ==
  /\ Start(c)
  /\ LET C == collect_conflicts(me) IN
     /\ reg' = [reg EXCEPT ![c] = [pc |-> decide_v2(me, C, tty), me |-> me, seen |-> C]]
     /\ warned' = (warned \ PairsOf(me)) \cup {{me, u} : u \in Overlapping(me, C)}
  /\ raced' = (raced \ PairsOf(me)) \cup {{me, u} : u \in Registering}
  /\ moved' = moved \ PairsOf(me)
  /\ UNCHANGED <<units, port, slips>>

\* disable and rm of every unit of R; both results are ignored.
Unenroll(R) ==
  \/ /\ units' = [u \in Units |-> IF u \in R THEN "none" ELSE units[u]]
     /\ UNCHANGED slips
  \/ \E u \in R : \E left \in {"written", units[u]} :
       /\ Slip
       /\ units' = [v \in Units |-> IF v = u THEN left ELSE IF v \in R THEN "none" ELSE units[v]]

\* [2]: every unit of the same domain goes, also those that do not overlap.
answer_same(c) ==
  /\ reg[c].pc = "ask-same"
  /\ Unenroll({u \in reg[c].seen \cap Present : SameDomain(u[1], reg[c].me[1])})
  /\ reg' = [reg EXCEPT ![c].pc = "write"]
  /\ UNCHANGED <<port, ops, regHist>>

\* [1]: the overlapping units of the other domain go.  [3]: nothing goes.
answer_cross(c) ==
  /\ reg[c].pc = "ask-cross"
  /\ \/ Unenroll(Overlapping(reg[c].me, reg[c].seen) \cap Present)
     \/ UNCHANGED <<units, slips>>
  /\ reg' = [reg EXCEPT ![c].pc = "write"]
  /\ UNCHANGED <<port, ops, regHist>>

answer_cancel(c) ==
  /\ reg[c].pc \in {"ask-same", "ask-cross"}
  /\ End(c)
  /\ UNCHANGED <<units, port, ops, slips, regHist>>

\* The unit is overwritten; an enabled one stays enabled.
write_unit(c) ==
  /\ reg[c].pc = "write"
  /\ \/ /\ units' = [units EXCEPT ![reg[c].me] = IF @ = "enabled" THEN @ ELSE "written"]
        /\ reg' = [reg EXCEPT ![c].pc = "enable"]
        /\ UNCHANGED slips
     \/ Slip /\ End(c) /\ UNCHANGED units
  /\ UNCHANGED <<port, ops, regHist>>

\* enable fails for a unit another CLI removed meanwhile.
enable_unit(c) ==
  /\ reg[c].pc = "enable"
  /\ \/ /\ reg[c].me \in Present
        /\ units' = [units EXCEPT ![reg[c].me] = "enabled"]
        /\ UNCHANGED slips
     \/ reg[c].me \notin Present /\ UNCHANGED <<units, slips>>
     \/ Slip /\ UNCHANGED units
  /\ End(c)
  /\ UNCHANGED <<port, ops, regHist>>

startup_uninstall(c, me) ==
  /\ Start(c) /\ me \in Present
  /\ Unenroll({me})
  /\ UNCHANGED <<port, reg, regHist>>

\* off without a directory: the only unit, whatever its domain; of many the
\* operator picks one or all, without a terminal none goes.
startup_off_all(c, tty) ==
  /\ Start(c) /\ Present # {}
  /\ \E R \in SUBSET Present :
       /\ Cardinality(R) = 1 \/ (tty /\ R = Present)
       /\ tty \/ R = Present
       /\ Unenroll(R)
  /\ UNCHANGED <<port, reg, regHist>>

\* The operator changes the port in an instance's configuration.
EditPort(d, p) ==
  /\ Slip /\ p # port[d]
  /\ port' = [port EXCEPT ![d] = p]
  /\ moved' = moved \cup UNION {PairsOf(<<d, b>>) : b \in UnitBrands}
  /\ UNCHANGED <<units, reg, ops, warned, raced>>

RegNext ==
  \/ \E c \in Clis, u \in Units : \/ startup_uninstall(c, u)
                                  \/ \E tty \in BOOLEAN : startup_on(c, u, tty)
  \/ \E c \in Clis : \/ answer_same(c) \/ answer_cross(c) \/ answer_cancel(c)
                     \/ write_unit(c) \/ enable_unit(c)
                     \/ \E tty \in BOOLEAN : startup_off_all(c, tty)
  \/ \E d \in Instances, p \in Ports : EditPort(d, p)

RegSpec == RegInit /\ [][RegNext]_regVars

(***************************************************************************)
(* Properties                                                              *)
(***************************************************************************)
RegTypeOK ==
  /\ units \in [Units -> {"none", "written", "enabled"}]
  /\ port \in [Instances -> Ports \cup {Unset}]
  /\ \A c \in Clis : reg[c] = NoOp \/ reg[c].me \in Units
  /\ UNION (warned \cup raced \cup moved) \subseteq Units

(* No boot clash is silent: two enabled units of one domain whose          *)
(* configured ports meet were shown to the operator as clashing, through   *)
(* any order of registrations, un-enrolments, failing calls and brands,    *)
(* unless they were registered at the same time or a port changed since.   *)
(* The default port of a host is not configured and not compared.          *)
ClashIsShown ==
  \A u, v \in Units :
    (/\ u # v /\ units[u] = "enabled" /\ units[v] = "enabled"
     /\ SameDomain(u[1], v[1]) /\ Unset \notin {port[u[1]], port[v[1]]}
     /\ RealPorts(u[1]) \cap RealPorts(v[1]) # {})
      => {u, v} \in warned \cup raced \cup moved
=============================================================================
