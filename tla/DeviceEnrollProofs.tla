------------------------- MODULE DeviceEnrollProofs -------------------------
(***************************************************************************)
(* Safety of the registries and their files, for any number of devices,    *)
(* accounts, keys, admin requests and connections, any number of failing   *)
(* file operations and restarts: the types, what the file holds when a     *)
(* registry is at rest, the pending report, the keys, and the refinement   *)
(* of AtomicStore.                                                         *)
(*                                                                         *)
(* Argument for the files.  The temp name and the registry's name never    *)
(* point to the same inode.  While the saves of a file do not overlap, the *)
(* one save that is under way owns the temp name: what it has written is   *)
(* there until it renames or removes it (SaveInv).  So a rename puts the   *)
(* text that was serialized into effect, and nothing else changes what a   *)
(* reader finds.                                                           *)
(***************************************************************************)
EXTENDS DeviceEnroll, FiniteSetTheorems, TLAPS

\* What a name may have as its value, and the texts made of such values.
Forms(n) == IF n \in Devices THEN {"secret"} ELSE IF n = "psk" THEN {"psk"} ELSE Roles
Value(n) == Forms(n) \X (0..MaxGen) \cup (IF n \in Devices THEN Keyed ELSE {}) \cup {None}
GoodText(f) == {t \in Text(f) : \A n \in NamesOf(f) : t[n] \in Value(n)}
AnyText == UNION {GoodText(f) : f \in Files}

SaveSteps == {"create", "write", "rename"}
AdminOps == {"register", "revoke", "reset", "approve", "create", "update", "delete", "rotate"}
Work == [op : AdminOps \cup {"enroll"}, name : Names,
         val : Entry \cup Keyed \cup {None}, kept : Vks \cup {None},
         pc : Steps, snap : AnyText \cup {None}, fd : Inodes \cup {None}]

MemType == /\ mem \in [Names -> Entry \cup Keyed \cup {None}]
           /\ \A n \in Names : mem[n] \in Value(n)

FileType ==
  /\ path \in [Files -> Inodes]
  /\ tmp \in [Files -> Inodes \cup {None}]
  /\ data \in [Files -> [Inodes -> AnyText \cup {Torn, Empty}]]
  /\ \A f \in Files, i \in Inodes : data[f][i] \in GoodText(f) \cup {Torn, Empty}

\* What a request's operation and step say about its fields.
Fields(r) ==
  /\ (r.op = "rotate") = (r.name = "psk")
  /\ r.op = "rotate" => r.val \in {"psk"} \X (0..MaxGen)
  /\ r.op \in {"approve", "enroll"} => r.name \in Devices
  /\ r.op = "approve" => r.kept \in Vks
  /\ r.pc \in {"admit", "restore"} => r.op = "approve"
  /\ r.pc = "effect" => r.op = "rotate"
  /\ r.pc \in SaveSteps \cup {"effect"} => r.snap \in GoodText(FileOf(r.name))
  /\ r.pc \in {"write", "rename"} => r.fd \in Inodes
  /\ r.pc \notin {"write", "rename"} => r.fd = None

\* Only connections enrol, and they do nothing else.
WorkType ==
  /\ req \in [Savers -> Work \cup {Idle}]
  /\ \A s \in Savers : req[s] # Idle => /\ Fields(req[s])
                                        /\ (req[s].op = "enroll") = (s \in Conns)

Handshakes ==
  [pc : {"psk", "join", "challenge", "pend", "enroll", "saving"},
   psk : Entry \cup Keyed \cup {None}, who : {"legacy"} \cup ((Users \cup ApiKeys) \X Roles),
   dev : Devices \cup {None}, offered : Vks \cup {None}, deferred : 0..MaxDeferred]

\* What the step of the handshake k says about its fields.
Shaken(k) ==
  \/ k.pc \in {"free", "in"}
  \/ /\ k \in Handshakes
     /\ k.pc \in {"challenge", "pend", "enroll", "saving"} => k.dev \in Devices
     /\ k.pc \in {"pend", "enroll", "saving"} => k.offered \in Vks

ConnType ==
  /\ DOMAIN conn = Conns
  /\ \A c \in Conns : Shaken(conn[c]) /\ (req[c] # Idle => conn[c].pc = "saving")
  /\ tokens \subseteq (Users \cup ApiKeys) \X Roles

CountType == gen \in 0..MaxGen /\ crashes \in Nat

ReportType == pending \in [Devices -> Vks \cup {None}] /\ DOMAIN reported = Devices

TypeInv == MemType /\ FileType /\ WorkType /\ ConnType /\ CountType /\ ReportType

\* The temp name is never the registry's; a save that overlaps no other owns it.
SaveAt(f) ==
  /\ tmp[f] # path[f]
  /\ (f \notin raced \/ f \notin crossed) =>
       \A s \in InSave(f) :
         /\ \A t \in InSave(f) : t = s
         /\ req[s].pc \in {"write", "rename"} => tmp[f] = req[s].fd
         /\ req[s].pc = "write" => data[f][tmp[f]] = Empty
         /\ req[s].pc = "rename" => data[f][tmp[f]] = req[s].snap

\* Who works on the registry of f.
Working(s, f) == req[s] # Idle /\ FileOf(req[s].name) = f
Same(f) == \A n \in NamesOf(f) : mem[n] = Disk(f)[n]
\* The file is memory but for an entry that is not in the file yet.
SameBut(f, n) == /\ \A m \in NamesOf(f) \ {n} : mem[m] = Disk(f)[m]
                 /\ Disk(f)[n] = None

\* How memory, the text being saved and the file of f are related while s is
\* the only one to work on f.
Progress(s, f) ==
  /\ (req[s].op # "rotate" /\ req[s].pc \in SaveSteps) =>
       \A n \in NamesOf(f) : req[s].snap[n] = mem[n]
  /\ (req[s].op = "rotate" /\ req[s].pc \in SaveSteps) => req[s].snap["psk"] = req[s].val
  /\ req[s].pc = "effect" => Disk(f)["psk"] = req[s].val
  /\ f \notin unsaved =>
       /\ (req[s].op \in {"register", "create", "approve"}
             /\ req[s].pc \in SaveSteps \cup {"serialize", "failed"})
            => SameBut(f, req[s].name)
       /\ (req[s].op = "rotate" /\ req[s].pc # "effect") => Same(f)
       /\ req[s].pc \in {"admit", "restore", "saved"} => Same(f)

SettledAt(f) ==
  f \notin crossed =>
    /\ Disk(f) \in GoodText(f)
    /\ \A s \in Savers : Working(s, f) =>
         /\ \A t \in Savers : Working(t, f) => t = s
         /\ Progress(s, f)
    /\ (Quiet(f) /\ f \notin unsaved) => Same(f)

\* An approval under way holds the device's last report, unless one overtook it.
Approving(s, d) == req[s] # Idle /\ req[s].op = "approve" /\ req[s].name = d
ReportAt(d) ==
  d \notin overtaken =>
    /\ pending[d] # None => pending[d] = reported[d]
    /\ \A s \in Savers : Approving(s, d) => req[s].kept = reported[d]

SaveInv == \A f \in Files : SaveAt(f)
SettledInv == \A f \in Files : SettledAt(f)
ReportInv == \A d \in Devices : ReportAt(d)

IInv == TypeInv /\ SaveInv /\ SettledInv /\ ReportInv

----------------------------------------------------------------------------
\* Names and files.

LEMMA NamesAndFiles ==
  /\ \A n \in Names : FileOf(n) \in Files /\ n \in NamesOf(FileOf(n))
  /\ \A d \in Devices : d \in Names /\ FileOf(d) = "devices"
  /\ \A u \in Users : u \in Names /\ FileOf(u) = "accounts" /\ u \notin Devices
  /\ \A a \in ApiKeys : a \in Names /\ FileOf(a) = "api_keys" /\ a \notin Devices
  /\ "psk" \in Names /\ FileOf("psk") = "server" /\ "psk" \notin Devices
  /\ NamesOf("server") = {"psk"}
  /\ \A f \in Files : NamesOf(f) \subseteq Names
  /\ \A f \in Files : \A n \in NamesOf(f) : FileOf(n) = f
BY NamesApart DEF Names, FileOf, NamesOf, Files

LEMMA GoodTexts ==
  ASSUME NEW f \in Files
  PROVE  /\ GoodText(f) \subseteq AnyText
         /\ Torn \notin GoodText(f) /\ Empty \notin GoodText(f)
         /\ \A t \in GoodText(f) : /\ \A n \in NamesOf(f) : t[n] \in Value(n)
                                  /\ \A u \in GoodText(f) :
                                       (\A n \in NamesOf(f) : t[n] = u[n]) => t = u
<1>1. GoodText(f) \subseteq AnyText
  BY DEF AnyText
<1>2. Torn \notin GoodText(f) /\ Empty \notin GoodText(f)
  BY TextsApart DEF GoodText
<1>3. ASSUME NEW t \in GoodText(f), NEW u \in GoodText(f),
             \A n \in NamesOf(f) : t[n] = u[n]
      PROVE  t = u
  BY <1>3 DEF GoodText, Text
<1>4. QED
  BY <1>1, <1>2, <1>3 DEF GoodText

LEMMA ValueFacts ==
  /\ \A n \in Names : Value(n) \subseteq Entry \cup Keyed \cup {None} /\ None \in Value(n)
  /\ \A n \in Names : \A r \in Forms(n), v \in 0..MaxGen : <<r, v>> \in Value(n) /\ <<r, v>> # None
  /\ \A d \in Devices, vk \in Vks : <<"pubkey", vk>> \in Value(d) /\ <<"pubkey", vk>> # None
  /\ \A n \in Users \cup ApiKeys : \A e \in Value(n) :
        e # None => e[1] \in Roles /\ e[2] \in 0..MaxGen
  /\ \A n \in Names : \A e \in Value(n) : e # None => e[1] \in Forms(n) \cup {"pubkey"}
<1>1. \A n \in Names : Forms(n) \subseteq {"secret", "psk"} \cup Roles
  BY DEF Forms
<1>2. ASSUME NEW n \in Names, NEW r \in Forms(n), NEW v \in 0..MaxGen
      PROVE  <<r, v>> \in Entry /\ <<r, v>> \in Value(n)
  BY <1>1 DEF Value, Entry
<1>3. ASSUME NEW n \in Users \cup ApiKeys, NEW e \in Value(n), e # None
      PROVE  e[1] \in Roles /\ e[2] \in 0..MaxGen
  BY <1>3, NamesAndFiles DEF Value, Forms
<1>4. ASSUME NEW d \in Devices, NEW vk \in Vks
      PROVE  <<"pubkey", vk>> \in Value(d) /\ <<"pubkey", vk>> \in Keyed
  BY DEF Value, Keyed
<1>5. ASSUME NEW n \in Names, NEW e \in Value(n), e # None
      PROVE  e \in Entry \cup Keyed /\ e[1] \in Forms(n) \cup {"pubkey"}
  BY <1>1, <1>5 DEF Value, Entry, Keyed
<1>6. QED
  BY <1>2, <1>3, <1>4, <1>5, TextsApart DEF Value

\* What is serialized is a text of the file.
LEMMA TextOfMem ==
  ASSUME \A n \in Names : mem[n] \in Value(n), NEW f \in Files
  PROVE  /\ [n \in NamesOf(f) |-> mem[n]] \in GoodText(f)
         /\ \A v \in Value("psk") : [n \in {"psk"} |-> v] \in GoodText("server")
<1>1. [n \in NamesOf(f) |-> mem[n]] \in GoodText(f)
  BY NamesAndFiles, ValueFacts DEF GoodText, Text
<1>2. ASSUME NEW v \in Value("psk")
      PROVE  [n \in {"psk"} |-> v] \in GoodText("server")
  BY NamesAndFiles, ValueFacts DEF GoodText, Text
<1>3. QED
  BY <1>1, <1>2

\* There is always an inode that neither a name nor an open save has.
LEMMA FreshExists ==
  ASSUME TypeInv, NEW f \in Files, tmp[f] = None
  PROVE  /\ FreshInode(f) \in Inodes /\ FreshInode(f) # path[f]
         /\ \A s \in InSave(f) : req[s].fd # FreshInode(f)
<1> DEFINE fds == {req[s].fd : s \in Savers}
           used == fds \cup {path[f]}
<1>1. IsFiniteSet(Savers) /\ Cardinality(Savers) \in Nat
  BY RegistryAssumption, FS_CardinalityType DEF Savers
<1>2. IsFiniteSet(fds) /\ Cardinality(fds) <= Cardinality(Savers)
  <2> DEFINE g == [s \in Savers |-> req[s].fd]
  <2>1. g \in Surjection(Savers, fds)
    BY DEF Surjection
  <2>2. QED
    BY <1>1, <2>1, FS_Surjection
<1>3. IsFiniteSet(used) /\ Cardinality(used) <= Cardinality(Savers) + 1
  <2>1. Cardinality(fds) \in Nat
    BY <1>2, FS_CardinalityType
  <2>2. IsFiniteSet(used) /\ Cardinality(used) \in {Cardinality(fds), Cardinality(fds) + 1}
    BY <1>2, FS_AddElement
  <2>3. QED
    BY <1>1, <1>2, <2>1, <2>2
<1>4. IsFiniteSet(Inodes) /\ Cardinality(Inodes) = Cardinality(Savers) + 2
  BY <1>1, FS_Interval DEF Inodes
<1>5. PICK i \in Inodes : i \notin used
  <2>1. ~ (Inodes \subseteq used)
    <3>1. SUFFICES ASSUME Inodes \subseteq used PROVE FALSE
      OBVIOUS
    <3>2. Cardinality(Inodes) <= Cardinality(used)
      BY <1>3, <3>1, FS_Subset
    <3>3. Cardinality(used) \in Nat
      BY <1>3, FS_CardinalityType
    <3>4. QED
      BY <1>1, <1>3, <1>4, <3>2, <3>3
  <2>2. QED
    BY <2>1
<1>6. i # path[f] /\ i # tmp[f] /\ \A s \in InSave(f) : req[s].fd # i
  <2>1. i # tmp[f]
    BY <1>1, RegistryAssumption DEF Inodes
  <2>2. QED
    BY <1>5, <2>1 DEF InSave
<1>7. QED
  BY <1>6 DEF FreshInode
----------------------------------------------------------------------------
\* A request begins: what all the admin handlers and enroll_auto have in common.

Starts(s, r) ==
  /\ s \in Savers /\ req[s] = Idle
  /\ r \in Work /\ Fields(r) /\ (r.op = "enroll") = (s \in Conns)
  /\ r.pc = IF r.op = "approve" THEN "admit" ELSE "serialize"
  /\ req' = [req EXCEPT ![s] = r]
  /\ crossed' = Crossing(FileOf(r.name))
  /\ MemType' /\ \A n \in Names \ {r.name} : mem'[n] = mem[n]
  /\ r.op \in {"register", "create"} => mem[r.name] = None
  /\ r.op \in {"approve", "rotate"} => mem' = mem
  /\ (r.name \in Devices /\ mem[r.name] # None) =>
       \/ mem'[r.name] \in {mem[r.name], None}
       \/ mem[r.name][1] = "secret"
  /\ gen' \in 0..MaxGen
  /\ r.op = "approve" => /\ pending[r.name] = r.kept /\ r.kept # None
                         /\ pending' = [pending EXCEPT ![r.name] = None]
  /\ r.op # "approve" => pending' = pending
  /\ UNCHANGED <<path, tmp, data, fails, up, crashes, raced, unsaved, overtaken>>

\* A request made of these fields is well-formed.
LEMMA Requested ==
  ASSUME NEW op \in AdminOps \cup {"enroll"}, NEW n \in Names,
         NEW v \in Entry \cup Keyed \cup {None},
         op # "approve",
         (op = "rotate") = (n = "psk"),
         op = "rotate" => v \in {"psk"} \X (0..MaxGen),
         op = "enroll" => n \in Devices
  PROVE  LET r == Request(op, n, v, None)
         IN  /\ r \in Work /\ Fields(r) /\ r.op = op /\ r.name = n /\ r.pc = "serialize"
BY DEF Request, Work, Fields, Steps, SaveSteps

LEMMA NewValue ==
  ASSUME MemType, NEW n \in Names, NEW e \in Value(n), mem' = [mem EXCEPT ![n] = e]
  PROVE  MemType' /\ mem'[n] = e /\ \A m \in Names \ {n} : mem'[m] = mem[m]
BY ValueFacts DEF MemType

LEMMA Begun ==
  ASSUME TypeInv, NEW s \in Slots, NEW op \in AdminOps \ {"approve"}, NEW n \in Names,
         NEW v, v \in Value(n), (op = "rotate") = (n = "psk"), op = "rotate" => v # None,
         Begin(s, op, n, v), UNCHANGED pending, MemType',
         \A m \in Names \ {n} : mem'[m] = mem[m],
         op \in {"register", "create"} => mem[n] = None,
         op = "rotate" => mem' = mem,
         (n \in Devices /\ mem[n] # None) => mem'[n] \in {mem[n], None} \/ mem[n][1] = "secret"
  PROVE  \E r \in Work : Starts(s, r)
<1> DEFINE r == Request(op, n, v, None)
<1>1. op = "rotate" => v \in {"psk"} \X (0..MaxGen)
  BY NamesAndFiles DEF Value, Forms
<1>2. r \in Work /\ Fields(r) /\ r.op = op /\ r.name = n /\ r.pc = "serialize"
  <2>1. op # "enroll" /\ op # "approve"
    BY DEF AdminOps
  <2>2. QED
    BY <1>1, <2>1, Requested, ValueFacts
<1>3. s \in Savers /\ s \notin Conns /\ gen' \in 0..MaxGen
  BY RegistryAssumption DEF Savers, Begin, TypeInv, CountType
<1>4. op # "enroll" /\ op # "approve"
  BY DEF AdminOps
<1>5. Starts(s, r)
  BY <1>2, <1>3, <1>4 DEF Starts, Begin, files, proc
<1>6. QED
  BY <1>2, <1>5

LEMMA AdminStarts ==
  ASSUME TypeInv, NEW s \in Slots, AdminRequest(s)
  PROVE  \E r \in Work : Starts(s, r)
<1> USE DEF TypeInv
<1>0. /\ \A n \in Names : mem[n] \in Value(n)
      /\ up /\ gen < MaxGen => gen + 1 \in 0..MaxGen
  BY RegistryAssumption DEF MemType, CountType
<1>d. /\ \A d \in Devices : d \in Names /\ Forms(d) = {"secret"} /\ d # "psk"
      /\ \A u \in Users \cup ApiKeys : u \in Names /\ Forms(u) = Roles /\ u # "psk" /\ u \notin Devices
      /\ "psk" \in Names /\ Forms("psk") = {"psk"} /\ "psk" \notin Devices
  BY NamesAndFiles, NamesApart DEF Forms
<1>o. /\ {"register", "revoke", "reset", "create", "update", "delete", "rotate"} \subseteq AdminOps \ {"approve"}
  BY DEF AdminOps
<1>g. ASSUME NEW op, NEW n, NEW v, Begin(s, op, n, v)
      PROVE  up /\ gen + 1 \in 0..MaxGen
  BY <1>0, <1>g DEF Begin
<1>1. ASSUME NEW d \in Devices, register_device(s, d)
      PROVE  \E r \in Work : Starts(s, r)
  <2>1. mem[d] = None /\ mem' = [mem EXCEPT ![d] = <<"secret", gen + 1>>] /\ Begin(s, "register", d, mem'[d])
    BY <1>1 DEF register_device, register_with_secret, Insert
  <2>2. <<"secret", gen + 1>> \in Value(d)
    BY <1>d, <1>g, <2>1, ValueFacts
  <2>3. MemType' /\ mem'[d] = <<"secret", gen + 1>> /\ \A m \in Names \ {d} : mem'[m] = mem[m]
    BY <1>d, <2>1, <2>2, NewValue
  <2>4. QED
    BY <1>1, <1>d, <1>o, <2>1, <2>2, <2>3, Begun DEF register_device
<1>2. ASSUME NEW d \in Devices, revoke_device(s, d)
      PROVE  \E r \in Work : Starts(s, r)
  <2>1. mem' = [mem EXCEPT ![d] = None] /\ Begin(s, "revoke", d, None)
    BY <1>2 DEF revoke_device, revoke, Replace
  <2>2. None \in Value(d)
    BY <1>d, ValueFacts
  <2>3. MemType' /\ mem'[d] = None /\ \A m \in Names \ {d} : mem'[m] = mem[m]
    BY <1>d, <2>1, <2>2, NewValue
  <2>4. QED
    BY <1>2, <1>d, <1>o, <2>1, <2>2, <2>3, Begun DEF revoke_device
<1>3. ASSUME NEW d \in Devices, reset_device_secret(s, d)
      PROVE  \E r \in Work : Starts(s, r)
  <2>1. /\ mem[d][1] = "secret" /\ mem' = [mem EXCEPT ![d] = <<"secret", gen + 1>>]
        /\ Begin(s, "reset", d, mem'[d])
    BY <1>3 DEF reset_device_secret, reset_secret, Replace
  <2>2. <<"secret", gen + 1>> \in Value(d)
    BY <1>d, <1>g, <2>1, ValueFacts
  <2>3. MemType' /\ mem'[d] = <<"secret", gen + 1>> /\ \A m \in Names \ {d} : mem'[m] = mem[m]
    BY <1>d, <2>1, <2>2, NewValue
  <2>4. QED
    BY <1>3, <1>d, <1>o, <2>1, <2>2, <2>3, Begun DEF reset_device_secret
<1>4. ASSUME NEW d \in Devices, approve_pending_device(s, d)
      PROVE  \E r \in Work : Starts(s, r)
  <2> DEFINE r == [Request("approve", d, <<"pubkey", pending[d]>>, pending[d]) EXCEPT !.pc = "admit"]
  <2>1. pending[d] \in Vks /\ pending[d] # None
    BY <1>4 DEF approve_pending_device, ReportType
  <2>2. <<"pubkey", pending[d]>> \in Entry \cup Keyed \cup {None}
    BY <1>d, <2>1, ValueFacts
  <2>3. r \in Work /\ r.op = "approve" /\ r.name = d /\ r.kept = pending[d] /\ r.pc = "admit" /\ r.fd = None
    BY <1>d, <2>1, <2>2 DEF Request, Work, Steps, AdminOps
  <2>4. Fields(r)
    BY <1>d, <2>1, <2>3 DEF Fields, SaveSteps
  <2>5. s \in Savers /\ s \notin Conns /\ gen' \in 0..MaxGen
    BY <1>4, <1>0, RegistryAssumption DEF Savers, approve_pending_device
  <2>6. /\ req[s] = Idle /\ req' = [req EXCEPT ![s] = r] /\ mem' = mem
        /\ pending' = [pending EXCEPT ![d] = None] /\ crossed' = Crossing("devices")
        /\ UNCHANGED <<path, tmp, data, fails, up, crashes, raced, unsaved, overtaken>>
    BY <1>4 DEF approve_pending_device, files, proc
  <2>7. MemType' /\ FileOf(d) = "devices"
    BY <2>6, NamesAndFiles DEF MemType
  <2> HIDE DEF r
  <2>8. Starts(s, r)
    BY <2>1, <2>3, <2>4, <2>5, <2>6, <2>7 DEF Starts
  <2>9. QED
    BY <2>3, <2>8
<1>5. ASSUME NEW u \in Users \cup ApiKeys, NEW rl \in Roles,
             \/ create_account(s, u, rl) \/ register_api_key(s, u, rl)
      PROVE  \E r \in Work : Starts(s, r)
  <2>1. /\ mem[u] = None /\ mem' = [mem EXCEPT ![u] = <<rl, gen + 1>>] /\ UNCHANGED pending
        /\ \E op \in {"create", "register"} : Begin(s, op, u, mem'[u])
    BY <1>5 DEF create_account, create, register_api_key, register_key, Insert
  <2>2. <<rl, gen + 1>> \in Value(u)
    BY <1>d, <1>g, <2>1, ValueFacts
  <2>3. MemType' /\ mem'[u] = <<rl, gen + 1>> /\ \A m \in Names \ {u} : mem'[m] = mem[m]
    BY <1>d, <2>1, <2>2, NewValue
  <2>4. QED
    BY <1>d, <1>o, <2>1, <2>2, <2>3, Begun
<1>6. ASSUME NEW u \in Users \cup ApiKeys, delete_account(s, u) \/ revoke_api_key(s, u)
      PROVE  \E r \in Work : Starts(s, r)
  <2>1. /\ mem' = [mem EXCEPT ![u] = None] /\ UNCHANGED pending
        /\ \E op \in {"delete", "revoke"} : Begin(s, op, u, None)
    BY <1>6 DEF delete_account, delete, revoke_api_key, revoke_key, Replace
  <2>2. None \in Value(u)
    BY <1>d, ValueFacts
  <2>3. MemType' /\ mem'[u] = None /\ \A m \in Names \ {u} : mem'[m] = mem[m]
    BY <1>d, <2>1, <2>2, NewValue
  <2>4. QED
    BY <1>d, <1>o, <2>1, <2>2, <2>3, Begun
<1>7. ASSUME NEW u \in Users, NEW rl \in Roles, NEW p \in BOOLEAN, update_account(s, u, rl, p)
      PROVE  \E r \in Work : Starts(s, r)
  <2> DEFINE pw == IF p THEN gen + 1 ELSE None
             e == <<rl, IF pw = None THEN mem[u][2] ELSE pw>>
  <2>1. /\ mem[u] # None /\ mem' = [mem EXCEPT ![u] = e] /\ UNCHANGED pending
        /\ Begin(s, "update", u, mem'[u])
    BY <1>7 DEF update_account, update, Replace
  <2>2. mem[u][2] \in 0..MaxGen /\ gen + 1 \in 0..MaxGen
    BY <1>0, <1>d, <1>g, <2>1, ValueFacts
  <2>3. e \in Value(u)
    BY <1>d, <2>2, ValueFacts
  <2>4. MemType' /\ mem'[u] = e /\ \A m \in Names \ {u} : mem'[m] = mem[m]
    BY <1>d, <2>1, <2>3, NewValue
  <2>5. QED
    BY <1>d, <1>o, <2>1, <2>3, <2>4, Begun
<1>8. ASSUME rotate_psk(s)
      PROVE  \E r \in Work : Starts(s, r)
  <2>1. mem' = mem /\ UNCHANGED pending /\ Begin(s, "rotate", "psk", <<"psk", gen + 1>>)
    BY <1>8 DEF rotate_psk
  <2>2. <<"psk", gen + 1>> \in Value("psk") /\ <<"psk", gen + 1>> # None
    BY <1>d, <1>g, <2>1, ValueFacts
  <2>3. MemType'
    BY <2>1 DEF MemType
  <2>4. QED
    BY <1>d, <1>o, <2>1, <2>2, <2>3, Begun
<1>9. QED
  BY <1>1, <1>2, <1>3, <1>4, <1>5, <1>6, <1>7, <1>8 DEF AdminRequest

----------------------------------------------------------------------------
\* A request goes on: it touches its own file, its own entry and its own state.

Goes(s, x) ==
  /\ s \in Savers /\ req[s] # Idle
  /\ req' = [req EXCEPT ![s] = x]
  /\ x # Idle => /\ x \in Work /\ Fields(x)
                 /\ x.op = req[s].op /\ x.name = req[s].name /\ x.kept = req[s].kept
                 /\ x.val = req[s].val
  /\ MemType' /\ \A n \in Names \ {req[s].name} : mem'[n] = mem[n]
  /\ FileType'
  /\ \A f \in Files \ {File(s)} : /\ path'[f] = path[f] /\ tmp'[f] = tmp[f] /\ data'[f] = data[f]
                                  /\ (f \in raced') = (f \in raced)
                                  /\ (f \in unsaved') = (f \in unsaved)
  /\ UNCHANGED <<gen, crashes, crossed, overtaken>>

LEMMA AtWork ==
  ASSUME TypeInv, NEW s \in Savers, req[s] # Idle
  PROVE  /\ req[s] \in Work /\ Fields(req[s]) /\ req[s].name \in Names /\ File(s) \in Files
         /\ req[s].name \in NamesOf(File(s))
<1>1. req[s] \in Work /\ Fields(req[s])
  BY DEF TypeInv, WorkType
<1>2. req[s].name \in Names
  BY <1>1 DEF Work
<1>3. QED
  BY <1>1, <1>2, NamesAndFiles DEF File

LEMMA MemStays == ASSUME TypeInv, UNCHANGED mem PROVE MemType'
BY DEF TypeInv, MemType

LEMMA FilesStay == ASSUME TypeInv, UNCHANGED <<path, tmp, data>> PROVE FileType'
BY DEF TypeInv, FileType

LEMMA SerializeGoes ==
  ASSUME TypeInv, NEW s \in Savers, Serialize(s)
  PROVE  \E x : /\ Goes(s, x) /\ x # Idle /\ x.pc = "create"
                /\ x.op = "rotate" => x.snap = [n \in {"psk"} |-> req[s].val]
                /\ x.op # "rotate" => x.snap = [n \in NamesOf(File(s)) |-> mem[n]]
<1> DEFINE sn == IF req[s].op = "rotate" THEN [n \in {"psk"} |-> req[s].val]
                                        ELSE [n \in NamesOf(File(s)) |-> mem[n]]
           x == [req[s] EXCEPT !.pc = "create", !.snap = sn]
<1>1. req[s] # Idle /\ req[s].pc = "serialize" /\ req' = [req EXCEPT ![s] = x]
  BY DEF Serialize, At, TypeInv, WorkType
<1>2. req[s] \in Work /\ Fields(req[s]) /\ req[s].name \in Names /\ File(s) \in Files
  BY <1>1, AtWork
<1>3. sn \in GoodText(File(s))
  <2>1. CASE req[s].op = "rotate"
    <3>1. req[s].name = "psk" /\ req[s].val \in Value("psk")
      BY <1>2, <2>1, NamesAndFiles DEF Fields, Value, Forms
    <3>2. File(s) = "server"
      BY <3>1, NamesAndFiles DEF File
    <3>3. QED
      BY <1>2, <2>1, <3>1, <3>2, TextOfMem DEF TypeInv, MemType
  <2>2. CASE req[s].op # "rotate"
    BY <1>2, <2>2, TextOfMem DEF TypeInv, MemType
  <2>3. QED
    BY <2>1, <2>2
<1>4. sn \in AnyText
  BY <1>2, <1>3, GoodTexts
<1> HIDE DEF sn
<1>5. x \in Work /\ x # Idle /\ x.pc = "create" /\ x.op = req[s].op /\ x.name = req[s].name
       /\ x.kept = req[s].kept /\ x.val = req[s].val /\ x.snap = sn /\ x.fd = req[s].fd
  BY <1>2, <1>4 DEF Work, Steps, Idle
<1>6. Fields(x)
  BY <1>1, <1>2, <1>3, <1>5 DEF Fields, SaveSteps, File
<1> HIDE DEF x
<1>7. Goes(s, x)
  <2>1. UNCHANGED <<mem, path, tmp, data, gen, crashes, crossed, unsaved, overtaken>>
    BY DEF Serialize, files, proc
  <2>2. \A f \in Files \ {File(s)} : (f \in raced') = (f \in raced)
    BY DEF Serialize
  <2>3. QED
    BY <1>1, <1>2, <1>5, <1>6, <2>1, <2>2, MemStays, FilesStay DEF Goes
<1>8. QED
  BY <1>5, <1>7 DEF sn

\* One file gets other names and texts.
Inode(f, D) == /\ D \in [Inodes -> AnyText \cup {Torn, Empty}]
               /\ \A i \in Inodes : D[i] \in GoodText(f) \cup {Torn, Empty}

LEMMA FileChanges ==
  ASSUME TypeInv, NEW f \in Files,
         path' \in [Files -> Inodes], tmp' \in [Files -> Inodes \cup {None}],
         data' = [data EXCEPT ![f] = data'[f]], Inode(f, data'[f])
  PROVE  FileType' /\ \A g \in Files \ {f} : data'[g] = data[g]
<1>1. /\ data' \in [Files -> [Inodes -> AnyText \cup {Torn, Empty}]]
      /\ \A g \in Files \ {f} : data'[g] = data[g]
  BY DEF TypeInv, FileType, Inode
<1>2. \A g \in Files, i \in Inodes : data'[g][i] \in GoodText(g) \cup {Torn, Empty}
  BY <1>1 DEF TypeInv, FileType, Inode
<1>3. QED
  BY <1>1, <1>2 DEF FileType

LEMMA TextsOf ==
  ASSUME TypeInv, NEW f \in Files
  PROVE  /\ Inode(f, data[f]) /\ path[f] \in Inodes /\ tmp[f] \in Inodes \cup {None}
         /\ \A i \in Inodes, t \in GoodText(f) \cup {Torn, Empty} :
               LET D == [data[f] EXCEPT ![i] = t]
               IN  Inode(f, D) /\ D[i] = t /\ \A j \in Inodes \ {i} : D[j] = data[f][j]
<1>1. Inode(f, data[f]) /\ path[f] \in Inodes /\ tmp[f] \in Inodes \cup {None}
  BY DEF TypeInv, FileType, Inode
<1>2. ASSUME NEW i \in Inodes, NEW t \in GoodText(f) \cup {Torn, Empty}
      PROVE  LET D == [data[f] EXCEPT ![i] = t]
             IN  Inode(f, D) /\ D[i] = t /\ \A j \in Inodes \ {i} : D[j] = data[f][j]
  <2>1. t \in AnyText \cup {Torn, Empty}
    BY GoodTexts
  <2>2. QED
    BY <1>1, <2>1 DEF Inode
<1>3. QED
  BY <1>1, <1>2

LEMMA UnlinkedTexts ==
  ASSUME TypeInv, NEW s \in Savers, NEW f \in Files, NEW i \in Inodes \cup {None}
  PROVE  /\ Inode(f, Unlinked(s, f, i))
         /\ \A j \in Inodes \ {i} : Unlinked(s, f, i)[j] = data[f][j]
<1>1. CASE i = None \/ \E t \in InSave(f) \ {s} : req[t].fd = i
  BY <1>1, TextsOf DEF Unlinked
<1>2. CASE ~ (i = None \/ \E t \in InSave(f) \ {s} : req[t].fd = i)
  <2>1. Unlinked(s, f, i) = [data[f] EXCEPT ![i] = Empty] /\ i \in Inodes
    BY <1>2 DEF Unlinked
  <2>2. QED
    BY <2>1, TextsOf
<1>3. QED
  BY <1>1, <1>2

\* A request whose step and open file change.
Stepping(r, p, d) == [r EXCEPT !.pc = p, !.fd = d]
Follows(x, r) == /\ x # Idle /\ x \in Work /\ Fields(x)
                 /\ x.op = r.op /\ x.name = r.name /\ x.kept = r.kept
                 /\ x.val = r.val /\ x.snap = r.snap

LEMMA Stepped ==
  ASSUME NEW r \in Work, Fields(r), NEW p \in Steps, NEW d \in Inodes \cup {None},
         p \in {"write", "rename"} => d \in Inodes, p \notin {"write", "rename"} => d = None,
         p \in {"admit", "restore"} => r.op = "approve",
         p = "effect" => r.op = "rotate",
         p \in SaveSteps \cup {"effect"} => r.pc \in SaveSteps \cup {"effect"}
  PROVE  Follows(Stepping(r, p, d), r) /\ Stepping(r, p, d).pc = p /\ Stepping(r, p, d).fd = d
<1> DEFINE x == Stepping(r, p, d)
<1>1. /\ x # Idle /\ x \in Work /\ x.pc = p /\ x.fd = d
      /\ x.op = r.op /\ x.name = r.name /\ x.kept = r.kept
      /\ x.val = r.val /\ x.snap = r.snap
  BY DEF Work, Idle, Stepping
<1> HIDE DEF x
<1>2. Fields(x)
  BY <1>1 DEF Fields
<1>3. QED
  BY <1>1, <1>2 DEF x, Follows

LEMMA CreateGoes ==
  ASSUME TypeInv, SaveInv, NEW s \in Savers, CreateTmp(s)
  PROVE  LET f == File(s) IN
         \E x : \E i \in Inodes :
           /\ Goes(s, x) /\ x # Idle /\ x.pc = "write" /\ x.snap = req[s].snap /\ x.fd = i
           /\ i # path[f] /\ tmp'[f] = i /\ data'[f][i] = Empty
           /\ \A j \in Inodes \ {i} : data'[f][j] = data[f][j]
           /\ UNCHANGED <<mem, path, raced, unsaved, pending>>
<1> DEFINE f == File(s)
           i == IF tmp[f] # None THEN tmp[f] ELSE FreshInode(f)
           x == Stepping(req[s], "write", i)
           D == [data[f] EXCEPT ![i] = Empty]
<1>1. req[s] # Idle /\ req[s].pc = "create"
  BY DEF CreateTmp, At
<1>2. f \in Files
  BY <1>1, AtWork
<1>3. i \in Inodes /\ i # path[f]
  BY <1>2, FreshExists, TextsOf DEF SaveInv, SaveAt
<1>4. /\ tmp' = [tmp EXCEPT ![f] = i] /\ data' = [data EXCEPT ![f] = D]
      /\ req' = [req EXCEPT ![s] = x]
      /\ UNCHANGED <<mem, path, raced, unsaved, pending, gen, crashes, crossed, overtaken>>
  BY DEF CreateTmp, At, TypeInv, WorkType, FileType, proc, hist, Stepping
<1> HIDE DEF i, f, x
<1>5. Inode(f, D) /\ D[i] = Empty /\ \A j \in Inodes \ {i} : D[j] = data[f][j]
  BY <1>2, <1>3, TextsOf
<1> HIDE DEF D
<1>6. /\ path' \in [Files -> Inodes] /\ tmp' \in [Files -> Inodes \cup {None}]
      /\ tmp'[f] = i /\ data'[f] = D /\ data' = [data EXCEPT ![f] = data'[f]]
      /\ \A g \in Files \ {f} : tmp'[g] = tmp[g]
  BY <1>2, <1>3, <1>4 DEF TypeInv, FileType
<1>7. FileType' /\ \A g \in Files \ {f} : data'[g] = data[g]
  BY <1>2, <1>5, <1>6, FileChanges
<1>8. Follows(x, req[s]) /\ x.pc = "write" /\ x.fd = i
  <2>1. "write" \in Steps /\ "create" \in SaveSteps
    BY DEF Steps, SaveSteps
  <2>2. req[s] \in Work /\ Fields(req[s])
    BY <1>1, AtWork
  <2>3. QED
    BY <1>1, <1>3, <2>1, <2>2, Stepped DEF x
<1>9. Goes(s, x)
  BY <1>1, <1>4, <1>6, <1>7, <1>8, MemStays DEF Goes, f, Follows
<1>10. QED
  BY <1>3, <1>4, <1>5, <1>6, <1>8, <1>9 DEF f, Follows

LEMMA WriteGoes ==
  ASSUME TypeInv, NEW s \in Savers, WriteTmp(s)
  PROVE  LET f == File(s)
             i == req[s].fd
         IN  /\ i \in Inodes /\ req[s].pc = "write"
             /\ \E x : /\ Goes(s, x) /\ x # Idle /\ x.pc = "rename"
                       /\ x.snap = req[s].snap /\ x.fd = i
             /\ data[f][i] = Empty => data'[f][i] = req[s].snap
             /\ \A j \in Inodes \ {i} : data'[f][j] = data[f][j]
             /\ UNCHANGED <<mem, path, tmp, raced, unsaved, pending>>
<1> DEFINE f == File(s)
           i == req[s].fd
           x == Stepping(req[s], "rename", req[s].fd)
           o == Overwrite(data[f][i], req[s].snap)
           D == [data[f] EXCEPT ![i] = o]
<1>1. req[s] # Idle /\ req[s].pc = "write"
  BY DEF WriteTmp, At
<1>2. f \in Files /\ i \in Inodes /\ req[s].snap \in GoodText(f)
  BY <1>1, AtWork DEF Fields, SaveSteps, File
<1>3. o \in GoodText(f) \cup {Torn, Empty} /\ (data[f][i] = Empty => o = req[s].snap)
  BY <1>2, RegistryAssumption DEF Overwrite
<1>4. /\ data' = [data EXCEPT ![f] = D] /\ req' = [req EXCEPT ![s] = x]
      /\ UNCHANGED <<mem, path, tmp, raced, unsaved, pending, gen, crashes, crossed, overtaken>>
  <2>1. x = [req[s] EXCEPT !.pc = "rename"]
    BY <1>1, AtWork DEF Stepping, Work
  <2>2. QED
    BY <2>1 DEF WriteTmp, At, TypeInv, WorkType, FileType, proc, hist
<1> HIDE DEF i, f, o, x
<1>5. Inode(f, D) /\ D[i] = o /\ \A j \in Inodes \ {i} : D[j] = data[f][j]
  BY <1>2, <1>3, TextsOf
<1> HIDE DEF D
<1>6. /\ path' \in [Files -> Inodes] /\ tmp' \in [Files -> Inodes \cup {None}]
      /\ data'[f] = D /\ data' = [data EXCEPT ![f] = data'[f]]
  BY <1>2, <1>4 DEF TypeInv, FileType
<1>7. FileType' /\ \A g \in Files \ {f} : data'[g] = data[g]
  BY <1>2, <1>5, <1>6, FileChanges
<1>8. Follows(x, req[s]) /\ x.pc = "rename" /\ x.fd = i
  <2>1. "rename" \in Steps /\ "write" \in SaveSteps
    BY DEF Steps, SaveSteps
  <2>2. req[s] \in Work /\ Fields(req[s])
    BY <1>1, AtWork
  <2>3. QED
    BY <1>1, <1>2, <2>1, <2>2, Stepped DEF x, i
<1>9. Goes(s, x)
  BY <1>1, <1>4, <1>6, <1>7, <1>8, MemStays DEF Goes, f, Follows
<1>10. QED
  BY <1>1, <1>2, <1>3, <1>4, <1>5, <1>6, <1>8, <1>9 DEF f, i, Follows

LEMMA RenameGoes ==
  ASSUME TypeInv, SaveInv, NEW s \in Savers, RenameTmp(s)
  PROVE  LET f == File(s) IN
         /\ req[s].pc = "rename" /\ tmp[f] \in Inodes
         /\ \E x : /\ Goes(s, x) /\ x # Idle /\ x.fd = None /\ x.snap = req[s].snap
                   /\ x.pc = IF req[s].op = "rotate" THEN "effect" ELSE "saved"
         /\ path'[f] = tmp[f] /\ tmp'[f] = None /\ data'[f][tmp[f]] = data[f][tmp[f]]
         /\ (f \notin crossed) => f \notin unsaved'
         /\ UNCHANGED <<mem, raced, pending>>
<1> DEFINE f == File(s)
           p == IF req[s].op = "rotate" THEN "effect" ELSE "saved"
           x == Stepping(req[s], p, None)
           D == Unlinked(s, f, path[f])
<1>1. req[s] # Idle /\ req[s].pc = "rename" /\ tmp[f] # None
  BY DEF RenameTmp, At
<1>2. f \in Files /\ tmp[f] \in Inodes /\ path[f] \in Inodes /\ tmp[f] # path[f]
  BY <1>1, AtWork, TextsOf DEF SaveInv, SaveAt
<1>3. /\ path' = [path EXCEPT ![f] = tmp[f]] /\ tmp' = [tmp EXCEPT ![f] = None]
      /\ data' = [data EXCEPT ![f] = D] /\ req' = [req EXCEPT ![s] = x]
      /\ unsaved' = IF f \in crossed THEN unsaved ELSE unsaved \ {f}
      /\ UNCHANGED <<mem, raced, pending, gen, crashes, crossed, overtaken>>
  BY DEF RenameTmp, At, TypeInv, WorkType, proc, Stepping
<1> HIDE DEF f, x
<1>4. Inode(f, D) /\ D[tmp[f]] = data[f][tmp[f]]
  BY <1>2, UnlinkedTexts
<1> HIDE DEF D
<1>5. /\ path' \in [Files -> Inodes] /\ tmp' \in [Files -> Inodes \cup {None}]
      /\ path'[f] = tmp[f] /\ tmp'[f] = None
      /\ data'[f] = D /\ data' = [data EXCEPT ![f] = data'[f]]
      /\ \A g \in Files \ {f} : path'[g] = path[g] /\ tmp'[g] = tmp[g]
  BY <1>2, <1>3 DEF TypeInv, FileType
<1>6. FileType' /\ \A g \in Files \ {f} : data'[g] = data[g]
  BY <1>2, <1>4, <1>5, FileChanges
<1>7. Follows(x, req[s]) /\ x.pc = p /\ x.fd = None
  <2>1. p \in Steps /\ "rename" \in SaveSteps /\ p \notin SaveSteps \cup {"admit", "restore"}
        /\ p \notin {"write", "rename"} /\ (p = "effect" => req[s].op = "rotate")
    BY DEF Steps, SaveSteps
  <2>2. req[s] \in Work /\ Fields(req[s])
    BY <1>1, AtWork
  <2> HIDE DEF p
  <2>3. QED
    BY <1>1, <2>1, <2>2, Stepped DEF x
<1>8. Goes(s, x)
  BY <1>1, <1>3, <1>5, <1>6, <1>7, MemStays DEF Goes, f, Follows
<1>9. QED
  BY <1>1, <1>2, <1>3, <1>4, <1>5, <1>7, <1>8 DEF f, Follows

LEMMA SaveFailsGoes ==
  ASSUME TypeInv, SaveInv, NEW s \in Savers, SaveFails(s)
  PROVE  LET f == File(s) IN
         /\ req[s].pc \in SaveSteps
         /\ \E x : Goes(s, x) /\ x # Idle /\ x.pc = "failed" /\ x.fd = None
         /\ tmp'[f] = None /\ data'[f][path[f]] = data[f][path[f]]
         /\ UNCHANGED <<mem, path, raced, unsaved, pending>>
<1> DEFINE f == File(s)
           x == Stepping(req[s], "failed", None)
           D == Unlinked(s, f, tmp[f])
<1>1. req[s] # Idle /\ req[s].pc \in SaveSteps
  BY DEF SaveFails, At, SaveSteps
<1>2. f \in Files /\ tmp[f] \in Inodes \cup {None} /\ path[f] \in Inodes /\ tmp[f] # path[f]
  BY <1>1, AtWork, TextsOf DEF SaveInv, SaveAt
<1>3. /\ tmp' = [tmp EXCEPT ![f] = None]
      /\ data' = [data EXCEPT ![f] = D] /\ req' = [req EXCEPT ![s] = x]
      /\ UNCHANGED <<mem, path, raced, unsaved, pending, gen, crashes, crossed, overtaken>>
  BY DEF SaveFails, At, TypeInv, WorkType, hist, Stepping
<1> HIDE DEF f, x
<1>4. Inode(f, D) /\ D[path[f]] = data[f][path[f]]
  BY <1>2, UnlinkedTexts
<1> HIDE DEF D
<1>5. /\ path' \in [Files -> Inodes] /\ tmp' \in [Files -> Inodes \cup {None}]
      /\ tmp'[f] = None
      /\ data'[f] = D /\ data' = [data EXCEPT ![f] = data'[f]]
      /\ \A g \in Files \ {f} : tmp'[g] = tmp[g]
  BY <1>2, <1>3 DEF TypeInv, FileType
<1>6. FileType' /\ \A g \in Files \ {f} : data'[g] = data[g]
  BY <1>2, <1>4, <1>5, FileChanges
<1>7. Follows(x, req[s]) /\ x.pc = "failed" /\ x.fd = None
  <2>1. "failed" \in Steps /\ "failed" \notin SaveSteps
    BY DEF Steps, SaveSteps
  <2>2. req[s] \in Work /\ Fields(req[s])
    BY <1>1, AtWork
  <2>3. QED
    BY <1>1, <2>1, <2>2, Stepped DEF x
<1>8. Goes(s, x)
  BY <1>1, <1>3, <1>5, <1>6, <1>7, MemStays DEF Goes, f, Follows
<1>9. QED
  BY <1>1, <1>2, <1>3, <1>4, <1>5, <1>7, <1>8 DEF f, Follows

\* The steps that leave the files alone.
LEMMA AdmitGoes ==
  ASSUME TypeInv, NEW s \in Savers, Admit(s)
  PROVE  /\ req[s].pc = "admit" /\ req[s].op = "approve" /\ req[s].name \in Devices
         /\ \E x : /\ Goes(s, x) /\ x # Idle
                   /\ \/ x.pc = "serialize" /\ mem[req[s].name] = None
                      \/ x.pc = "restore" /\ mem' = mem
         /\ UNCHANGED <<path, tmp, data, raced, unsaved, pending>>
<1>1. req[s] # Idle /\ req[s].pc = "admit"
  BY DEF Admit, At
<1>2. req[s] \in Work /\ Fields(req[s]) /\ req[s].name \in Names
  BY <1>1, AtWork
<1>3. req[s].op = "approve" /\ req[s].name \in Devices /\ req[s].kept \in Vks /\ req[s].fd = None
  BY <1>1, <1>2 DEF Fields
<1>4. UNCHANGED <<path, tmp, data, raced, unsaved, pending, gen, crashes, crossed, overtaken>>
  BY DEF Admit, files, proc, hist
<1>5. ASSUME NEW p \in {"serialize", "restore"}
      PROVE  LET x == Stepping(req[s], p, None)
             IN  Follows(x, req[s]) /\ x.pc = p /\ x = [req[s] EXCEPT !.pc = p]
  <2>1. p \in Steps /\ p \notin SaveSteps \cup {"effect", "admit", "write", "rename"}
    BY DEF Steps, SaveSteps
  <2>2. Stepping(req[s], p, None) = [req[s] EXCEPT !.pc = p]
    BY <1>2, <1>3 DEF Stepping, Work
  <2>3. QED
    BY <1>2, <1>3, <2>1, <2>2, Stepped
<1>6. CASE enroll_auto(req[s].name, req[s].kept) /\ req' = [req EXCEPT ![s].pc = "serialize"]
  <2> DEFINE x == Stepping(req[s], "serialize", None)
  <2>1. Follows(x, req[s]) /\ x.pc = "serialize" /\ x = [req[s] EXCEPT !.pc = "serialize"]
    BY <1>5
  <2>2. req' = [req EXCEPT ![s] = x]
    BY <1>6, <2>1 DEF TypeInv, WorkType
  <2>3. mem[req[s].name] = None /\ mem' = [mem EXCEPT ![req[s].name] = <<"pubkey", req[s].kept>>]
    BY <1>6 DEF enroll_auto, Insert
  <2>4. MemType' /\ \A n \in Names \ {req[s].name} : mem'[n] = mem[n]
    BY <1>2, <1>3, <2>3, ValueFacts, NewValue DEF TypeInv
  <2> HIDE DEF x
  <2>5. Goes(s, x)
    BY <1>1, <1>4, <2>1, <2>2, <2>4, FilesStay DEF Goes, Follows
  <2>6. QED
    BY <1>1, <1>3, <1>4, <2>1, <2>3, <2>5 DEF Follows
<1>7. CASE req' = [req EXCEPT ![s].pc = "restore"] /\ mem' = mem
  <2> DEFINE x == Stepping(req[s], "restore", None)
  <2>1. Follows(x, req[s]) /\ x.pc = "restore" /\ x = [req[s] EXCEPT !.pc = "restore"]
    BY <1>5
  <2>2. req' = [req EXCEPT ![s] = x]
    BY <1>7, <2>1 DEF TypeInv, WorkType
  <2> HIDE DEF x
  <2>3. Goes(s, x)
    BY <1>1, <1>4, <1>7, <2>1, <2>2, FilesStay, MemStays DEF Goes, Follows
  <2>4. QED
    BY <1>1, <1>3, <1>4, <1>7, <2>1, <2>3 DEF Follows
<1>8. QED
  BY <1>6, <1>7 DEF Admit

LEMMA FailedGoes ==
  ASSUME TypeInv, NEW s \in Savers, Failed(s)
  PROVE  /\ req[s].pc = "failed"
         /\ \E x : /\ Goes(s, x)
                   /\ \/ /\ req[s].op \in {"register", "create"} /\ x = Idle
                         /\ mem'[req[s].name] = None /\ unsaved' = unsaved
                      \/ /\ req[s].op = "approve" /\ x # Idle /\ x.pc = "restore"
                         /\ mem'[req[s].name] = None /\ unsaved' = unsaved
                      \/ req[s].op = "rotate" /\ x = Idle /\ mem' = mem /\ unsaved' = unsaved
                      \/ /\ req[s].op \notin {"register", "create", "approve", "rotate"}
                         /\ x = Idle \/ (x # Idle /\ x.pc = "saved")
                         /\ mem' = mem /\ File(s) \in unsaved'
         /\ UNCHANGED <<path, tmp, data, raced, pending>>
<1>1. req[s] # Idle /\ req[s].pc = "failed"
  BY DEF Failed, At
<1>2. req[s] \in Work /\ Fields(req[s]) /\ req[s].name \in Names /\ File(s) \in Files
  BY <1>1, AtWork
<1>3. req[s].fd = None
  BY <1>1, <1>2 DEF Fields
<1>4. UNCHANGED <<path, tmp, data, raced, pending, gen, crashes, crossed, overtaken>>
  BY DEF Failed, files, proc
<1>5. ASSUME NEW p \in {"saved", "restore"}, p = "restore" => req[s].op = "approve"
      PROVE  LET x == [req[s] EXCEPT !.pc = p]
             IN  Follows(x, req[s]) /\ x.pc = p
  <2>1. p \in Steps /\ p \notin SaveSteps \cup {"effect", "admit", "write", "rename"}
    BY DEF Steps, SaveSteps
  <2>2. Stepping(req[s], p, None) = [req[s] EXCEPT !.pc = p]
    BY <1>2, <1>3 DEF Stepping, Work
  <2>3. QED
    BY <1>2, <1>3, <1>5, <2>1, <2>2, Stepped
<1>6. CASE /\ req[s].op \in {"register", "create", "approve"}
           /\ mem' = [mem EXCEPT ![req[s].name] = None]
           /\ req' = [req EXCEPT ![s] = IF req[s].op = "approve"
                                        THEN [req[s] EXCEPT !.pc = "restore"] ELSE Idle]
           /\ unsaved' = unsaved
  <2> DEFINE x == IF req[s].op = "approve" THEN [req[s] EXCEPT !.pc = "restore"] ELSE Idle
  <2>1. x # Idle => req[s].op = "approve" /\ Follows(x, req[s]) /\ x.pc = "restore"
    BY <1>5
  <2>2. req[s].op = "approve" => x # Idle
    BY <1>5 DEF Follows
  <2>3. MemType' /\ mem'[req[s].name] = None /\ \A n \in Names \ {req[s].name} : mem'[n] = mem[n]
    BY <1>2, <1>6, ValueFacts, NewValue DEF TypeInv
  <2>4. req' = [req EXCEPT ![s] = x]
    BY <1>6
  <2>5. req[s].op # "approve" => x = Idle
    OBVIOUS
  <2> HIDE DEF x
  <2>6. Goes(s, x)
    BY <1>1, <1>4, <1>6, <2>1, <2>3, <2>4, FilesStay DEF Goes, Follows
  <2>7. QED
    BY <1>1, <1>4, <1>6, <2>1, <2>2, <2>3, <2>5, <2>6
<1>7. CASE req[s].op = "rotate" /\ req' = [req EXCEPT ![s] = Idle] /\ UNCHANGED <<mem, unsaved>>
  <2>1. Goes(s, Idle)
    BY <1>1, <1>4, <1>7, FilesStay, MemStays DEF Goes
  <2>2. QED
    BY <1>1, <1>4, <1>7, <2>1
<1>8. CASE /\ req[s].op \in {"revoke", "reset", "update", "delete", "enroll"}
           /\ req' = [req EXCEPT ![s] = IF req[s].op = "enroll"
                                        THEN [req[s] EXCEPT !.pc = "saved"] ELSE Idle]
           /\ unsaved' = unsaved \cup {File(s)} /\ mem' = mem
  <2> DEFINE x == IF req[s].op = "enroll" THEN [req[s] EXCEPT !.pc = "saved"] ELSE Idle
  <2>1. x # Idle => Follows(x, req[s]) /\ x.pc = "saved"
    BY <1>5
  <2>2. req' = [req EXCEPT ![s] = x]
    BY <1>8
  <2>3. \A f \in Files \ {File(s)} : (f \in unsaved') = (f \in unsaved)
    BY <1>8
  <2> HIDE DEF x
  <2>4. Goes(s, x)
    BY <1>1, <1>4, <1>8, <2>1, <2>2, <2>3, FilesStay, MemStays DEF Goes, Follows
  <2>5. QED
    BY <1>1, <1>4, <1>8, <2>1, <2>4
<1>9. QED
  BY <1>6, <1>7, <1>8 DEF Failed

LEMMA RestoreGoes ==
  ASSUME TypeInv, NEW s \in Savers, RestorePending(s)
  PROVE  /\ req[s].pc = "restore" /\ req[s].op = "approve" /\ req[s].name \in Devices
         /\ req[s].kept \in Vks /\ Goes(s, Idle)
         /\ pending' = [pending EXCEPT ![req[s].name] = req[s].kept]
         /\ UNCHANGED <<mem, path, tmp, data, raced, unsaved>>
<1>1. req[s] # Idle /\ req[s].pc = "restore"
  BY DEF RestorePending, At
<1>2. req[s] \in Work /\ Fields(req[s])
  BY <1>1, AtWork
<1>3. req[s].op = "approve" /\ req[s].name \in Devices /\ req[s].kept \in Vks
  BY <1>1, <1>2 DEF Fields
<1>4. /\ UNCHANGED <<mem, path, tmp, data, raced, unsaved, gen, crashes, crossed, overtaken>>
      /\ req' = [req EXCEPT ![s] = Idle]
  BY DEF RestorePending, files, proc, hist
<1>5. Goes(s, Idle)
  BY <1>1, <1>4, FilesStay, MemStays DEF Goes
<1>6. QED
  BY <1>1, <1>3, <1>4, <1>5 DEF RestorePending

LEMMA EffectGoes ==
  ASSUME TypeInv, NEW s \in Savers, Effect(s)
  PROVE  /\ req[s].pc = "effect" /\ req[s].op = "rotate" /\ req[s].name = "psk"
         /\ Goes(s, Idle) /\ mem'["psk"] = req[s].val
         /\ UNCHANGED <<path, tmp, data, raced, unsaved, pending>>
<1>1. req[s] # Idle /\ req[s].pc = "effect"
  BY DEF Effect, At
<1>2. req[s] \in Work /\ Fields(req[s]) /\ req[s].name \in Names
  BY <1>1, AtWork
<1>3. req[s].op = "rotate" /\ req[s].name = "psk" /\ req[s].val \in {"psk"} \X (0..MaxGen)
  BY <1>1, <1>2 DEF Fields
<1>4. /\ UNCHANGED <<path, tmp, data, raced, unsaved, pending, gen, crashes, crossed, overtaken>>
      /\ req' = [req EXCEPT ![s] = Idle] /\ mem' = [mem EXCEPT !["psk"] = req[s].val]
  BY DEF Effect, files, proc, hist
<1>5. req[s].val \in Value("psk")
  BY <1>3, NamesAndFiles DEF Value, Forms
<1>6. MemType' /\ mem'["psk"] = req[s].val /\ \A n \in Names \ {"psk"} : mem'[n] = mem[n]
  BY <1>2, <1>3, <1>4, <1>5, NewValue DEF TypeInv
<1>7. Goes(s, Idle)
  BY <1>1, <1>3, <1>4, <1>6, FilesStay DEF Goes
<1>8. QED
  BY <1>1, <1>3, <1>4, <1>6, <1>7

LEMMA EndGoes ==
  ASSUME TypeInv, NEW s \in Savers, At(s, "saved"), req' = [req EXCEPT ![s] = Idle],
         UNCHANGED <<mem, gen, files, proc, hist>>
  PROVE  /\ req[s].pc = "saved" /\ Goes(s, Idle)
         /\ UNCHANGED <<mem, path, tmp, data, raced, unsaved>>
<1>1. req[s] # Idle /\ req[s].pc = "saved"
  BY DEF At
<1>2. UNCHANGED <<mem, path, tmp, data, raced, unsaved, gen, crashes, crossed, overtaken>>
  BY DEF files, proc, hist
<1>3. QED
  BY <1>1, <1>2, FilesStay, MemStays DEF Goes

----------------------------------------------------------------------------
\* What a step of one request leaves alone.

LEMMA OthersStay ==
  ASSUME TypeInv, NEW s, NEW x, Goes(s, x)
  PROVE  /\ \A t \in Savers \ {s} : req'[t] = req[t]
         /\ req'[s] = x
         /\ \A f \in Files \ {File(s)} : /\ InSave(f)' = InSave(f)
                                         /\ \A t \in InSave(f) : req'[t] = req[t]
                                         /\ \A t \in Savers : Working(t, f)' = Working(t, f)
                                         /\ \A t \in Savers : Working(t, f) => req'[t] = req[t]
                                         /\ \A n \in NamesOf(f) : mem'[n] = mem[n]
                                         /\ Disk(f)' = Disk(f)
<1>1. /\ \A t \in Savers \ {s} : req'[t] = req[t]
      /\ req'[s] = x /\ s \in Savers /\ req[s] # Idle
      /\ x # Idle => x.name = req[s].name
  BY DEF Goes, TypeInv, WorkType
<1>2. ASSUME NEW f \in Files \ {File(s)}
      PROVE  /\ InSave(f)' = InSave(f)
             /\ \A t \in InSave(f) : req'[t] = req[t]
             /\ \A t \in Savers : Working(t, f)' = Working(t, f)
             /\ \A t \in Savers : Working(t, f) => req'[t] = req[t]
             /\ \A n \in NamesOf(f) : mem'[n] = mem[n]
             /\ Disk(f)' = Disk(f)
  <2>1. InSave(f)' = InSave(f) /\ \A t \in InSave(f) : req'[t] = req[t]
    BY <1>1 DEF InSave, File
  <2>2. /\ \A t \in Savers : Working(t, f)' = Working(t, f)
        /\ \A t \in Savers : Working(t, f) => req'[t] = req[t]
    BY <1>1 DEF Working, File
  <2>3. \A n \in NamesOf(f) : n # req[s].name /\ mem'[n] = mem[n]
    BY NamesAndFiles DEF Goes, File
  <2>4. Disk(f)' = Disk(f)
    BY DEF Goes, Disk
  <2>5. QED
    BY <2>1, <2>2, <2>3, <2>4
<1>3. QED
  BY <1>1, <1>2

LEMMA ElsewhereSave ==
  ASSUME TypeInv, SaveInv, NEW s, NEW x, Goes(s, x), NEW f \in Files, f # File(s)
  PROVE  SaveAt(f)'
<1>1. SaveAt(f)
  BY DEF SaveInv
<1>2. /\ InSave(f)' = InSave(f) /\ \A t \in InSave(f) : req'[t] = req[t]
      /\ tmp'[f] = tmp[f] /\ path'[f] = path[f] /\ data'[f] = data[f]
      /\ (f \in raced') = (f \in raced) /\ crossed' = crossed
  <2>1. InSave(f)' = InSave(f) /\ \A t \in InSave(f) : req'[t] = req[t]
    BY OthersStay
  <2>2. QED
    BY <2>1 DEF Goes
<1>3. QED
  BY <1>1, <1>2 DEF SaveAt

LEMMA ProgressStays ==
  ASSUME NEW t, NEW f \in Files, Progress(t, f), req'[t] = req[t], t \in Savers,
         \A n \in NamesOf(f) : mem'[n] = mem[n], Disk(f)' = Disk(f),
         (f \in unsaved') = (f \in unsaved)
  PROVE  Progress(t, f)'
<1>1. Same(f) => Same(f)'
  BY DEF Same
<1>2. SameBut(f, req[t].name) => SameBut(f, req[t].name)'
  BY DEF SameBut
<1>3. QED
  BY <1>1, <1>2 DEF Progress

LEMMA ElsewhereSettled ==
  ASSUME TypeInv, SettledInv, NEW s, NEW x, Goes(s, x), NEW f \in Files, f # File(s)
  PROVE  SettledAt(f)'
<1>1. SettledAt(f)
  BY DEF SettledInv
<1>2. /\ \A t \in Savers : Working(t, f)' = Working(t, f)
      /\ \A t \in Savers : Working(t, f) => req'[t] = req[t]
      /\ \A n \in NamesOf(f) : mem'[n] = mem[n]
      /\ Disk(f)' = Disk(f) /\ crossed' = crossed /\ (f \in unsaved') = (f \in unsaved)
  <2>1. /\ \A t \in Savers : Working(t, f)' = Working(t, f)
        /\ \A t \in Savers : Working(t, f) => req'[t] = req[t]
        /\ \A n \in NamesOf(f) : mem'[n] = mem[n]
        /\ Disk(f)' = Disk(f)
    BY OthersStay
  <2>2. QED
    BY <2>1 DEF Goes
<1>3. SUFFICES ASSUME f \notin crossed PROVE SettledAt(f)'
  BY <1>2 DEF SettledAt
<1>4. Quiet(f)' = Quiet(f)
  BY <1>2 DEF Quiet, Working
<1>5. Same(f)' = Same(f)
  BY <1>2 DEF Same
<1>6. ASSUME NEW t \in Savers, Working(t, f)'
      PROVE  Progress(t, f)' /\ \A u \in Savers : Working(u, f)' => u = t
  <2>1. Working(t, f) /\ Progress(t, f) /\ \A u \in Savers : Working(u, f) => u = t
    BY <1>1, <1>2, <1>3, <1>6 DEF SettledAt
  <2>2. QED
    BY <1>2, <2>1, ProgressStays
<1>7. QED
  BY <1>1, <1>2, <1>3, <1>4, <1>5, <1>6 DEF SettledAt

\* While no two requests work on a file, what its own request leaves behind
\* is all there is to know.
LEMMA OwnSettled ==
  ASSUME TypeInv, SettledInv, NEW s, NEW x, Goes(s, x), NEW f, f = File(s)
  PROVE  /\ f \in Files /\ s \in Savers
         /\ f \notin crossed => Progress(s, f) /\ Disk(f) \in GoodText(f)
         /\ (f \notin crossed => /\ Disk(f)' \in GoodText(f)
                                 /\ x # Idle => Progress(s, f)'
                                 /\ (x = Idle /\ f \notin unsaved') => Same(f)')
              => SettledAt(f)'
<1>1. s \in Savers /\ req[s] # Idle /\ f \in Files /\ crossed' = crossed
  <2>1. s \in Savers /\ req[s] # Idle /\ crossed' = crossed
    BY DEF Goes
  <2>2. QED
    BY <2>1, AtWork
<1>2. SettledAt(f) /\ Working(s, f)
  BY <1>1 DEF SettledInv, Working, File
<1>3. req'[s] = x /\ \A t \in Savers \ {s} : req'[t] = req[t]
  BY OthersStay
<1>4. ASSUME f \notin crossed, Disk(f)' \in GoodText(f), x # Idle => Progress(s, f)',
             (x = Idle /\ f \notin unsaved') => Same(f)'
      PROVE  SettledAt(f)'
  <2>1. \A t \in Savers \ {s} : ~ Working(t, f)
    BY <1>1, <1>2, <1>4 DEF SettledAt
  <2>2. \A t \in Savers \ {s} : ~ Working(t, f)'
    BY <1>3, <2>1 DEF Working
  <2>3. (Quiet(f)' /\ f \notin unsaved') => Same(f)'
    <3>1. x # Idle => x.name = req[s].name
      BY DEF Goes
    <3>2. x # Idle => ~ Quiet(f)'
      BY <1>1, <1>3, <3>1 DEF Quiet, File
    <3>3. QED
      BY <1>4, <3>2
  <2>4. ASSUME NEW t \in Savers, Working(t, f)'
        PROVE  Progress(t, f)' /\ \A u \in Savers : Working(u, f)' => u = t
    <3>1. t = s /\ x # Idle
      BY <1>3, <2>2, <2>4 DEF Working
    <3>2. QED
      BY <1>4, <2>2, <3>1
  <2>5. QED
    BY <1>4, <2>3, <2>4 DEF SettledAt
<1>5. f \in crossed => SettledAt(f)'
  BY <1>1 DEF SettledAt
<1>6. f \notin crossed => Progress(s, f) /\ Disk(f) \in GoodText(f)
  BY <1>1, <1>2 DEF SettledAt
<1>7. QED
  BY <1>1, <1>4, <1>5, <1>6

Saves(x) == x # Idle /\ x.pc \in SaveSteps \cup {"effect"}

LEMMA OwnSave ==
  ASSUME TypeInv, SaveInv, NEW s, NEW x, Goes(s, x), NEW f, f = File(s)
  PROVE  /\ f \in Files /\ s \in Savers /\ crossed' = crossed
         /\ req'[s] = x /\ \A t \in Savers \ {s} : req'[t] = req[t]
         /\ InSave(f)' = IF Saves(x) THEN InSave(f) \cup {s} ELSE InSave(f) \ {s}
         /\ s \in InSave(f) <=> Saves(req[s])
         /\ (s \in InSave(f) /\ (f \notin raced \/ f \notin crossed)) =>
              /\ InSave(f) = {s}
              /\ req[s].pc \in {"write", "rename"} => tmp[f] = req[s].fd
              /\ req[s].pc = "write" => data[f][tmp[f]] = Empty
              /\ req[s].pc = "rename" => data[f][tmp[f]] = req[s].snap
<1>1. /\ s \in Savers /\ req[s] # Idle /\ crossed' = crossed
      /\ x # Idle => x.name = req[s].name
  BY DEF Goes
<1>2. f \in Files
  BY <1>1, AtWork
<1>3. req'[s] = x /\ \A t \in Savers \ {s} : req'[t] = req[t]
  BY OthersStay
<1>4. InSave(f)' = IF Saves(x) THEN InSave(f) \cup {s} ELSE InSave(f) \ {s}
  BY <1>1, <1>3 DEF InSave, Saves, SaveSteps, File
<1>5. s \in InSave(f) <=> Saves(req[s])
  BY <1>1 DEF InSave, Saves, SaveSteps, File
<1>6. SaveAt(f)
  BY <1>2 DEF SaveInv
<1>7. QED
  BY <1>1, <1>2, <1>3, <1>4, <1>5, <1>6 DEF SaveAt

\* A step outside the save leaves the files as they are.
LEMMA OutsideSave ==
  ASSUME TypeInv, SaveInv, NEW s, NEW x, Goes(s, x), ~ Saves(req[s]), ~ Saves(x),
         UNCHANGED <<path, tmp, data, raced>>
  PROVE  SaveInv'
<1> SUFFICES ASSUME NEW f \in Files PROVE SaveAt(f)'
  BY DEF SaveInv
<1>1. CASE f # File(s)
  BY <1>1, ElsewhereSave
<1>2. CASE f = File(s)
  <2>1. /\ InSave(f)' = InSave(f) /\ crossed' = crossed
        /\ \A t \in Savers \ {s} : req'[t] = req[t]
    BY <1>2, OwnSave
  <2>2. \A t \in InSave(f) : t \in Savers \ {s}
    BY <1>2, OwnSave DEF InSave
  <2>3. QED
    BY <2>1, <2>2 DEF SaveInv, SaveAt
<1>3. QED
  BY <1>1, <1>2

\* A save that ends leaves nobody with a claim on the temp name.
LEMMA EndOfSave ==
  ASSUME TypeInv, SaveInv, NEW s, NEW x, Goes(s, x), Saves(req[s]), raced' = raced,
         NEW f, f = File(s), tmp'[f] = None, path'[f] \in Inodes, ~ Saves(x) \/ x.pc = "effect"
  PROVE  SaveInv'
<1> SUFFICES ASSUME NEW g \in Files PROVE SaveAt(g)'
  BY DEF SaveInv
<1>1. CASE g # File(s)
  BY <1>1, ElsewhereSave
<1>2. CASE g = File(s)
  <2>1. tmp'[f] # path'[f]
    BY RegistryAssumption, FS_CardinalityType DEF Inodes, Savers
  <2>2. /\ crossed' = crossed /\ req'[s] = x
        /\ (f \notin raced \/ f \notin crossed) => InSave(f)' \subseteq {s}
    BY OwnSave
  <2>3. Saves(x) => x.pc = "effect"
    OBVIOUS
  <2>4. \A t \in InSave(f)' : t = s => Saves(x)
    BY OwnSave
  <2>5. QED
    BY <1>2, <2>1, <2>2, <2>3, <2>4 DEF SaveAt
<1>3. QED
  BY <1>1, <1>2

LEMMA SaveStepKeeps ==
  ASSUME TypeInv, SaveInv, SettledInv, NEW s \in Savers, SaveStep(s)
  PROVE  SaveInv'
<1>1. ASSUME Serialize(s) PROVE SaveInv'
  <2>1. PICK x : Goes(s, x) /\ x # Idle /\ x.pc = "create"
    BY <1>1, SerializeGoes
  <2>2. /\ UNCHANGED <<path, tmp, data>> /\ ~ Saves(req[s]) /\ Saves(x)
        /\ raced' = IF InSave(File(s)) = {} THEN raced ELSE raced \cup {File(s)}
    BY <1>1, <2>1 DEF Serialize, At, files, Saves, SaveSteps
  <2>3. ASSUME NEW f \in Files PROVE SaveAt(f)'
    <3>1. CASE f # File(s)
      BY <2>1, <3>1, ElsewhereSave
    <3>2. CASE f = File(s)
      <4>1. /\ InSave(f)' = InSave(f) \cup {s} /\ crossed' = crossed /\ req'[s] = x
        BY <2>1, <2>2, <3>2, OwnSave
      <4>2. InSave(f) = {} \/ (f \in raced' /\ f \in crossed')
        <5>1. SUFFICES ASSUME InSave(f) # {}, f \notin crossed PROVE FALSE
          BY <2>2, <3>2, <4>1
        <5>2. PICK t \in InSave(f) : TRUE
          BY <5>1
        <5>3. Working(t, f) /\ t \in Savers /\ Working(s, f) /\ t # s
          BY <2>1, <2>2, <3>2, OwnSave DEF Working, InSave, Goes, File
        <5>4. QED
          BY <5>1, <5>3 DEF SettledInv, SettledAt
      <4>3. tmp'[f] # path'[f]
        BY <2>2 DEF SaveInv, SaveAt
      <4>4. QED
        BY <2>1, <4>1, <4>2, <4>3 DEF SaveAt
    <3>3. QED
      BY <3>1, <3>2
  <2>4. QED
    BY <2>3 DEF SaveInv
<1>2. ASSUME CreateTmp(s) PROVE SaveInv'
  <2>1. PICK x : \E i \in Inodes :
           /\ Goes(s, x) /\ x # Idle /\ x.pc = "write" /\ x.fd = i
           /\ i # path[File(s)] /\ tmp'[File(s)] = i /\ data'[File(s)][i] = Empty
           /\ UNCHANGED <<path, raced>>
    BY <1>2, CreateGoes
  <2>2. Saves(x) /\ Saves(req[s])
    BY <1>2, <2>1 DEF CreateTmp, At, Saves, SaveSteps
  <2>3. ASSUME NEW f \in Files PROVE SaveAt(f)'
    <3>1. CASE f # File(s)
      BY <2>1, <3>1, ElsewhereSave
    <3>2. CASE f = File(s)
      <4>1. /\ crossed' = crossed /\ req'[s] = x
            /\ (f \notin raced \/ f \notin crossed) => InSave(f)' = {s}
        BY <2>1, <2>2, <3>2, OwnSave
      <4>2. QED
        BY <2>1, <3>2, <4>1 DEF SaveAt
    <3>3. QED
      BY <3>1, <3>2
  <2>4. QED
    BY <2>3 DEF SaveInv
<1>3. ASSUME WriteTmp(s) PROVE SaveInv'
  <2>1. PICK x : /\ Goes(s, x) /\ x # Idle /\ x.pc = "rename" /\ x.snap = req[s].snap
                 /\ x.fd = req[s].fd
    BY <1>3, WriteGoes
  <2>2. /\ data[File(s)][req[s].fd] = Empty => data'[File(s)][req[s].fd] = req[s].snap
        /\ UNCHANGED <<path, tmp, raced>> /\ req[s].pc = "write"
    BY <1>3, WriteGoes
  <2>3. Saves(x) /\ Saves(req[s])
    BY <2>1, <2>2 DEF Goes, Saves, SaveSteps
  <2>4. ASSUME NEW f \in Files PROVE SaveAt(f)'
    <3>1. CASE f # File(s)
      BY <2>1, <3>1, ElsewhereSave
    <3>2. CASE f = File(s)
      <4>1. /\ crossed' = crossed /\ req'[s] = x
            /\ (f \notin raced \/ f \notin crossed) => 
                  InSave(f)' = {s} /\ tmp[f] = req[s].fd /\ data[f][tmp[f]] = Empty
        BY <2>1, <2>2, <2>3, <3>2, OwnSave
      <4>2. tmp[f] # path[f]
        BY DEF SaveInv, SaveAt
      <4>3. QED
        BY <2>1, <2>2, <3>2, <4>1, <4>2 DEF SaveAt
    <3>3. QED
      BY <3>1, <3>2
  <2>5. QED
    BY <2>4 DEF SaveInv
<1>4. ASSUME RenameTmp(s) PROVE SaveInv'
  <2>1. PICK x : Goes(s, x) /\ x # Idle /\ x.pc \in {"effect", "saved"}
    BY <1>4, RenameGoes
  <2>2. /\ Saves(req[s]) /\ raced' = raced /\ tmp'[File(s)] = None /\ path'[File(s)] \in Inodes
        /\ ~ Saves(x) \/ x.pc = "effect"
    <3>1. req[s].pc = "rename" /\ raced' = raced /\ tmp'[File(s)] = None /\ path'[File(s)] \in Inodes
      BY <1>4, RenameGoes
    <3>2. QED
      BY <2>1, <3>1 DEF Goes, Saves, SaveSteps
  <2>3. QED
    BY <2>1, <2>2, EndOfSave
<1>5. ASSUME SaveFails(s) PROVE SaveInv'
  <2>1. PICK x : Goes(s, x) /\ x # Idle /\ x.pc = "failed"
    BY <1>5, SaveFailsGoes
  <2>2. req[s].pc \in SaveSteps /\ raced' = raced /\ path' = path /\ tmp'[File(s)] = None
    BY <1>5, SaveFailsGoes
  <2>3. Saves(req[s]) /\ ~ Saves(x) /\ path'[File(s)] \in Inodes
    <3>1. File(s) \in Files
      BY <2>1, AtWork DEF Goes
    <3>2. QED
      BY <2>1, <2>2, <3>1 DEF Saves, SaveSteps, Goes, TypeInv, FileType
  <2>4. QED
    BY <2>1, <2>2, <2>3, EndOfSave
<1>6. ASSUME Admit(s) PROVE SaveInv'
  <2>1. PICK x : Goes(s, x) /\ x # Idle /\ x.pc \in {"serialize", "restore"}
    BY <1>6, AdmitGoes
  <2>2. req[s].pc = "admit" /\ UNCHANGED <<path, tmp, data, raced>>
    BY <1>6, AdmitGoes
  <2>3. QED
    BY <2>1, <2>2, OutsideSave DEF Saves, SaveSteps
<1>7. ASSUME Failed(s) PROVE SaveInv'
  <2>1. PICK x : Goes(s, x) /\ (x # Idle => x.pc \in {"restore", "saved"})
    BY <1>7, FailedGoes
  <2>2. req[s].pc = "failed" /\ UNCHANGED <<path, tmp, data, raced>>
    BY <1>7, FailedGoes
  <2>3. QED
    BY <2>1, <2>2, OutsideSave DEF Saves, SaveSteps
<1>8. ASSUME RestorePending(s) PROVE SaveInv'
  <2>1. Goes(s, Idle) /\ req[s].pc = "restore" /\ UNCHANGED <<path, tmp, data, raced>>
    BY <1>8, RestoreGoes
  <2>2. QED
    BY <2>1, OutsideSave DEF Saves, SaveSteps
<1>9. ASSUME Effect(s) PROVE SaveInv'
  <2>1. Goes(s, Idle) /\ req[s].pc = "effect" /\ UNCHANGED <<path, tmp, data, raced>>
    BY <1>9, EffectGoes
  <2>2. ASSUME NEW f \in Files PROVE SaveAt(f)'
    <3>1. CASE f # File(s)
      BY <2>1, <3>1, ElsewhereSave
    <3>2. CASE f = File(s)
      <4>1. crossed' = crossed /\ InSave(f)' \subseteq InSave(f) /\ \A t \in InSave(f)' : req'[t] = req[t]
        <5>1. ~ Saves(Idle)
          BY DEF Saves
        <5>2. InSave(f)' = InSave(f) \ {s} /\ crossed' = crossed /\ \A t \in Savers \ {s} : req'[t] = req[t]
          BY <2>1, <3>2, <5>1, OwnSave
        <5>3. QED
          BY <5>2 DEF InSave
      <4>2. QED
        BY <2>1, <4>1 DEF SaveInv, SaveAt
    <3>3. QED
      BY <3>1, <3>2
  <2>3. QED
    BY <2>2 DEF SaveInv
<1>10. ASSUME Saved(s) PROVE SaveInv'
  <2>1. Goes(s, Idle) /\ req[s].pc = "saved" /\ UNCHANGED <<path, tmp, data, raced>>
    BY <1>10, EndGoes DEF Saved
  <2>2. QED
    BY <2>1, OutsideSave DEF Saves, SaveSteps
<1>11. QED
  BY <1>1, <1>2, <1>3, <1>4, <1>5, <1>6, <1>7, <1>8, <1>9, <1>10 DEF SaveStep

\* Memory and file of f stay, and so does what is known about them.
LEMMA SameStays ==
  ASSUME NEW f \in Files, \A n \in NamesOf(f) : mem'[n] = mem[n], Disk(f)' = Disk(f)
  PROVE  /\ Same(f) => Same(f)'
         /\ \A n : SameBut(f, n) => SameBut(f, n)'
BY DEF Same, SameBut

\* A step of a request that changes neither memory nor what a reader finds.
LEMMA QuietStep ==
  ASSUME TypeInv, SettledInv, NEW s, NEW x, Goes(s, x), NEW f, f = File(s),
         mem' = mem, Disk(f)' = Disk(f), unsaved' = unsaved, x # Idle,
         x.pc # "effect",
         f \notin crossed =>
           /\ (x.op # "rotate" /\ x.pc \in SaveSteps) => \A n \in NamesOf(f) : x.snap[n] = mem[n]
           /\ (x.op = "rotate" /\ x.pc \in SaveSteps) => x.snap["psk"] = x.val,
         req[s].pc # "effect",
         x.pc \in SaveSteps \cup {"failed"} /\ req[s].pc \in SaveSteps \cup {"serialize"}
  PROVE  SettledInv'
<1> SUFFICES ASSUME NEW g \in Files PROVE SettledAt(g)'
  BY DEF SettledInv
<1>1. CASE g # File(s)
  BY <1>1, ElsewhereSettled
<1>2. CASE g = File(s)
  <2>1. SUFFICES ASSUME f \notin crossed PROVE Disk(f)' \in GoodText(f) /\ Progress(s, f)'
    BY <1>2, OwnSettled
  <2>2. Progress(s, f) /\ Disk(f) \in GoodText(f) /\ f \in Files
    BY <2>1, OwnSettled
  <2>3. req'[s] = x /\ x.op = req[s].op /\ x.name = req[s].name
    <3>1. req'[s] = x
      BY OthersStay
    <3>2. QED
      BY <3>1 DEF Goes
  <2>4. (Same(f) => Same(f)') /\ (SameBut(f, x.name) => SameBut(f, x.name)')
    BY <2>2, SameStays
  <2>5. Progress(s, f)'
    BY <2>1, <2>2, <2>3, <2>4 DEF Progress, SaveSteps
  <2>6. QED
    BY <2>2, <2>5
<1>3. QED
  BY <1>1, <1>2

\* A step of a request after which the file is memory again, or is known to lag.
LEMMA ClosingStep ==
  ASSUME TypeInv, SettledInv, NEW s, NEW x, Goes(s, x), NEW f, f = File(s),
         UNCHANGED <<path, data>>,
         x # Idle => x.pc \in {"restore", "saved"},
         (f \notin crossed /\ f \notin unsaved') => Same(f)',
         x # Idle => x.op # "rotate"
  PROVE  SettledInv'
<1> SUFFICES ASSUME NEW g \in Files PROVE SettledAt(g)'
  BY DEF SettledInv
<1>1. CASE g # File(s)
  BY <1>1, ElsewhereSettled
<1>2. CASE g = File(s)
  <2>1. Disk(f)' = Disk(f)
    BY DEF Disk
  <2>2. SUFFICES ASSUME f \notin crossed, x # Idle PROVE Progress(s, f)'
    BY <1>2, <2>1, OwnSettled
  <2>3. req'[s] = x
    BY OthersStay
  <2>4. QED
    BY <2>2, <2>3 DEF Progress, SaveSteps
<1>3. QED
  BY <1>1, <1>2

LEMMA SettledStepKeeps ==
  ASSUME TypeInv, SaveInv, SettledInv, NEW s \in Savers, SaveStep(s)
  PROVE  SettledInv'
<1>o. ASSUME NEW x, Goes(s, x)
      PROVE  /\ File(s) \in Files /\ req[s] \in Work /\ Fields(req[s])
             /\ req[s].name \in NamesOf(File(s))
             /\ req'[s] = x /\ (x # Idle => x.op = req[s].op /\ x.name = req[s].name /\ x.val = req[s].val)
             /\ File(s) \notin crossed => Progress(s, File(s)) /\ Disk(File(s)) \in GoodText(File(s))
             /\ \A n \in NamesOf(File(s)) \ {req[s].name} : mem'[n] = mem[n]
  <2>1. req[s] # Idle /\ (x # Idle => x.op = req[s].op /\ x.name = req[s].name /\ x.val = req[s].val)
        /\ \A n \in Names \ {req[s].name} : mem'[n] = mem[n]
    BY <1>o DEF Goes
  <2>2. File(s) \in Files /\ req[s] \in Work /\ Fields(req[s]) /\ req[s].name \in NamesOf(File(s))
    BY <2>1, AtWork
  <2>3. req'[s] = x
    BY <1>o, OthersStay
  <2>4. File(s) \notin crossed => Progress(s, File(s)) /\ Disk(File(s)) \in GoodText(File(s))
    BY <1>o, OwnSettled
  <2>5. QED
    BY <2>1, <2>2, <2>3, <2>4, NamesAndFiles
<1>1. ASSUME Serialize(s) PROVE SettledInv'
  <2>1. PICK x : /\ Goes(s, x) /\ x # Idle /\ x.pc = "create"
                 /\ x.op = "rotate" => x.snap = [n \in {"psk"} |-> req[s].val]
                 /\ x.op # "rotate" => x.snap = [n \in NamesOf(File(s)) |-> mem[n]]
    BY <1>1, SerializeGoes
  <2>2. UNCHANGED <<mem, path, data, unsaved>> /\ req[s].pc = "serialize"
    BY <1>1 DEF Serialize, At, files
  <2>3. x.val = req[s].val
    BY <1>o, <2>1
  <2>4. ASSUME NEW f, f = File(s) PROVE SettledInv'
    <3>1. Disk(f)' = Disk(f)
      BY <2>2 DEF Disk
    <3>2. QED
      BY <2>1, <2>2, <2>3, <2>4, <3>1, QuietStep DEF SaveSteps
  <2>5. QED
    BY <2>4
<1>2. ASSUME CreateTmp(s) PROVE SettledInv'
  <2>1. PICK x : \E i \in Inodes :
           /\ Goes(s, x) /\ x # Idle /\ x.pc = "write" /\ x.snap = req[s].snap
           /\ i # path[File(s)] 
           /\ \A j \in Inodes \ {i} : data'[File(s)][j] = data[File(s)][j]
           /\ UNCHANGED <<mem, path, unsaved>>
    BY <1>2, CreateGoes
  <2>2. req[s].pc = "create"
    BY <1>2 DEF CreateTmp, At
  <2>3. ASSUME NEW f, f = File(s) PROVE SettledInv'
    <3>1. f \in Files /\ x.op = req[s].op /\ x.val = req[s].val /\ (f \notin crossed => Progress(s, f))
      BY <1>o, <2>1, <2>3
    <3>2. Disk(f)' = Disk(f)
      BY <2>1, <2>3, <3>1, TextsOf DEF Disk
    <3>3. QED
      BY <2>1, <2>2, <2>3, <3>1, <3>2, QuietStep DEF SaveSteps, Progress
  <2>4. QED
    BY <2>3
<1>3. ASSUME WriteTmp(s) PROVE SettledInv'
  <2>1. PICK x : /\ Goes(s, x) /\ x # Idle /\ x.pc = "rename" /\ x.snap = req[s].snap
    BY <1>3, WriteGoes
  <2>2. /\ \A j \in Inodes \ {req[s].fd} : data'[File(s)][j] = data[File(s)][j]
        /\ UNCHANGED <<mem, path, unsaved>> /\ req[s].pc = "write"
    BY <1>3, WriteGoes
  <2>3. ASSUME NEW f, f = File(s), f \notin crossed PROVE SettledInv'
    <3>1. f \in Files /\ x.op = req[s].op /\ x.val = req[s].val /\ Progress(s, f)
      BY <1>o, <2>1, <2>3
    <3>2. req[s].fd # path[f]
      <4>1. Saves(req[s])
        BY <2>1, <2>2 DEF Goes, Saves, SaveSteps
      <4>2. tmp[f] = req[s].fd
        BY <2>1, <2>2, <2>3, <4>1, OwnSave
      <4>3. QED
        BY <3>1, <4>2 DEF SaveInv, SaveAt
    <3>3. Disk(f)' = Disk(f)
      BY <2>2, <2>3, <3>1, <3>2, TextsOf DEF Disk
    <3>4. QED
      BY <2>1, <2>2, <2>3, <3>1, <3>3, QuietStep DEF SaveSteps, Progress
  <2>4. ASSUME NEW f, f = File(s), f \in crossed PROVE SettledInv'
    <3>1. crossed' = crossed
      BY <2>1 DEF Goes
    <3>2. SettledAt(f)'
      BY <2>4, <3>1 DEF SettledAt
    <3>3. QED
      BY <2>1, <2>4, <3>2, ElsewhereSettled DEF SettledInv
  <2>5. QED
    BY <2>3, <2>4
<1>4. ASSUME RenameTmp(s) PROVE SettledInv'
  <2>1. PICK x : /\ Goes(s, x) /\ x # Idle
                 /\ x.pc = IF req[s].op = "rotate" THEN "effect" ELSE "saved"
    BY <1>4, RenameGoes
  <2>2. ASSUME NEW f, f = File(s)
        PROVE  /\ req[s].pc = "rename" /\ path'[f] = tmp[f] /\ data'[f][tmp[f]] = data[f][tmp[f]]
               /\ (f \notin crossed => f \notin unsaved') /\ mem' = mem
    BY <1>4, <2>2, RenameGoes
  <2>3. ASSUME NEW f, f = File(s), f \notin crossed PROVE Disk(f)' \in GoodText(f) /\ Progress(s, f)'
    <3>1. f \in Files /\ x.op = req[s].op /\ x.val = req[s].val /\ Progress(s, f) /\ Fields(req[s]) /\ req'[s] = x
      BY <1>o, <2>1, <2>3
    <3>2. data[f][tmp[f]] = req[s].snap
      <4>1. Saves(req[s])
        BY <2>1, <2>2, <2>3 DEF Goes, Saves, SaveSteps
      <4>2. QED
        BY <2>1, <2>2, <2>3, <4>1, OwnSave
    <3>3. Disk(f)' = req[s].snap
      BY <2>2, <2>3, <3>2 DEF Disk
    <3>4. req[s].snap \in GoodText(f)
      BY <2>2, <2>3, <3>1 DEF Fields, SaveSteps, File
    <3>5. CASE req[s].op = "rotate"
      <4>1. req[s].snap["psk"] = x.val /\ x.pc = "effect"
        BY <2>1, <2>2, <2>3, <3>1, <3>5 DEF Progress, SaveSteps
      <4>2. QED
        BY <3>1, <3>3, <3>4, <3>5, <4>1 DEF Progress, SaveSteps
    <3>6. CASE req[s].op # "rotate"
      <4>1. (\A n \in NamesOf(f) : req[s].snap[n] = mem[n]) /\ x.pc = "saved"
        BY <2>1, <2>2, <2>3, <3>1, <3>6 DEF Progress, SaveSteps
      <4>2. Same(f)'
        BY <2>2, <2>3, <3>3, <4>1 DEF Same
      <4>3. QED
        BY <3>1, <3>3, <3>4, <3>6, <4>1, <4>2 DEF Progress, SaveSteps
    <3>7. QED
      BY <3>5, <3>6
  <2>4. ASSUME NEW f, f = File(s) PROVE SettledAt(f)'
    BY <2>1, <2>3, <2>4, OwnSettled
  <2>5. QED
    BY <2>1, <2>4, ElsewhereSettled DEF SettledInv
<1>5. ASSUME SaveFails(s) PROVE SettledInv'
  <2>1. PICK x : Goes(s, x) /\ x # Idle /\ x.pc = "failed"
    BY <1>5, SaveFailsGoes
  <2>2. /\ req[s].pc \in SaveSteps /\ data'[File(s)][path[File(s)]] = data[File(s)][path[File(s)]]
        /\ UNCHANGED <<mem, path, unsaved>>
    BY <1>5, SaveFailsGoes
  <2>3. ASSUME NEW f, f = File(s) PROVE SettledInv'
    <3>1. Disk(f)' = Disk(f)
      BY <2>2, <2>3 DEF Disk
    <3>2. QED
      BY <2>1, <2>2, <2>3, <3>1, QuietStep DEF SaveSteps
  <2>4. QED
    BY <2>3
<1>6. ASSUME Admit(s) PROVE SettledInv'
  <2>1. PICK x : /\ Goes(s, x) /\ x # Idle
                 /\ \/ x.pc = "serialize" /\ mem[req[s].name] = None
                    \/ x.pc = "restore" /\ mem' = mem
    BY <1>6, AdmitGoes
  <2>2. req[s].pc = "admit" /\ req[s].op = "approve" /\ UNCHANGED <<path, data, unsaved>>
    BY <1>6, AdmitGoes
  <2>3. ASSUME NEW f, f = File(s), f \notin crossed PROVE Disk(f)' \in GoodText(f) /\ Progress(s, f)'
    <3>1. /\ f \in Files /\ x.op = "approve" /\ x.name = req[s].name /\ req'[s] = x /\ Disk(f) \in GoodText(f)
          /\ f \notin unsaved => Same(f)
      BY <1>o, <2>1, <2>2, <2>3 DEF Progress
    <3>2. Disk(f)' = Disk(f)
      BY <2>2 DEF Disk
    <3>3. CASE x.pc = "serialize" /\ mem[req[s].name] = None
      <4>1. f \notin unsaved => SameBut(f, x.name)'
        BY <1>o, <2>1, <2>3, <3>1, <3>2, <3>3 DEF Same, SameBut
      <4>2. QED
        BY <2>2, <3>1, <3>2, <3>3, <4>1 DEF Progress, SaveSteps
    <3>4. CASE x.pc = "restore" /\ mem' = mem
      <4>1. f \notin unsaved => Same(f)'
        BY <3>1, <3>2, <3>4 DEF Same
      <4>2. QED
        BY <2>2, <3>1, <3>2, <3>4, <4>1 DEF Progress, SaveSteps
    <3>5. QED
      BY <2>1, <3>3, <3>4
  <2>4. ASSUME NEW f, f = File(s) PROVE SettledAt(f)'
    BY <2>1, <2>3, <2>4, OwnSettled
  <2>5. QED
    BY <2>1, <2>4, ElsewhereSettled DEF SettledInv
<1>7. ASSUME Failed(s) PROVE SettledInv'
  <2>1. PICK x :
          /\ Goes(s, x)
          /\ \/ /\ req[s].op \in {"register", "create"} /\ x = Idle
                /\ mem'[req[s].name] = None /\ unsaved' = unsaved
             \/ /\ req[s].op = "approve" /\ x # Idle /\ x.pc = "restore"
                /\ mem'[req[s].name] = None /\ unsaved' = unsaved
             \/ req[s].op = "rotate" /\ x = Idle /\ mem' = mem /\ unsaved' = unsaved
             \/ /\ req[s].op \notin {"register", "create", "approve", "rotate"}
                /\ x = Idle \/ (x # Idle /\ x.pc = "saved")
                /\ mem' = mem /\ File(s) \in unsaved'
    BY <1>7, FailedGoes
  <2>2. req[s].pc = "failed" /\ UNCHANGED <<path, data>>
    BY <1>7, FailedGoes
  <2>3. ASSUME NEW f, f = File(s) PROVE SettledInv'
    <3>1. x # Idle => x.pc \in {"restore", "saved"} /\ x.op # "rotate"
      BY <1>o, <2>1
    <3>2. ASSUME f \notin crossed, f \notin unsaved' PROVE Same(f)'
      <4>1. Progress(s, f) /\ f \in Files /\ Disk(f)' = Disk(f)
            /\ \A n \in NamesOf(f) \ {req[s].name} : mem'[n] = mem[n]
        BY <1>o, <2>1, <2>2, <2>3, <3>2 DEF Disk
      <4>2. CASE req[s].op \in {"register", "create", "approve"} /\ mem'[req[s].name] = None /\ unsaved' = unsaved
        <5>1. SameBut(f, req[s].name)
          BY <2>2, <3>2, <4>1, <4>2 DEF Progress
        <5>2. QED
          BY <4>1, <4>2, <5>1 DEF Same, SameBut
      <4>3. CASE req[s].op = "rotate" /\ mem' = mem /\ unsaved' = unsaved
        <5>1. Same(f)
          BY <2>2, <3>2, <4>1, <4>3 DEF Progress
        <5>2. QED
          BY <4>1, <4>3, <5>1 DEF Same
      <4>4. QED
        BY <2>1, <2>3, <3>2, <4>2, <4>3
    <3>3. QED
      BY <2>1, <2>2, <2>3, <3>1, <3>2, ClosingStep
  <2>4. QED
    BY <2>3
<1>8. ASSUME RestorePending(s) \/ Saved(s) PROVE SettledInv'
  <2>1. Goes(s, Idle) /\ req[s].pc \in {"restore", "saved"} /\ UNCHANGED <<mem, path, data, unsaved>>
    BY <1>8, RestoreGoes, EndGoes DEF Saved
  <2>2. ASSUME NEW f, f = File(s) PROVE SettledInv'
    <3>1. ASSUME f \notin crossed, f \notin unsaved' PROVE Same(f)'
      <4>1. Progress(s, f) /\ f \in Files /\ Disk(f)' = Disk(f)
        BY <1>o, <2>1, <2>2, <3>1 DEF Disk
      <4>2. Same(f)
        BY <2>1, <3>1, <4>1 DEF Progress
      <4>3. QED
        BY <2>1, <4>1, <4>2 DEF Same
    <3>2. QED
      BY <2>1, <2>2, <3>1, ClosingStep
  <2>3. QED
    BY <2>2
<1>9. ASSUME Effect(s) PROVE SettledInv'
  <2>1. /\ Goes(s, Idle) /\ req[s].pc = "effect" /\ req[s].name = "psk" /\ mem'["psk"] = req[s].val
        /\ UNCHANGED <<path, data, unsaved>>
    BY <1>9, EffectGoes
  <2>2. ASSUME NEW f, f = File(s) PROVE SettledInv'
    <3>1. ASSUME f \notin crossed, f \notin unsaved' PROVE Same(f)'
      <4>1. Progress(s, f) /\ Disk(f)' = Disk(f)
        BY <1>o, <2>1, <2>2, <3>1 DEF Disk
      <4>2. f = "server" /\ NamesOf(f) = {"psk"}
        BY <2>1, <2>2, NamesAndFiles DEF File
      <4>3. QED
        BY <2>1, <4>1, <4>2 DEF Same, Progress
    <3>2. QED
      BY <2>1, <2>2, <3>1, ClosingStep
  <2>3. QED
    BY <2>2
<1>10. QED
  BY <1>1, <1>2, <1>3, <1>4, <1>5, <1>6, <1>7, <1>8, <1>9 DEF SaveStep

----------------------------------------------------------------------------
\* The other steps: a request begins, the process restarts, nothing happens.

LEMMA StartsStay ==
  ASSUME TypeInv, NEW s, NEW r, Starts(s, r)
  PROVE  /\ s \in Savers /\ req'[s] = r /\ \A t \in Savers \ {s} : req'[t] = req[t]
         /\ r # Idle /\ r.name \in Names /\ FileOf(r.name) \in Files
         /\ req[s] = Idle
<1>1. s \in Savers /\ req[s] = Idle /\ r \in Work /\ req' = [req EXCEPT ![s] = r]
  BY DEF Starts
<1>2. r # Idle /\ r.name \in Names
  BY <1>1 DEF Work, Idle
<1>3. QED
  BY <1>1, <1>2, NamesAndFiles DEF TypeInv, WorkType

LEMMA StartsSave ==
  ASSUME TypeInv, SaveInv, NEW s, NEW r, Starts(s, r)
  PROVE  SaveInv'
<1> SUFFICES ASSUME NEW f \in Files PROVE SaveAt(f)'
  BY DEF SaveInv
<1>1. /\ s \in Savers /\ req'[s] = r /\ \A t \in Savers \ {s} : req'[t] = req[t]
      /\ r # Idle /\ req[s] = Idle
  BY StartsStay
<1>2. r.pc \in {"admit", "serialize"} /\ UNCHANGED <<path, tmp, data, raced>> /\ crossed \subseteq crossed'
  BY DEF Starts, Crossing
<1>3. InSave(f)' = InSave(f)
  BY <1>1, <1>2 DEF InSave
<1>4. \A t \in InSave(f) : req'[t] = req[t]
  BY <1>1 DEF InSave
<1>5. QED
  BY <1>2, <1>3, <1>4 DEF SaveInv, SaveAt

LEMMA StartsSettled ==
  ASSUME TypeInv, SettledInv, NEW s, NEW r, Starts(s, r)
  PROVE  SettledInv'
<1> SUFFICES ASSUME NEW f \in Files PROVE SettledAt(f)'
  BY DEF SettledInv
<1>1. /\ s \in Savers /\ req'[s] = r /\ \A t \in Savers \ {s} : req'[t] = req[t]
      /\ r # Idle /\ req[s] = Idle /\ r.name \in Names
  BY StartsStay
<1>2. /\ UNCHANGED <<path, data, unsaved>> /\ crossed' = Crossing(FileOf(r.name))
      /\ \A n \in Names \ {r.name} : mem'[n] = mem[n]
      /\ r.pc = IF r.op = "approve" THEN "admit" ELSE "serialize"
      /\ r.op \in {"register", "create"} => mem[r.name] = None
      /\ r.op \in {"approve", "rotate"} => mem' = mem
  BY DEF Starts
<1>3. Disk(f)' = Disk(f)
  BY <1>2 DEF Disk
<1>4. SettledAt(f)
  BY DEF SettledInv
<1>5. CASE f # FileOf(r.name)
  <2>1. \A n \in NamesOf(f) : mem'[n] = mem[n]
    BY <1>2, <1>5, NamesAndFiles
  <2>2. /\ \A t \in Savers : Working(t, f)' = Working(t, f)
        /\ \A t \in Savers : Working(t, f) => req'[t] = req[t]
    BY <1>1, <1>5 DEF Working
  <2>3. (f \in crossed') = (f \in crossed)
    BY <1>2, <1>5 DEF Crossing
  <2>4. SUFFICES ASSUME f \notin crossed PROVE SettledAt(f)'
    BY <2>3 DEF SettledAt
  <2>5. Quiet(f)' = Quiet(f)
    BY <2>2 DEF Quiet, Working
  <2>6. Same(f)' = Same(f)
    BY <1>3, <2>1 DEF Same
  <2>7. ASSUME NEW t \in Savers, Working(t, f)'
        PROVE  Progress(t, f)' /\ \A u \in Savers : Working(u, f)' => u = t
    <3>1. Working(t, f) /\ Progress(t, f) /\ \A u \in Savers : Working(u, f) => u = t
      BY <1>4, <2>2, <2>4, <2>7 DEF SettledAt
    <3>2. QED
      BY <1>2, <1>3, <2>1, <2>2, <3>1, ProgressStays
  <2>8. QED
    BY <1>2, <1>3, <1>4, <2>3, <2>4, <2>5, <2>6, <2>7 DEF SettledAt
<1>6. CASE f = FileOf(r.name)
  <2>1. SUFFICES ASSUME f \notin crossed' PROVE SettledAt(f)'
    BY DEF SettledAt
  <2>2. Quiet(f) /\ f \notin crossed
    BY <1>2, <1>6, <2>1 DEF Crossing
  <2>3. \A t \in Savers \ {s} : ~ Working(t, f)'
    BY <1>1, <2>2 DEF Quiet, Working
  <2>4. Disk(f) \in GoodText(f) /\ (f \notin unsaved => Same(f))
    BY <1>4, <2>2 DEF SettledAt
  <2>5. r.name \in NamesOf(f) /\ \A n \in NamesOf(f) \ {r.name} : mem'[n] = mem[n]
    BY <1>1, <1>2, <1>6, NamesAndFiles
  <2>6. f \notin unsaved => 
          /\ r.op \in {"register", "create"} => SameBut(f, r.name)'
          /\ r.op \in {"approve", "rotate"} => Same(f)'
    BY <1>2, <1>3, <2>4, <2>5 DEF Same, SameBut
  <2>7. Progress(s, f)'
    BY <1>1, <1>2, <2>6 DEF Progress, SaveSteps
  <2>8. ~ Quiet(f)'
    BY <1>1, <1>6 DEF Quiet
  <2>9. QED
    BY <1>3, <2>3, <2>4, <2>7, <2>8 DEF SettledAt
<1>7. QED
  BY <1>5, <1>6

LEMMA RestartTypes ==
  ASSUME TypeInv, Restart
  PROVE  MemType' /\ FileType' /\ WorkType' /\ CountType'
<1>1. FileType'
  BY FilesStay DEF Restart, files
<1>2. ASSUME NEW n \in Names PROVE Loaded(n, Disk(FileOf(n))) \in Value(n)
  <2> DEFINE f == FileOf(n)
             t == Disk(f)
  <2>1. f \in Files /\ n \in NamesOf(f)
    BY NamesAndFiles
  <2>2. t \in GoodText(f) \cup {Torn, Empty}
    BY <2>1 DEF TypeInv, FileType, Disk
  <2>3. <<"psk", 0>> \in Value("psk") /\ None \in Value(n)
    BY NamesAndFiles, ValueFacts, RegistryAssumption DEF Forms
  <2>4. t \in GoodText(f) => t[n] \in Value(n)
    BY <2>1 DEF GoodText
  <2> HIDE DEF t, f
  <2>5. QED
    BY <2>2, <2>3, <2>4 DEF Loaded, t, f
<1>3. MemType'
  BY <1>2, ValueFacts DEF Restart, MemType
<1>4. WorkType'
  BY DEF Restart, WorkType
<1>5. CountType'
  BY DEF Restart, CountType, TypeInv
<1>6. QED
  BY <1>1, <1>3, <1>4, <1>5

LEMMA RestartFiles ==
  ASSUME TypeInv, SaveInv, SettledInv, Restart
  PROVE  SaveInv' /\ SettledInv'
<1>1. /\ \A s \in Savers : req'[s] = Idle
      /\ UNCHANGED <<path, tmp, data>>
      /\ mem' = [n \in Names |-> Loaded(n, Disk(FileOf(n)))]
      /\ crossed' = {f \in crossed : Disk(f) \in {Torn, Empty}}
  BY DEF Restart, files
<1>2. ASSUME NEW f \in Files PROVE SaveAt(f)'
  <2>1. InSave(f)' = {}
    BY <1>1 DEF InSave
  <2>2. QED
    BY <1>1, <2>1 DEF SaveInv, SaveAt
<1>3. ASSUME NEW f \in Files PROVE SettledAt(f)'
  <2>1. SUFFICES ASSUME f \notin crossed' PROVE SettledAt(f)'
    BY DEF SettledAt
  <2>2. Disk(f) \in GoodText(f) \cup {Torn, Empty}
    BY DEF TypeInv, FileType, Disk
  <2>3. Disk(f) \in GoodText(f) /\ Disk(f)' = Disk(f)
    BY <1>1, <2>1, <2>2 DEF SettledInv, SettledAt, Disk
  <2>4. Disk(f) \notin {Torn, Empty}
    BY <2>3, GoodTexts
  <2>5. Same(f)'
    BY <1>1, <2>3, <2>4, NamesAndFiles DEF Same, Loaded
  <2>6. \A s \in Savers : ~ Working(s, f)'
    BY <1>1 DEF Working
  <2>7. QED
    BY <2>3, <2>5, <2>6 DEF SettledAt
<1>4. QED
  BY <1>2, <1>3 DEF SaveInv, SettledInv

LEMMA NothingOnFiles ==
  ASSUME UNCHANGED <<mem, path, tmp, data, req, gen, crashes, raced, crossed, unsaved>>
  PROVE  /\ SaveInv => SaveInv'
         /\ SettledInv => SettledInv'
         /\ (MemType => MemType') /\ (FileType => FileType')
<1>1. \A f \in Files : InSave(f)' = InSave(f) /\ Disk(f)' = Disk(f) /\ Quiet(f)' = Quiet(f)
  BY DEF InSave, Disk, Quiet
<1>2. SaveInv => SaveInv'
  BY <1>1 DEF SaveInv, SaveAt
<1>3. \A f \in Files : Same(f)' = Same(f) /\ \A n : SameBut(f, n)' = SameBut(f, n)
  BY <1>1 DEF Same, SameBut
<1>4. \A f \in Files, s \in Savers : Working(s, f)' = Working(s, f) /\ Progress(s, f)' = Progress(s, f)
  BY <1>1, <1>3 DEF Working, Progress
<1>5. SettledInv => SettledInv'
  BY <1>1, <1>3, <1>4 DEF SettledInv, SettledAt
<1>6. QED
  BY <1>2, <1>5 DEF MemType, FileType

----------------------------------------------------------------------------
\* Type correctness.

LEMMA GoesTypes ==
  ASSUME TypeInv, NEW s, NEW x, Goes(s, x)
  PROVE  MemType' /\ FileType' /\ WorkType' /\ CountType' /\ (conn' = conn /\ tokens' = tokens => ConnType')
<1>1. MemType' /\ FileType' /\ CountType' /\ s \in Savers /\ req[s] # Idle
  BY DEF Goes, CountType, TypeInv
<1>2. req'[s] = x /\ \A t \in Savers \ {s} : req'[t] = req[t]
  BY OthersStay
<1>3. WorkType'
  <2>1. x # Idle => x \in Work /\ Fields(x) /\ x.op = req[s].op
    BY DEF Goes
  <2>2. req' \in [Savers -> Work \cup {Idle}]
    BY <2>1 DEF Goes, TypeInv, WorkType
  <2>3. QED
    BY <1>1, <1>2, <2>1, <2>2 DEF TypeInv, WorkType
<1>4. conn' = conn /\ tokens' = tokens => ConnType'
  BY <1>1, <1>2 DEF TypeInv, ConnType, Savers
<1>5. QED
  BY <1>1, <1>3, <1>4

LEMMA StartsTypes ==
  ASSUME TypeInv, NEW s, NEW r, Starts(s, r)
  PROVE  MemType' /\ FileType' /\ WorkType' /\ CountType' /\ pending' \in [Devices -> Vks \cup {None}]
<1>1. MemType' /\ CountType' /\ FileType'
  BY FilesStay DEF Starts, CountType, TypeInv
<1>2. req'[s] = r /\ \A t \in Savers \ {s} : req'[t] = req[t]
  BY StartsStay
<1>3. r \in Work /\ Fields(r) /\ (r.op = "enroll") = (s \in Conns) /\ req' \in [Savers -> Work \cup {Idle}]
  BY DEF Starts, TypeInv, WorkType
<1>4. WorkType'
  BY <1>2, <1>3 DEF TypeInv, WorkType
<1>5. pending' \in [Devices -> Vks \cup {None}]
  BY DEF Starts, TypeInv, ReportType
<1>6. QED
  BY <1>1, <1>4, <1>5

\* A handshake on its own: all it changes is its connection.
Shakes(c, k) == /\ c \in Conns /\ req[c] = Idle /\ Shaken(k)
                /\ conn' = [conn EXCEPT ![c] = k] /\ Stay

LEMMA FreshShaken ==
  ASSUME NEW v \in Entry \cup Keyed \cup {None}
  PROVE  /\ Fresh(v) \in Handshakes /\ Shaken(Fresh(v)) /\ Shaken(Free)
         /\ \A w : Shaken(Joined(w))
         /\ Shaken([Fresh(v) EXCEPT !.pc = "join"])
         /\ \A t \in (Users \cup ApiKeys) \X Roles : Shaken([Fresh(v) EXCEPT !.pc = "join", !.who = t])
         /\ \A d \in Devices, o \in Vks \cup {None} :
              Shaken([Fresh(v) EXCEPT !.pc = "challenge", !.dev = d, !.offered = o])
<1> DEFINE k == Fresh(v)
<1>1. /\ k \in Handshakes /\ k.pc = "psk"
  BY EnrollAssumption DEF Fresh, Handshakes
<1> HIDE DEF k
<1>2. Shaken(Free) /\ \A w : Shaken(Joined(w))
  BY DEF Free, Joined, Shaken
<1>3. Shaken(k) /\ Shaken([k EXCEPT !.pc = "join"])
  BY <1>1 DEF Shaken, Handshakes
<1>4. ASSUME NEW t \in (Users \cup ApiKeys) \X Roles
      PROVE  Shaken([k EXCEPT !.pc = "join", !.who = t])
  BY <1>1 DEF Shaken, Handshakes
<1>5. ASSUME NEW d \in Devices, NEW o \in Vks \cup {None}
      PROVE  Shaken([k EXCEPT !.pc = "challenge", !.dev = d, !.offered = o])
  BY <1>1 DEF Shaken, Handshakes
<1>6. QED
  BY <1>1, <1>2, <1>3, <1>4, <1>5 DEF k

LEMMA HandshakeCases ==
  ASSUME TypeInv, NEW c \in Conns, Handshake(c)
  PROVE  Pend(c) \/ Enroll(c) \/ Enrolled(c) \/ \E k : Shakes(c, k)
<1>i. conn[c].pc # "saving" => req[c] = Idle
  BY DEF TypeInv, ConnType
<1>k. ASSUME NEW k, Shaken(k), conn' = [conn EXCEPT ![c] = k], Stay, conn[c].pc # "saving"
      PROVE  \E j : Shakes(c, j)
  BY <1>i, <1>k DEF Shakes
<1>n. None \in Entry \cup Keyed \cup {None}
  OBVIOUS
<1>s. Shaken(conn[c])
  BY DEF TypeInv, ConnType
<1>1. ASSUME AcceptWithoutToken(c) PROVE \E k : Shakes(c, k)
  <2>1. mem["psk"] \in Entry \cup Keyed \cup {None}
    BY NamesAndFiles DEF TypeInv, MemType
  <2>2. Shaken([Fresh(None) EXCEPT !.pc = "join"]) /\ Shaken(Fresh(mem["psk"]))
    BY <2>1, <1>n, FreshShaken
  <2>3. QED
    BY <1>1, <1>k, <2>2 DEF AcceptWithoutToken, In
<1>2. ASSUME NEW t \in tokens, AcceptWithToken(c, t) PROVE \E k : Shakes(c, k)
  <2>1. Shaken([Fresh(None) EXCEPT !.pc = "join", !.who = t])
    BY <1>n, FreshShaken DEF TypeInv, ConnType
  <2>2. QED
    BY <1>2, <1>k, <2>1 DEF AcceptWithToken, In
<1>3. ASSUME NEW v, PskFrame(c, v) PROVE \E k : Shakes(c, k)
  <2>1. Shaken([Fresh(None) EXCEPT !.pc = "join"]) /\ Shaken(Free)
    BY <1>n, FreshShaken
  <2>2. QED
    BY <1>3, <1>k, <2>1 DEF PskFrame, In
<1>4. ASSUME GiveUp(c) \/ AuthTimeout(c) \/ Leave(c) PROVE \E k : Shakes(c, k)
  <2>1. Shaken(Free)
    BY <1>n, FreshShaken
  <2>2. QED
    BY <1>4, <1>k, <2>1 DEF GiveUp, AuthTimeout, Leave, Close, In
<1>5. ASSUME JoinPlain(c) PROVE \E k : Shakes(c, k)
  <2>1. Shaken(Joined(conn[c].who))
    BY <1>n, FreshShaken
  <2>2. QED
    BY <1>5, <1>k, <2>1 DEF JoinPlain, In
<1>6. ASSUME Defer(c) PROVE \E k : Shakes(c, k)
  <2>1. CASE conn[c].deferred >= MaxDeferred
    <3>1. Shaken(Free)
      BY <1>n, FreshShaken
    <3>2. QED
      BY <1>6, <1>k, <2>1, <3>1 DEF Defer, Close, In
  <2>2. CASE ~ (conn[c].deferred >= MaxDeferred)
    <3> DEFINE k == [conn[c] EXCEPT !.deferred = conn[c].deferred + 1]
    <3>1. conn[c] \in Handshakes /\ conn[c].pc = "challenge"
      BY <1>6, <1>s DEF Defer, In, Shaken
    <3>2. conn[c].deferred + 1 \in 0..MaxDeferred
      BY <2>2, <3>1, EnrollAssumption DEF Handshakes
    <3>3. Shaken(k)
      BY <1>s, <3>1, <3>2 DEF Shaken, Handshakes
    <3>4. conn' = [conn EXCEPT ![c] = k]
      BY <1>6, <2>2 DEF Defer, TypeInv, ConnType
    <3> HIDE DEF k
    <3>5. QED
      BY <1>6, <1>k, <3>1, <3>3, <3>4 DEF Defer
  <2>3. QED
    BY <2>1, <2>2
<1>7. ASSUME NEW d \in Devices, NEW v, JoinSecret(c, d, v) PROVE \E k : Shakes(c, k)
  <2>1. Shaken(Joined(d)) /\ Shaken(Free)
    BY <1>n, FreshShaken
  <2>2. QED
    BY <1>7, <1>k, <2>1 DEF JoinSecret, In
<1>8. ASSUME NEW d \in Devices, NEW vk \in Vks, JoinPubkey(c, d, vk) PROVE \E k : Shakes(c, k)
  <2> DEFINE o == IF mem[d] # None THEN None ELSE vk
             k == IF mem[d] # None /\ mem[d][1] = "secret" THEN Free
                  ELSE [Fresh(None) EXCEPT !.pc = "challenge", !.dev = d, !.offered = o]
  <2>1. o \in Vks \cup {None}
    OBVIOUS
  <2> HIDE DEF o
  <2>2. Shaken(k)
    BY <1>n, <2>1, FreshShaken
  <2>3. conn' = [conn EXCEPT ![c] = k] /\ Stay /\ conn[c].pc = "join"
    BY <1>8 DEF JoinPubkey, In, o
  <2> HIDE DEF k
  <2>4. QED
    BY <1>k, <2>2, <2>3
<1>9. ASSUME NEW v \in Vks, Answer(c, v) PROVE \E k : Shakes(c, k)
  <2> DEFINE p == IF auto THEN "enroll" ELSE "pend"
             k == IF CheckVk(c) # v THEN Free
                  ELSE IF conn[c].offered = None THEN Joined(conn[c].dev)
                  ELSE [conn[c] EXCEPT !.pc = p]
  <2>1. Shaken(Free) /\ Shaken(Joined(conn[c].dev))
    BY <1>n, FreshShaken
  <2>2. conn[c] \in Handshakes /\ conn[c].pc = "challenge" /\ conn[c].dev \in Devices
    BY <1>9, <1>s DEF Answer, In, Shaken
  <2>3. p \in {"enroll", "pend"}
    OBVIOUS
  <2>4. conn' = [conn EXCEPT ![c] = k] /\ Stay
    BY <1>9 DEF Answer
  <2> HIDE DEF p
  <2>5. conn[c].offered # None => Shaken([conn[c] EXCEPT !.pc = p])
    BY <2>2, <2>3 DEF Shaken, Handshakes
  <2>6. Shaken(k)
    BY <2>1, <2>5
  <2> HIDE DEF k
  <2>7. QED
    BY <1>k, <2>2, <2>4, <2>6
<1>10. QED
  BY <1>1, <1>2, <1>3, <1>4, <1>5, <1>6, <1>7, <1>8, <1>9 DEF Handshake

LEMMA EnrollCases ==
  ASSUME TypeInv, NEW c \in Conns, Enroll(c)
  PROVE  \/ \E k : Shakes(c, k)
         \/ \E r \in Work :
              /\ Starts(c, r) /\ r.op = "enroll" /\ UNCHANGED <<auto, tokens, reported>>
              /\ conn' = [conn EXCEPT ![c] = [conn[c] EXCEPT !.pc = "saving"]]
              /\ Shaken([conn[c] EXCEPT !.pc = "saving"])
<1>1. /\ conn[c].pc = "enroll" /\ conn[c] \in Handshakes /\ conn[c].dev \in Devices
      /\ conn[c].offered \in Vks /\ req[c] = Idle
  BY DEF Enroll, In, TypeInv, ConnType, Shaken
<1> DEFINE d == conn[c].dev
           e == <<"pubkey", conn[c].offered>>
           r == Request("enroll", d, e, None)
<1>2. d \in Names /\ d \notin {"psk"} /\ FileOf(d) = "devices"
  BY <1>1, NamesAndFiles
<1>3. e \in Value(d) /\ e \in Entry \cup Keyed \cup {None}
  BY <1>1, <1>2, ValueFacts
<1>4. UNCHANGED <<gen, pending, raced, unsaved, overtaken, auto, tokens, reported, path, tmp, data,
                  up, fails, crashes>>
  BY DEF Enroll, files, proc
<1> HIDE DEF d, e
<1>5. CASE /\ enroll_auto(d, conn[c].offered) /\ req' = [req EXCEPT ![c] = r]
           /\ crossed' = Crossing("devices") /\ conn' = [conn EXCEPT ![c].pc = "saving"]
  <2>1. r \in Work /\ Fields(r) /\ r.op = "enroll" /\ r.name = d /\ r.pc = "serialize"
    BY <1>1, <1>2, <1>3, Requested DEF d
  <2>2. mem[d] = None /\ mem' = [mem EXCEPT ![d] = e]
    BY <1>5 DEF enroll_auto, Insert, e
  <2>3. MemType' /\ \A m \in Names \ {d} : mem'[m] = mem[m]
    BY <1>2, <1>3, <2>2, NewValue DEF TypeInv
  <2>4. c \in Savers /\ gen' \in 0..MaxGen
    BY <1>4 DEF Savers, TypeInv, CountType
  <2>5. /\ conn' = [conn EXCEPT ![c] = [conn[c] EXCEPT !.pc = "saving"]]
        /\ Shaken([conn[c] EXCEPT !.pc = "saving"])
    BY <1>1, <1>5 DEF TypeInv, ConnType, Shaken, Handshakes
  <2>6. req' = [req EXCEPT ![c] = r] /\ crossed' = Crossing(FileOf(r.name))
    BY <1>2, <1>5, <2>1
  <2> HIDE DEF r
  <2>7. Starts(c, r)
    BY <1>1, <1>2, <1>4, <2>1, <2>2, <2>3, <2>4, <2>6 DEF Starts
  <2>8. QED
    BY <1>4, <2>1, <2>5, <2>7
<1>6. CASE /\ conn' = [conn EXCEPT ![c] = IF mem[d] = e THEN Joined(d) ELSE Free]
           /\ UNCHANGED <<mem, req, crossed>>
  <2>1. Shaken(Joined(d)) /\ Shaken(Free)
    BY DEF Joined, Free, Shaken
  <2>2. Stay
    BY <1>4, <1>6 DEF Stay, regVars
  <2>3. QED
    BY <1>1, <1>6, <2>1, <2>2 DEF Shakes
<1>7. QED
  BY <1>5, <1>6 DEF Enroll, d, e

LEMMA EnrolledGoes ==
  ASSUME TypeInv, NEW c \in Conns, Enrolled(c)
  PROVE  /\ Goes(c, Idle) /\ req[c].pc = "saved" /\ conn[c].dev \in Devices
         /\ pending' = [pending EXCEPT ![conn[c].dev] = None]
         /\ conn' = [conn EXCEPT ![c] = Joined(conn[c].dev)]
         /\ UNCHANGED <<mem, path, tmp, data, raced, unsaved, overtaken, auto, tokens, reported>>
<1>1. c \in Savers
  BY DEF Savers
<1>2. Goes(c, Idle) /\ req[c].pc = "saved" /\ UNCHANGED <<mem, path, tmp, data, raced, unsaved>>
  BY <1>1, EndGoes DEF Enrolled
<1>3. conn[c].dev \in Devices
  BY DEF Enrolled, In, TypeInv, ConnType, Shaken
<1>4. QED
  BY <1>2, <1>3 DEF Enrolled, hist

\* A connection that does not work on a registry changes.
LEMMA ConnChanges ==
  ASSUME TypeInv, NEW c \in Conns, NEW k, Shaken(k), conn' = [conn EXCEPT ![c] = k],
         tokens' = tokens,
         \A b \in Conns \ {c} : req'[b] = req[b],
         req'[c] # Idle => k.pc = "saving"
  PROVE  ConnType'
<1>1. conn'[c] = k /\ DOMAIN conn' = Conns /\ \A b \in Conns \ {c} : conn'[b] = conn[b]
  BY DEF TypeInv, ConnType
<1>2. QED
  BY <1>1 DEF TypeInv, ConnType

LEMMA TypeStep ==
  ASSUME TypeInv, SaveInv, [Next]_vars
  PROVE  TypeInv'
<1>1. ASSUME NEW s \in Slots, AdminRequest(s), UNCHANGED enrollVars PROVE TypeInv'
  <2>1. PICK r \in Work : Starts(s, r)
    BY <1>1, AdminStarts
  <2>2. MemType' /\ FileType' /\ WorkType' /\ CountType' /\ pending' \in [Devices -> Vks \cup {None}]
    BY <2>1, StartsTypes
  <2>3. \A c \in Conns : req'[c] = req[c]
    BY <2>1, StartsStay, RegistryAssumption DEF Savers
  <2>4. ConnType' /\ ReportType'
    BY <1>1, <2>2, <2>3 DEF enrollVars, TypeInv, ConnType, ReportType
  <2>5. QED
    BY <2>2, <2>4 DEF TypeInv
<1>2. ASSUME NEW s \in Savers, SaveStep(s), UNCHANGED enrollVars PROVE TypeInv'
  <2>1. (\E x : Goes(s, x)) /\ pending' \in [Devices -> Vks \cup {None}]
    <3>1. CASE Serialize(s)
      BY <3>1, SerializeGoes DEF Serialize, TypeInv, ReportType
    <3>2. CASE CreateTmp(s)
      BY <3>2, CreateGoes DEF CreateTmp, TypeInv, ReportType
    <3>3. CASE WriteTmp(s)
      BY <3>3, WriteGoes DEF WriteTmp, TypeInv, ReportType
    <3>4. CASE RenameTmp(s)
      BY <3>4, RenameGoes DEF RenameTmp, TypeInv, ReportType
    <3>5. CASE SaveFails(s)
      BY <3>5, SaveFailsGoes DEF SaveFails, TypeInv, ReportType
    <3>6. CASE Admit(s)
      BY <3>6, AdmitGoes DEF Admit, TypeInv, ReportType
    <3>7. CASE Failed(s)
      BY <3>7, FailedGoes DEF Failed, TypeInv, ReportType
    <3>8. CASE RestorePending(s)
      BY <3>8, RestoreGoes DEF TypeInv, ReportType
    <3>9. CASE Effect(s)
      BY <3>9, EffectGoes DEF Effect, TypeInv, ReportType
    <3>10. CASE Saved(s)
      BY <3>10, EndGoes DEF Saved, TypeInv, ReportType
    <3>11. QED
      BY <1>2, <3>1, <3>2, <3>3, <3>4, <3>5, <3>6, <3>7, <3>8, <3>9, <3>10 DEF SaveStep
  <2>2. conn' = conn /\ tokens' = tokens /\ reported' = reported
    BY <1>2 DEF enrollVars
  <2>3. MemType' /\ FileType' /\ WorkType' /\ CountType' /\ ConnType'
    BY <2>1, <2>2, GoesTypes
  <2>4. QED
    BY <2>1, <2>2, <2>3 DEF TypeInv, ReportType
<1>3. ASSUME NEW c \in Conns, NEW k, Shakes(c, k) PROVE TypeInv'
  <2>1. /\ UNCHANGED <<mem, path, tmp, data, req, gen, pending, crashes, tokens, reported>>
        /\ Shaken(k) /\ conn' = [conn EXCEPT ![c] = k] /\ req[c] = Idle
    BY <1>3 DEF Shakes, Stay, regVars
  <2>2. ConnType'
    BY <2>1, ConnChanges
  <2>3. QED
    BY <2>1, <2>2, MemStays, FilesStay DEF TypeInv, WorkType, CountType, ReportType
<1>4. ASSUME NEW c \in Conns, Pend(c) PROVE TypeInv'
  <2>1. /\ UNCHANGED <<mem, path, tmp, data, req, gen, crashes, tokens>>
        /\ conn' = [conn EXCEPT ![c] = Free] /\ conn[c].pc = "pend"
        /\ pending' = [pending EXCEPT ![conn[c].dev] = conn[c].offered]
        /\ reported' = [reported EXCEPT ![conn[c].dev] = conn[c].offered]
    BY <1>4 DEF Pend, In, Close, files, proc
  <2>2. conn[c].dev \in Devices /\ conn[c].offered \in Vks /\ req[c] = Idle
    BY <2>1 DEF TypeInv, ConnType, Shaken
  <2>3. Shaken(Free)
    BY DEF Free, Shaken
  <2>4. ConnType'
    BY <2>1, <2>2, <2>3, ConnChanges
  <2>5. ReportType'
    BY <2>1, <2>2 DEF TypeInv, ReportType
  <2>6. QED
    BY <2>1, <2>4, <2>5, MemStays, FilesStay DEF TypeInv, WorkType, CountType
<1>5. ASSUME NEW c \in Conns, Enroll(c) PROVE TypeInv'
  <2>1. CASE \E k : Shakes(c, k)
    BY <1>3, <2>1
  <2>2. ASSUME NEW r \in Work, Starts(c, r), UNCHANGED <<auto, tokens, reported>>,
               r.op = "enroll",
               conn' = [conn EXCEPT ![c] = [conn[c] EXCEPT !.pc = "saving"]],
               Shaken([conn[c] EXCEPT !.pc = "saving"])
        PROVE  TypeInv'
    <3>1. MemType' /\ FileType' /\ WorkType' /\ CountType' /\ pending' \in [Devices -> Vks \cup {None}]
      BY <2>2, StartsTypes
    <3>2. \A b \in Conns \ {c} : req'[b] = req[b]
      BY <2>2, StartsStay DEF Savers
    <3>3. ([conn[c] EXCEPT !.pc = "saving"]).pc = "saving"
      <4>1. conn[c] \in Handshakes
        BY <1>5 DEF Enroll, In, TypeInv, ConnType, Shaken
      <4>2. QED
        BY <4>1 DEF Handshakes
    <3>4. ConnType'
      <4> DEFINE k == [conn[c] EXCEPT !.pc = "saving"]
      <4>1. Shaken(k) /\ conn' = [conn EXCEPT ![c] = k] /\ k.pc = "saving" /\ tokens' = tokens
        BY <2>2, <3>3
      <4> HIDE DEF k
      <4>2. QED
        BY <3>2, <4>1, ConnChanges
    <3>5. QED
      BY <2>2, <3>1, <3>4 DEF TypeInv, ReportType
  <2>3. QED
    BY <1>5, <2>1, <2>2, EnrollCases
<1>6. ASSUME NEW c \in Conns, Enrolled(c) PROVE TypeInv'
  <2>1. /\ Goes(c, Idle) /\ conn[c].dev \in Devices
        /\ pending' = [pending EXCEPT ![conn[c].dev] = None]
        /\ conn' = [conn EXCEPT ![c] = Joined(conn[c].dev)] /\ tokens' = tokens /\ reported' = reported
    BY <1>6, EnrolledGoes
  <2>2. MemType' /\ FileType' /\ WorkType' /\ CountType'
    BY <2>1, GoesTypes
  <2>3. req'[c] = Idle /\ \A b \in Conns \ {c} : req'[b] = req[b]
    BY <2>1, OthersStay DEF Savers
  <2>4. Shaken(Joined(conn[c].dev))
    BY DEF Joined, Shaken
  <2>5. ConnType'
    BY <2>1, <2>3, <2>4, ConnChanges
  <2>6. QED
    BY <2>1, <2>2, <2>5 DEF TypeInv, ReportType
<1>7. ASSUME NEW n \in Users \cup ApiKeys, Login(n) PROVE TypeInv'
  <2>1. mem[n] \in Value(n) /\ mem[n] # None
    BY <1>7, NamesAndFiles DEF Login, TypeInv, MemType
  <2>2. mem[n][1] \in Roles
    BY <2>1, ValueFacts
  <2>3. UNCHANGED <<mem, path, tmp, data, req, gen, pending, crashes, conn, reported>>
        /\ tokens' = tokens \cup {<<n, mem[n][1]>>}
    BY <1>7 DEF Login, regVars
  <2>4. ConnType'
    BY <2>2, <2>3 DEF TypeInv, ConnType
  <2>5. QED
    BY <2>3, <2>4, MemStays, FilesStay DEF TypeInv, WorkType, CountType, ReportType
<1>8. ASSUME NEW t \in tokens, Expire(t) PROVE TypeInv'
  <2>1. UNCHANGED <<mem, path, tmp, data, req, gen, pending, crashes, conn, reported>>
        /\ tokens' \subseteq tokens
    BY <1>8 DEF Expire, regVars
  <2>2. ConnType'
    BY <2>1 DEF TypeInv, ConnType
  <2>3. QED
    BY <2>1, <2>2, MemStays, FilesStay DEF TypeInv, WorkType, CountType, ReportType
<1>9. ASSUME RestartAll PROVE TypeInv'
  <2>1. MemType' /\ FileType' /\ WorkType' /\ CountType'
    BY <1>9, RestartTypes DEF RestartAll
  <2>2. /\ conn' = [c \in Conns |-> Free] /\ UNCHANGED <<tokens, reported>>
        /\ req' = [s \in Savers |-> Idle] /\ pending' = [d \in Devices |-> None]
    BY <1>9 DEF RestartAll, Restart
  <2>3. Shaken(Free)
    BY DEF Free, Shaken
  <2>4. ConnType' /\ ReportType'
    BY <2>2, <2>3 DEF TypeInv, ConnType, ReportType, Savers
  <2>5. QED
    BY <2>1, <2>4 DEF TypeInv
<1>10. ASSUME UNCHANGED vars PROVE TypeInv'
  BY <1>10, MemStays, FilesStay DEF vars, TypeInv, WorkType, CountType, ReportType, ConnType
<1>11. QED
  BY <1>1, <1>2, <1>3, <1>4, <1>5, <1>6, <1>7, <1>8, <1>9, <1>10, HandshakeCases DEF Next

----------------------------------------------------------------------------
\* The inductive invariant.

LEMMA Initially ==
  ASSUME EInit PROVE IInv
<1>c. IsFiniteSet(Savers) /\ Cardinality(Savers) \in Nat
  BY RegistryAssumption, FS_CardinalityType DEF Savers
<1>2. 0 \in Inodes /\ None \notin Inodes
  BY <1>c, RegistryAssumption DEF Inodes
<1> USE DEF EInit, Init
<1>1. MemType
  <2>1. <<"psk", 0>> \in Value("psk")
    BY NamesAndFiles, ValueFacts, RegistryAssumption DEF Forms
  <2>2. QED
    BY <2>1, ValueFacts, NamesAndFiles DEF MemType
<1>3. ASSUME NEW f \in Files PROVE [n \in NamesOf(f) |-> mem[n]] \in GoodText(f)
  BY <1>1, TextOfMem DEF MemType
<1>4. FileType
  <2>1. \A f \in Files, i \in Inodes : data[f][i] \in GoodText(f) \cup {Torn, Empty}
    BY <1>3
  <2>2. \A f \in Files, i \in Inodes : data[f][i] \in AnyText \cup {Torn, Empty}
    BY <2>1, GoodTexts
  <2>3. data \in [Files -> [Inodes -> AnyText \cup {Torn, Empty}]]
    BY <2>2
  <2>4. QED
    BY <1>2, <2>1, <2>3 DEF FileType
<1>5. WorkType
  BY DEF WorkType
<1>6. ConnType /\ CountType /\ ReportType
  <2>1. Shaken(Free)
    BY DEF Free, Shaken
  <2>2. QED
    BY <2>1, RegistryAssumption DEF ConnType, CountType, ReportType, Savers
<1>7. SaveInv
  BY <1>2 DEF SaveInv, SaveAt, InSave
<1>8. ASSUME NEW f \in Files PROVE SettledAt(f)
  <2>1. Disk(f) = [n \in NamesOf(f) |-> mem[n]]
    BY <1>2 DEF Disk
  <2>2. Same(f)
    BY <2>1 DEF Same
  <2>3. \A s \in Savers : ~ Working(s, f)
    BY DEF Working
  <2>4. QED
    BY <1>3, <2>1, <2>2, <2>3 DEF SettledAt
<1>9. ReportInv
  BY DEF ReportInv, ReportAt, Approving
<1>10. QED
  BY <1>1, <1>4, <1>5, <1>6, <1>7, <1>8, <1>9 DEF IInv, TypeInv, SettledInv

LEMMA EnrolledFiles ==
  ASSUME TypeInv, SaveInv, SettledInv, NEW c \in Conns, Enrolled(c)
  PROVE  SaveInv' /\ SettledInv'
<1>1. Goes(c, Idle) /\ req[c].pc = "saved" /\ UNCHANGED <<mem, path, tmp, data, raced, unsaved>>
  BY EnrolledGoes
<1>2. SaveInv'
  BY <1>1, OutsideSave DEF Saves, SaveSteps
<1>3. ASSUME NEW f, f = File(c) PROVE SettledInv'
  <2>1. ASSUME f \notin crossed, f \notin unsaved' PROVE Same(f)'
    <3>1. Progress(c, f) /\ f \in Files /\ Disk(f)' = Disk(f)
      BY <1>1, <1>3, <2>1, OwnSettled DEF Disk
    <3>2. Same(f)
      BY <1>1, <2>1, <3>1 DEF Progress
    <3>3. QED
      BY <1>1, <3>1, <3>2 DEF Same
  <2>2. QED
    BY <1>1, <1>3, <2>1, ClosingStep
<1>4. QED
  BY <1>2, <1>3

LEMMA FilesStep ==
  ASSUME TypeInv, SaveInv, SettledInv, [Next]_vars
  PROVE  SaveInv' /\ SettledInv'
<1>1. ASSUME NEW s \in Slots, AdminRequest(s) PROVE SaveInv' /\ SettledInv'
  BY <1>1, AdminStarts, StartsSave, StartsSettled
<1>2. ASSUME NEW s \in Savers, SaveStep(s) PROVE SaveInv' /\ SettledInv'
  BY <1>2, SaveStepKeeps, SettledStepKeeps
<1>3. ASSUME NEW c \in Conns, NEW k, Shakes(c, k) PROVE SaveInv' /\ SettledInv'
  BY <1>3, NothingOnFiles DEF Shakes, Stay, regVars
<1>4. ASSUME NEW c \in Conns, Pend(c) PROVE SaveInv' /\ SettledInv'
  BY <1>4, NothingOnFiles DEF Pend, files, proc
<1>5. ASSUME NEW c \in Conns, Enroll(c) PROVE SaveInv' /\ SettledInv'
  <2>1. ASSUME NEW r, Starts(c, r) PROVE SaveInv' /\ SettledInv'
    BY <2>1, StartsSave, StartsSettled
  <2>2. QED
    BY <1>3, <1>5, <2>1, EnrollCases
<1>6. ASSUME NEW c \in Conns, Enrolled(c) PROVE SaveInv' /\ SettledInv'
  BY <1>6, EnrolledFiles
<1>7. ASSUME NEW n, Login(n) \/ Expire(n) PROVE SaveInv' /\ SettledInv'
  BY <1>7, NothingOnFiles DEF Login, Expire, regVars
<1>8. ASSUME RestartAll PROVE SaveInv' /\ SettledInv'
  BY <1>8, RestartFiles DEF RestartAll
<1>9. ASSUME UNCHANGED vars PROVE SaveInv' /\ SettledInv'
  BY <1>9, NothingOnFiles DEF vars
<1>10. QED
  BY <1>1, <1>2, <1>3, <1>4, <1>5, <1>6, <1>7, <1>8, <1>9, HandshakeCases DEF Next

LEMMA GoesReport ==
  ASSUME TypeInv, ReportInv, NEW s, NEW x, Goes(s, x), reported' = reported,
         \A d \in Devices : \/ pending'[d] \in {pending[d], None}
                            \/ Approving(s, d) /\ pending'[d] = req[s].kept
  PROVE  ReportInv'
<1> SUFFICES ASSUME NEW d \in Devices PROVE ReportAt(d)'
  BY DEF ReportInv
<1>1. ReportAt(d) /\ overtaken' = overtaken /\ s \in Savers
  BY DEF ReportInv, Goes
<1>2. req'[s] = x /\ \A t \in Savers \ {s} : req'[t] = req[t]
  BY OthersStay
<1>3. x # Idle => req[s] # Idle /\ x.op = req[s].op /\ x.name = req[s].name /\ x.kept = req[s].kept
  BY DEF Goes
<1>4. \A t \in Savers : Approving(t, d)' => Approving(t, d) /\ req'[t].kept = req[t].kept
  BY <1>2, <1>3 DEF Approving
<1>5. QED
  BY <1>1, <1>4 DEF ReportAt

LEMMA StartsReport ==
  ASSUME TypeInv, ReportInv, NEW s, NEW r, Starts(s, r), reported' = reported
  PROVE  ReportInv'
<1> SUFFICES ASSUME NEW d \in Devices PROVE ReportAt(d)'
  BY DEF ReportInv
<1>1. ReportAt(d) /\ overtaken' = overtaken
  BY DEF ReportInv, Starts
<1>2. req'[s] = r /\ \A t \in Savers \ {s} : req'[t] = req[t]
  BY StartsStay
<1>3. /\ r.op = "approve" => /\ pending[r.name] = r.kept /\ r.kept # None
                             /\ pending' = [pending EXCEPT ![r.name] = None]
      /\ r.op # "approve" => pending' = pending
  BY DEF Starts
<1>4. pending'[d] \in {pending[d], None}
  BY <1>3 DEF TypeInv, ReportType
<1>5. ASSUME NEW t \in Savers, Approving(t, d)'
      PROVE  \/ Approving(t, d) /\ req'[t].kept = req[t].kept
             \/ req'[t].kept = pending[d] /\ pending[d] # None
  BY <1>2, <1>3, <1>5 DEF Approving
<1>6. QED
  BY <1>1, <1>4, <1>5 DEF ReportAt

LEMMA ReportStep ==
  ASSUME TypeInv, SaveInv, ReportInv, [Next]_vars
  PROVE  ReportInv'
<1>1. ASSUME NEW s \in Slots, AdminRequest(s), UNCHANGED enrollVars PROVE ReportInv'
  BY <1>1, AdminStarts, StartsReport DEF enrollVars
<1>2. ASSUME NEW s \in Savers, SaveStep(s), UNCHANGED enrollVars PROVE ReportInv'
  <2>0. reported' = reported
    BY <1>2 DEF enrollVars
  <2>1. ASSUME ~ RestorePending(s) PROVE (\E x : Goes(s, x)) /\ pending' = pending
    <3>1. CASE Serialize(s)
      BY <3>1, SerializeGoes DEF Serialize
    <3>2. CASE CreateTmp(s)
      BY <3>2, CreateGoes DEF CreateTmp
    <3>3. CASE WriteTmp(s)
      BY <3>3, WriteGoes DEF WriteTmp
    <3>4. CASE RenameTmp(s)
      BY <3>4, RenameGoes DEF RenameTmp
    <3>5. CASE SaveFails(s)
      BY <3>5, SaveFailsGoes DEF SaveFails
    <3>6. CASE Admit(s)
      BY <3>6, AdmitGoes DEF Admit
    <3>7. CASE Failed(s)
      BY <3>7, FailedGoes DEF Failed
    <3>8. CASE Effect(s)
      BY <3>8, EffectGoes DEF Effect
    <3>9. CASE Saved(s)
      BY <3>9, EndGoes DEF Saved
    <3>10. QED
      BY <1>2, <2>1, <3>1, <3>2, <3>3, <3>4, <3>5, <3>6, <3>7, <3>8, <3>9 DEF SaveStep
  <2>2. CASE ~ RestorePending(s)
    BY <2>0, <2>1, <2>2, GoesReport
  <2>3. CASE RestorePending(s)
    <3>1. /\ Goes(s, Idle) /\ req[s].op = "approve" /\ req[s].name \in Devices
          /\ pending' = [pending EXCEPT ![req[s].name] = req[s].kept]
      BY <2>3, RestoreGoes
    <3>2. \A d \in Devices : \/ pending'[d] \in {pending[d], None}
                             \/ Approving(s, d) /\ pending'[d] = req[s].kept
      BY <3>1 DEF Goes, Approving, TypeInv, ReportType
    <3>3. QED
      BY <2>0, <3>1, <3>2, GoesReport
  <2>4. QED
    BY <2>2, <2>3
<1>3. ASSUME UNCHANGED <<pending, reported, req, overtaken>> PROVE ReportInv'
  BY <1>3 DEF ReportInv, ReportAt, Approving
<1>4. ASSUME NEW c \in Conns, Pend(c) PROVE ReportInv'
  <2> DEFINE b == conn[c].dev
  <2>1. /\ conn[c].pc = "pend" /\ req' = req
        /\ pending' = [pending EXCEPT ![b] = conn[c].offered]
        /\ reported' = [reported EXCEPT ![b] = conn[c].offered]
        /\ overtaken' = IF \E s \in Slots : req[s] # Idle /\ req[s].op = "approve" /\ req[s].name = b
                        THEN overtaken \cup {b} ELSE overtaken \ {b}
    BY <1>4 DEF Pend, In
  <2>2. b \in Devices
    BY <2>1 DEF TypeInv, ConnType, Shaken
  <2> HIDE DEF b
  <2>3. ASSUME NEW d \in Devices PROVE ReportAt(d)'
    <3>1. CASE d # b
      BY <2>1, <2>2, <3>1 DEF ReportInv, ReportAt, Approving, TypeInv, ReportType
    <3>2. CASE d = b
      <4>1. SUFFICES ASSUME d \notin overtaken' PROVE ReportAt(d)'
        BY DEF ReportAt
      <4>2. \A s \in Slots : ~ Approving(s, d)
        BY <2>1, <3>2, <4>1 DEF Approving
      <4>3. \A s \in Savers : ~ Approving(s, d)
        BY <4>2 DEF Approving, TypeInv, WorkType, Savers
      <4>4. pending'[d] = reported'[d]
        BY <2>1, <2>2, <3>2 DEF TypeInv, ReportType
      <4>5. QED
        BY <2>1, <4>3, <4>4 DEF ReportAt, Approving
    <3>3. QED
      BY <3>1, <3>2
  <2>4. QED
    BY <2>3 DEF ReportInv
<1>5. ASSUME NEW c \in Conns, NEW k, Shakes(c, k) PROVE ReportInv'
  BY <1>3, <1>5 DEF Shakes, Stay, regVars
<1>6. ASSUME NEW c \in Conns, Enroll(c) PROVE ReportInv'
  BY <1>5, <1>6, EnrollCases, StartsReport
<1>7. ASSUME NEW c \in Conns, Enrolled(c) PROVE ReportInv'
  <2>1. /\ Goes(c, Idle) /\ reported' = reported
        /\ pending' = [pending EXCEPT ![conn[c].dev] = None]
    BY <1>7, EnrolledGoes
  <2>2. \A d \in Devices : pending'[d] \in {pending[d], None}
    BY <2>1 DEF TypeInv, ReportType
  <2>3. QED
    BY <2>1, <2>2, GoesReport
<1>8. ASSUME NEW n, Login(n) \/ Expire(n) PROVE ReportInv'
  BY <1>3, <1>8 DEF Login, Expire, regVars
<1>9. ASSUME RestartAll PROVE ReportInv'
  BY <1>9 DEF RestartAll, Restart, ReportInv, ReportAt, Approving
<1>10. ASSUME UNCHANGED vars PROVE ReportInv'
  BY <1>3, <1>10 DEF vars
<1>11. QED
  BY <1>1, <1>2, <1>4, <1>5, <1>6, <1>7, <1>8, <1>9, <1>10, HandshakeCases DEF Next

LEMMA Inductive == Spec => []IInv
<1>1. EInit => IInv
  BY Initially
<1>2. IInv /\ [Next]_vars => IInv'
  BY TypeStep, FilesStep, ReportStep DEF IInv
<1>3. QED
  BY <1>1, <1>2, PTL DEF Spec

----------------------------------------------------------------------------
(* Whatever the requests, connections, failing file operations and         *)
(* restarts do in whatever order, memory, files, requests and handshakes   *)
(* keep their types: a token carries a role of its registry, a file holds  *)
(* a text, an unreadable one, or nothing yet.                              *)
THEOREM TypesHold == Spec => []TypeOK
<1>1. IInv => TypeOK
  <2> SUFFICES ASSUME TypeInv PROVE TypeOK
    BY DEF IInv
  <2>1. \A n \in Names : mem[n] \in Entry \cup Keyed \cup {None}
    BY DEF TypeInv, MemType
  <2>2. \A f \in Files : /\ path[f] \in Inodes /\ tmp[f] \in Inodes \cup {None}
                         /\ \A i \in Inodes : data[f][i] \in Text(f) \cup {Torn, Empty}
    BY DEF TypeInv, FileType, GoodText
  <2>3. \A s \in Savers : req[s] = Idle \/ req[s].pc \in Steps
    BY DEF TypeInv, WorkType, Work
  <2>4. \A c \in Conns : conn[c].pc \in {"free", "in"}
          \/ /\ conn[c].pc \in {"psk", "join", "challenge", "pend", "enroll", "saving"}
             /\ conn[c].deferred \in 0..MaxDeferred
    BY DEF TypeInv, ConnType, Shaken, Handshakes
  <2>5. QED
    BY <2>1, <2>2, <2>3, <2>4 DEF TypeInv, ReportType, ConnType, TypeOK
<1>2. QED
  BY <1>1, Inductive, PTL

(* When no request works on a registry, its file is its memory: whatever   *)
(* failed, was taken back, rotated or reloaded before, unless two requests *)
(* on the registry overlapped or a change stayed after its save failed.    *)
THEOREM SettledFileIsMemoryHolds == Spec => []SettledFileIsMemory
<1>1. IInv => SettledFileIsMemory
  BY DEF IInv, SettledInv, SettledAt, Same, SettledFileIsMemory
<1>2. QED
  BY <1>1, Inductive, PTL

(* The key that waits for approval is the last one the device proved to    *)
(* hold; only an approval that a new report overtook can bring an older    *)
(* key back.                                                               *)
THEOREM PendingIsLastReportHolds == Spec => []PendingIsLastReport
<1>1. IInv => PendingIsLastReport
  BY DEF IInv, ReportInv, ReportAt, PendingIsLastReport
<1>2. QED
  BY <1>1, Inductive, PTL

\* What a running process does to a device's key.
LEMMA KeyStep ==
  ASSUME IInv, [Next]_vars, NEW d \in Devices, mem[d] # None, mem[d][1] = "pubkey",
         crashes' = crashes
  PROVE  mem'[d] \in {mem[d], None}
<1> USE DEF IInv
<1>1. ASSUME NEW s, NEW r, Starts(s, r) PROVE mem'[d] \in {mem[d], None}
  <2>1. d \in Names /\ r.name \in Names
    BY <1>1, StartsStay, NamesAndFiles
  <2>2. QED
    BY <1>1, <2>1 DEF Starts
<1>2. ASSUME NEW s \in Savers, SaveStep(s) PROVE mem'[d] \in {mem[d], None}
  <2>1. CASE Serialize(s) \/ CreateTmp(s) \/ WriteTmp(s) \/ RenameTmp(s) \/ SaveFails(s)
               \/ RestorePending(s) \/ Saved(s)
    BY <2>1 DEF Serialize, CreateTmp, WriteTmp, RenameTmp, SaveFails, RestorePending, Saved
  <2>2. CASE Admit(s) \/ Failed(s)
    <3>1. CASE mem' = mem
      BY <3>1
    <3>2. CASE mem[req[s].name] = None /\ mem' = [mem EXCEPT ![req[s].name] = <<"pubkey", req[s].kept>>]
      BY <3>2, NamesAndFiles DEF TypeInv, MemType
    <3>3. CASE mem' = [mem EXCEPT ![req[s].name] = None]
      BY <3>3, NamesAndFiles DEF TypeInv, MemType
    <3>4. QED
      BY <2>2, <3>1, <3>2, <3>3 DEF Admit, Failed, enroll_auto, Insert
  <2>3. CASE Effect(s)
    BY <2>3, NamesAndFiles DEF Effect, TypeInv, MemType
  <2>4. QED
    BY <1>2, <2>1, <2>2, <2>3 DEF SaveStep
<1>3. ASSUME NEW c \in Conns, Handshake(c) PROVE mem'[d] \in {mem[d], None}
  <2>1. CASE \E k : Shakes(c, k)
    BY <2>1 DEF Shakes, Stay, regVars
  <2>2. CASE Pend(c) \/ Enrolled(c)
    BY <2>2 DEF Pend, Enrolled
  <2>3. CASE Enroll(c)
    BY <1>1, <2>1, <2>3, EnrollCases
  <2>4. QED
    BY <1>3, <2>1, <2>2, <2>3, HandshakeCases
<1>4. ASSUME NEW n, Login(n) \/ Expire(n) PROVE mem'[d] \in {mem[d], None}
  BY <1>4 DEF Login, Expire, regVars
<1>5. ~ RestartAll
  BY DEF RestartAll, Restart, TypeInv, CountType
<1>6. CASE UNCHANGED vars
  BY <1>6 DEF vars
<1>7. QED
  BY <1>1, <1>2, <1>3, <1>4, <1>5, <1>6, AdminStarts DEF Next

(* While the process runs, a registered device key is never replaced by    *)
(* another credential: no approval, enrolment, reset or roll-back does     *)
(* more than keep it or remove it.                                         *)
THEOREM KeyChangeNeedsRemovalHolds == Spec => KeyChangeNeedsRemoval
<1>1. IInv /\ [Next]_vars =>
        [\A d \in Devices : (mem[d] # None /\ mem[d][1] = "pubkey" /\ crashes' = crashes)
                              => mem'[d] \in {mem[d], None}]_vars
  BY KeyStep
<1>2. QED
  BY <1>1, Inductive, PTL DEF Spec, KeyChangeNeedsRemoval

----------------------------------------------------------------------------
\* The refinement of AtomicStore: what a step does to the mapped variables.

FileMap == [f \in Files |-> Disk(f)]
HeldMap == [s \in Savers |-> Held(s)]

\* A writer holds a text exactly while it is in the save.
LEMMA HeldIsSave ==
  ASSUME TypeInv, NEW s \in Savers
  PROVE  /\ Saves(req[s]) => /\ Held(s) = <<FileOf(req[s].name), req[s].snap>> /\ Held(s) # None
                             /\ Held(s) \in Files \X UNION {Text(f) : f \in Files}
         /\ ~ Saves(req[s]) => Held(s) = None
<1>1. ASSUME Saves(req[s])
      PROVE  /\ Held(s) = <<FileOf(req[s].name), req[s].snap>>
             /\ Held(s) \in Files \X UNION {Text(f) : f \in Files}
  <2>1. req[s] # Idle /\ req[s].pc \in SaveSteps \cup {"effect"}
    BY <1>1 DEF Saves
  <2>2. Fields(req[s]) /\ FileOf(req[s].name) \in Files
    BY <2>1, AtWork DEF File
  <2>3. req[s].snap \in GoodText(FileOf(req[s].name))
    BY <2>1, <2>2 DEF Fields
  <2>4. req[s].snap \in Text(FileOf(req[s].name))
    BY <2>3 DEF GoodText
  <2>5. Held(s) = <<FileOf(req[s].name), req[s].snap>>
    BY <2>1 DEF Held, SaveSteps
  <2>6. QED
    BY <2>2, <2>4, <2>5
<1>2. ~ Saves(req[s]) => Held(s) = None
  BY DEF Saves, SaveSteps, Held
<1>3. QED
  BY <1>1, <1>2, TextsApart

LEMMA HeldOthers ==
  ASSUME TypeInv, NEW s, NEW x, Goes(s, x)
  PROVE  /\ s \in Savers
         /\ HeldMap' = [HeldMap EXCEPT ![s] = Held(s)']
         /\ \A f \in Files \ {File(s)} : Disk(f)' = Disk(f)
<1>1. s \in Savers /\ \A t \in Savers \ {s} : req'[t] = req[t]
  BY OthersStay DEF Goes
<1>2. \A t \in Savers \ {s} : Held(t)' = Held(t)
  BY <1>1 DEF Held
<1>3. HeldMap' = [HeldMap EXCEPT ![s] = Held(s)']
  BY <1>1, <1>2 DEF HeldMap
<1>4. \A f \in Files \ {File(s)} : Disk(f)' = Disk(f)
  BY OthersStay
<1>5. QED
  BY <1>1, <1>3, <1>4

LEMMA Stutters ==
  ASSUME FileMap' = FileMap, HeldMap' = HeldMap, raced' = raced
  PROVE  UNCHANGED Store!vars
BY DEF Store!vars, FileMap, HeldMap

LEMMA Takes ==
  ASSUME NEW s \in Savers, HeldMap[s] = None, HeldMap'[s] # None,
         HeldMap'[s] \in Files \X UNION {Text(f) : f \in Files},
         HeldMap' = [HeldMap EXCEPT ![s] = HeldMap'[s]], FileMap' = FileMap,
         raced' = IF {t \in Savers : HeldMap[t] # None /\ HeldMap[t][1] = HeldMap'[s][1]} = {}
                  THEN raced ELSE raced \cup {HeldMap'[s][1]}
  PROVE  Store!Next
<1>1. Store!Take(s)
  BY DEF Store!Take, Store!Saving, FileMap, HeldMap
<1>2. QED
  BY <1>1 DEF Store!Next

LEMMA Puts ==
  ASSUME NEW s \in Savers, HeldMap[s] # None,
         FileMap' = [FileMap EXCEPT ![HeldMap[s][1]] = HeldMap[s][2]], raced' = raced,
         HeldMap' = HeldMap \/ HeldMap' = [HeldMap EXCEPT ![s] = None]
  PROVE  Store!Next
<1>1. Store!Put(s) \/ Store!PutAndRelease(s)
  BY DEF Store!Put, Store!PutAndRelease, FileMap, HeldMap
<1>2. QED
  BY <1>1 DEF Store!Next

LEMMA Releases ==
  ASSUME NEW s \in Savers, HeldMap[s] # None, FileMap' = FileMap, raced' = raced,
         HeldMap' = [HeldMap EXCEPT ![s] = None]
  PROVE  Store!Next
<1>1. Store!Release(s)
  BY DEF Store!Release, FileMap, HeldMap
<1>2. QED
  BY <1>1 DEF Store!Next

LEMMA Crashes ==
  ASSUME FileMap' = FileMap, raced' = raced, HeldMap' = [s \in Savers |-> None]
  PROVE  Store!Next
<1>1. Store!Crash
  BY DEF Store!Crash, FileMap, HeldMap
<1>2. QED
  BY <1>1 DEF Store!Next

LEMMA Unprotects ==
  ASSUME NEW f \in Files, f \in raced, raced' = raced,
         \A g \in Files \ {f} : FileMap'[g] = FileMap[g],
         \A s \in Savers : HeldMap'[s] \in {HeldMap[s], None}
  PROVE  Store!Next
<1>1. Store!Unprotected(f)
  BY DEF Store!Unprotected, FileMap, HeldMap
<1>2. QED
  BY <1>1 DEF Store!Next

LEMMA HeldAfter ==
  ASSUME TypeInv, NEW s, NEW x, Goes(s, x)
  PROVE  /\ s \in Savers /\ File(s) \in Files
         /\ HeldMap \in [Savers -> {None} \cup (Files \X UNION {Text(f) : f \in Files})]
         /\ HeldMap[s] = Held(s)
         /\ HeldMap' = [HeldMap EXCEPT ![s] = HeldMap'[s]]
         /\ Saves(x) => /\ HeldMap'[s] = <<File(s), x.snap>> /\ HeldMap'[s] # None
                        /\ HeldMap'[s] \in Files \X UNION {Text(f) : f \in Files}
         /\ ~ Saves(x) => HeldMap'[s] = None
         /\ \A f \in Files \ {File(s)} : FileMap'[f] = FileMap[f]
<1>1. s \in Savers /\ HeldMap' = [HeldMap EXCEPT ![s] = Held(s)']
      /\ \A f \in Files \ {File(s)} : Disk(f)' = Disk(f)
  BY HeldOthers
<1>2. HeldMap'[s] = Held(s)' /\ HeldMap[s] = Held(s)
  BY <1>1 DEF HeldMap
<1>3. req'[s] = x
  BY OthersStay
<1>4. File(s) \in Files /\ (x # Idle => x.name = req[s].name /\ Fields(x))
  BY AtWork DEF Goes
<1>5. ~ Saves(x) => Held(s)' = None
  BY <1>3 DEF Held, Saves, SaveSteps
<1>6. ASSUME Saves(x) 
      PROVE  /\ Held(s)' = <<File(s), x.snap>>
             /\ <<File(s), x.snap>> \in Files \X UNION {Text(f) : f \in Files}
  <2>1. x # Idle /\ x.pc \in SaveSteps \cup {"effect"} /\ FileOf(x.name) = File(s)
    BY <1>4, <1>6 DEF Saves, File
  <2>2. Held(s)' = <<File(s), x.snap>>
    BY <1>3, <2>1 DEF Held, SaveSteps
  <2>3. x.snap \in GoodText(File(s))
    BY <1>4, <2>1 DEF Fields
  <2>4. x.snap \in Text(File(s))
    BY <2>3 DEF GoodText
  <2>5. QED
    BY <1>4, <2>2, <2>4
<1>7. HeldMap \in [Savers -> {None} \cup (Files \X UNION {Text(f) : f \in Files})]
  BY HeldIsSave DEF HeldMap
<1>8. \A f \in Files \ {File(s)} : FileMap'[f] = FileMap[f]
  BY <1>1 DEF FileMap
<1>9. QED
  BY <1>1, <1>2, <1>4, <1>5, <1>6, <1>7, <1>8, TextsApart

LEMMA SaveStepRefines ==
  ASSUME TypeInv, SaveInv, SettledInv, NEW s \in Savers, SaveStep(s)
  PROVE  Store!Next \/ UNCHANGED Store!vars
<1>1. ASSUME Serialize(s) PROVE Store!Next
  <2>1. PICK x : Goes(s, x) /\ x # Idle /\ x.pc = "create"
    BY <1>1, SerializeGoes
  <2>2. Saves(x) /\ ~ Saves(req[s])
    BY <1>1, <2>1 DEF Serialize, At, Saves, SaveSteps
  <2>3. /\ HeldMap[s] = None /\ HeldMap'[s][1] = File(s) /\ HeldMap'[s] # None
        /\ HeldMap'[s] \in Files \X UNION {Text(f) : f \in Files}
        /\ HeldMap' = [HeldMap EXCEPT ![s] = HeldMap'[s]]
    BY <2>1, <2>2, HeldAfter, HeldIsSave
  <2>4. FileMap' = FileMap /\ raced' = IF InSave(File(s)) = {} THEN raced ELSE raced \cup {File(s)}
    BY <1>1 DEF Serialize, files, FileMap, Disk
  <2>5. InSave(File(s)) = {t \in Savers : HeldMap[t] # None /\ HeldMap[t][1] = File(s)}
    <3>1. ASSUME NEW t \in Savers
          PROVE  t \in InSave(File(s)) <=> (Held(t) # None /\ Held(t)[1] = File(s))
      <4>1. t \in InSave(File(s)) <=> (Saves(req[t]) /\ FileOf(req[t].name) = File(s))
        BY DEF InSave, Saves, SaveSteps
      <4>2. QED
        BY <4>1, HeldIsSave
    <3>2. QED
      BY <3>1 DEF HeldMap, InSave
  <2>6. raced' = IF {t \in Savers : HeldMap[t] # None /\ HeldMap[t][1] = HeldMap'[s][1]} = {}
                  THEN raced ELSE raced \cup {HeldMap'[s][1]}
    BY <2>3, <2>4, <2>5
  <2>7. QED
    BY <2>3, <2>4, <2>6, Takes
<1>2. ASSUME CreateTmp(s) PROVE UNCHANGED Store!vars
  <2>1. PICK x : \E i \in Inodes :
           /\ Goes(s, x) /\ x # Idle /\ x.pc = "write" /\ x.snap = req[s].snap
           /\ i # path[File(s)] 
           /\ \A j \in Inodes \ {i} : data'[File(s)][j] = data[File(s)][j]
           /\ UNCHANGED <<path, raced>>
    BY <1>2, CreateGoes
  <2>2. Saves(x) /\ Saves(req[s])
    BY <1>2, <2>1 DEF CreateTmp, At, Saves, SaveSteps
  <2>3. HeldMap' = HeldMap
    BY <2>1, <2>2, HeldAfter, HeldIsSave DEF File
  <2>4. ASSUME NEW f, f = File(s) PROVE FileMap'[f] = FileMap[f]
    <3>1. f \in Files
      BY <2>1, <2>4, HeldAfter
    <3>2. Disk(f)' = Disk(f)
      BY <2>1, <2>4, <3>1, TextsOf DEF Disk
    <3>3. QED
      BY <3>1, <3>2 DEF FileMap
  <2>5. FileMap' = FileMap
    <3>1. \A f \in Files \ {File(s)} : FileMap'[f] = FileMap[f]
      BY <2>1, HeldAfter
    <3>2. \A f \in Files : FileMap'[f] = FileMap[f]
      BY <2>4, <3>1
    <3>3. QED
      BY <3>2 DEF FileMap
  <2>6. QED
    BY <2>1, <2>3, <2>5, Stutters
<1>3. ASSUME WriteTmp(s) PROVE Store!Next \/ UNCHANGED Store!vars
  <2>1. PICK x : /\ Goes(s, x) /\ x # Idle /\ x.pc = "rename" /\ x.snap = req[s].snap
    BY <1>3, WriteGoes
  <2>2. /\ \A j \in Inodes \ {req[s].fd} : data'[File(s)][j] = data[File(s)][j]
        /\ UNCHANGED <<path, raced>> /\ req[s].pc = "write"
    BY <1>3, WriteGoes
  <2>3. Saves(x) /\ Saves(req[s])
    BY <2>1, <2>2 DEF Goes, Saves, SaveSteps
  <2>4. HeldMap' = HeldMap
    BY <2>1, <2>3, HeldAfter, HeldIsSave DEF File
  <2>5. ASSUME NEW f, f = File(s) PROVE Store!Next \/ UNCHANGED Store!vars
    <3>1. f \in Files /\ \A g \in Files \ {f} : FileMap'[g] = FileMap[g]
      BY <2>1, <2>5, HeldAfter
    <3>2. CASE f \in raced
      BY <2>2, <2>4, <3>1, <3>2, Unprotects
    <3>3. CASE f \notin raced
      <4>1. tmp[f] = req[s].fd
        BY <2>1, <2>2, <2>3, <2>5, <3>3, OwnSave
      <4>2. req[s].fd # path[f]
        BY <3>1, <4>1 DEF SaveInv, SaveAt
      <4>3. Disk(f)' = Disk(f)
        BY <2>2, <2>5, <3>1, <4>2, TextsOf DEF Disk
      <4>4. FileMap' = FileMap
        BY <3>1, <4>3 DEF FileMap
      <4>5. QED
        BY <2>2, <2>4, <4>4, Stutters
    <3>4. QED
      BY <3>2, <3>3
  <2>6. QED
    BY <2>5
<1>4. ASSUME RenameTmp(s) PROVE Store!Next
  <2>1. PICK x : /\ Goes(s, x) /\ x # Idle /\ x.snap = req[s].snap
                 /\ x.pc = IF req[s].op = "rotate" THEN "effect" ELSE "saved"
    BY <1>4, RenameGoes
  <2>2. ASSUME NEW f, f = File(s)
        PROVE  /\ req[s].pc = "rename" /\ path'[f] = tmp[f] /\ data'[f][tmp[f]] = data[f][tmp[f]]
               /\ raced' = raced
    BY <1>4, <2>2, RenameGoes
  <2>3. Saves(req[s])
    BY <2>1, <2>2 DEF Goes, Saves, SaveSteps
  <2>4. HeldMap[s] # None /\ HeldMap[s] = <<File(s), req[s].snap>>
    BY <2>1, <2>3, HeldAfter, HeldIsSave DEF File
  <2>5. HeldMap' = HeldMap \/ HeldMap' = [HeldMap EXCEPT ![s] = None]
    <3>1. CASE Saves(x)
      BY <2>1, <2>4, <3>1, HeldAfter
    <3>2. CASE ~ Saves(x)
      BY <2>1, <3>2, HeldAfter
    <3>3. QED
      BY <3>1, <3>2
  <2>6. ASSUME NEW f, f = File(s) PROVE Store!Next
    <3>1. f \in Files /\ \A g \in Files \ {f} : FileMap'[g] = FileMap[g]
      BY <2>1, <2>6, HeldAfter
    <3>2. CASE f \in raced
      <4>1. \A t \in Savers : HeldMap'[t] \in {HeldMap[t], None}
        BY <2>5 DEF HeldMap
      <4>2. QED
        BY <2>2, <2>6, <3>1, <3>2, <4>1, Unprotects
    <3>3. CASE f \notin raced
      <4>1. data[f][tmp[f]] = req[s].snap
        BY <2>1, <2>2, <2>3, <2>6, <3>3, OwnSave
      <4>2. Disk(f)' = req[s].snap
        BY <2>2, <2>6, <4>1 DEF Disk
      <4>3. FileMap' = [FileMap EXCEPT ![f] = req[s].snap]
        BY <3>1, <4>2 DEF FileMap
      <4>4. QED
        <5>1. HeldMap[s][1] = f /\ HeldMap[s][2] = req[s].snap
          BY <2>4, <2>6
        <5>2. FileMap' = [FileMap EXCEPT ![HeldMap[s][1]] = HeldMap[s][2]] /\ raced' = raced
          BY <2>2, <2>6, <4>3, <5>1
        <5>3. QED
          BY <2>4, <2>5, <5>2, Puts
    <3>4. QED
      BY <3>2, <3>3
  <2>7. QED
    BY <2>6
<1>5. ASSUME NEW x, Goes(s, x), Saves(req[s]), ~ Saves(x), raced' = raced, path' = path,
             data'[File(s)][path[File(s)]] = data[File(s)][path[File(s)]]
      PROVE  Store!Next
  <2>1. HeldMap[s] # None /\ HeldMap' = [HeldMap EXCEPT ![s] = None]
    BY <1>5, HeldAfter, HeldIsSave
  <2>2. FileMap' = FileMap
    <3>1. \A f \in Files \ {File(s)} : FileMap'[f] = FileMap[f]
      BY <1>5, HeldAfter
    <3>2. ASSUME NEW f \in Files, f = File(s) PROVE Disk(f)' = Disk(f)
      BY <1>5, <3>2 DEF Disk
    <3>3. QED
      BY <3>1, <3>2 DEF FileMap
  <2>3. QED
    BY <1>5, <2>1, <2>2, Releases
<1>6. ASSUME SaveFails(s) PROVE Store!Next
  <2>1. PICK x : Goes(s, x) /\ x # Idle /\ x.pc = "failed"
    BY <1>6, SaveFailsGoes
  <2>2. req[s].pc \in SaveSteps /\ raced' = raced /\ path' = path
        /\ data'[File(s)][path[File(s)]] = data[File(s)][path[File(s)]]
    BY <1>6, SaveFailsGoes
  <2>3. Saves(req[s]) /\ ~ Saves(x)
    BY <2>1, <2>2 DEF Goes, Saves, SaveSteps
  <2>4. QED
    BY <1>5, <2>1, <2>2, <2>3
<1>7. ASSUME Effect(s) PROVE Store!Next
  <2>1. Goes(s, Idle) /\ req[s].pc = "effect" /\ UNCHANGED <<path, data, raced>>
    BY <1>7, EffectGoes
  <2>2. Saves(req[s]) /\ ~ Saves(Idle)
    BY <2>1 DEF Goes, Saves
  <2>3. QED
    BY <1>5, <2>1, <2>2
<1>8. ASSUME NEW x, Goes(s, x), ~ Saves(req[s]), ~ Saves(x), UNCHANGED <<path, data, raced>>
      PROVE  UNCHANGED Store!vars
  <2>1. HeldMap' = HeldMap
    BY <1>8, HeldAfter, HeldIsSave
  <2>2. FileMap' = FileMap
    BY <1>8 DEF FileMap, Disk
  <2>3. QED
    BY <1>8, <2>1, <2>2, Stutters
<1>9. ASSUME Admit(s) PROVE UNCHANGED Store!vars
  <2>1. PICK x : Goes(s, x) /\ x # Idle /\ x.pc \in {"serialize", "restore"}
    BY <1>9, AdmitGoes
  <2>2. req[s].pc = "admit" /\ UNCHANGED <<path, data, raced>>
    BY <1>9, AdmitGoes
  <2>3. QED
    BY <1>8, <2>1, <2>2 DEF Saves, SaveSteps
<1>10. ASSUME Failed(s) PROVE UNCHANGED Store!vars
  <2>1. PICK x : Goes(s, x) /\ (x # Idle => x.pc \in {"restore", "saved"})
    BY <1>10, FailedGoes
  <2>2. req[s].pc = "failed" /\ UNCHANGED <<path, data, raced>>
    BY <1>10, FailedGoes
  <2>3. QED
    BY <1>8, <2>1, <2>2 DEF Saves, SaveSteps
<1>11. ASSUME RestorePending(s) \/ Saved(s) PROVE UNCHANGED Store!vars
  <2>1. Goes(s, Idle) /\ req[s].pc \in {"restore", "saved"} /\ UNCHANGED <<path, data, raced>>
    BY <1>11, RestoreGoes, EndGoes DEF Saved
  <2>2. QED
    BY <1>8, <2>1 DEF Saves, SaveSteps
<1>12. QED
  BY <1>1, <1>2, <1>3, <1>4, <1>6, <1>7, <1>9, <1>10, <1>11 DEF SaveStep

LEMMA StoreStep ==
  ASSUME IInv, [Next]_vars
  PROVE  Store!Next \/ UNCHANGED Store!vars
<1> USE DEF IInv
<1>1. ASSUME NEW s, NEW r, Starts(s, r) PROVE UNCHANGED Store!vars
  <2>1. /\ s \in Savers /\ req'[s] = r /\ \A t \in Savers \ {s} : req'[t] = req[t]
        /\ r # Idle /\ req[s] = Idle
    BY <1>1, StartsStay
  <2>2. r.pc \in {"admit", "serialize"} /\ UNCHANGED <<path, data, raced>>
    BY <1>1 DEF Starts
  <2>3. \A t \in Savers : Held(t)' = Held(t)
    BY <2>1, <2>2 DEF Held
  <2>4. HeldMap' = HeldMap /\ FileMap' = FileMap
    BY <2>2, <2>3 DEF HeldMap, FileMap, Disk
  <2>5. QED
    BY <2>2, <2>4, Stutters
<1>2. ASSUME UNCHANGED <<req, path, data, raced>> PROVE UNCHANGED Store!vars
  <2>1. HeldMap' = HeldMap /\ FileMap' = FileMap
    BY <1>2 DEF HeldMap, FileMap, Disk, Held
  <2>2. QED
    BY <1>2, <2>1, Stutters
<1>3. ASSUME NEW c \in Conns, Handshake(c) PROVE UNCHANGED Store!vars
  <2>1. ASSUME \E k : Shakes(c, k) PROVE UNCHANGED Store!vars
    BY <1>2, <2>1 DEF Shakes, Stay, regVars
  <2>2. CASE Pend(c)
    BY <1>2, <2>2 DEF Pend, files
  <2>3. CASE Enroll(c)
    BY <1>1, <2>1, <2>3, EnrollCases
  <2>4. CASE Enrolled(c)
    <3>1. Goes(c, Idle) /\ req[c].pc = "saved" /\ UNCHANGED <<path, data, raced>>
      BY <2>4, EnrolledGoes
    <3>2. ~ Saves(req[c]) /\ ~ Saves(Idle)
      BY <3>1 DEF Saves, SaveSteps
    <3>3. HeldMap' = HeldMap
      BY <3>1, <3>2, HeldAfter, HeldIsSave
    <3>4. FileMap' = FileMap
      BY <3>1 DEF FileMap, Disk
    <3>5. QED
      BY <3>1, <3>3, <3>4, Stutters
  <2>5. QED
    BY <1>3, <2>1, <2>2, <2>3, <2>4, HandshakeCases
<1>4. ASSUME NEW n, Login(n) \/ Expire(n) PROVE UNCHANGED Store!vars
  BY <1>2, <1>4 DEF Login, Expire, regVars
<1>5. ASSUME RestartAll PROVE Store!Next
  <2>1. UNCHANGED <<path, data, raced>> /\ \A s \in Savers : req'[s] = Idle
    BY <1>5 DEF RestartAll, Restart, files
  <2>2. HeldMap' = [s \in Savers |-> None] /\ FileMap' = FileMap
    BY <2>1 DEF HeldMap, FileMap, Disk, Held
  <2>3. QED
    BY <2>1, <2>2, Crashes
<1>6. ASSUME UNCHANGED vars PROVE UNCHANGED Store!vars
  BY <1>2, <1>6 DEF vars
<1>7. QED
  BY <1>1, <1>3, <1>4, <1>5, <1>6, AdminStarts, SaveStepRefines DEF Next

LEMMA StoreInit ==
  ASSUME EInit PROVE Store!Init
<1>1. MemType
  BY Initially DEF IInv, TypeInv
<1>2. \A f \in Files : Disk(f) = [n \in NamesOf(f) |-> mem[n]]
  <2>1. 0 \in Inodes
    BY Initially DEF IInv, TypeInv, FileType, EInit, Init, Files
  <2>2. QED
    BY <2>1 DEF EInit, Init, Disk
<1>3. \A f \in Files : Disk(f) \in Text(f)
  BY <1>1, <1>2, TextOfMem DEF MemType, GoodText
<1>4. FileMap \in [Files -> UNION {Text(f) : f \in Files}]
  BY <1>3 DEF FileMap
<1>5. HeldMap = [s \in Savers |-> None] /\ raced = {}
  BY DEF EInit, Init, HeldMap, Held
<1>6. QED
  BY <1>4, <1>5 DEF Store!Init, FileMap, HeldMap

(* Every behaviour of the registries is one of AtomicStore: a save is one  *)
(* atomic replacement of the file by the text its writer serialized, or    *)
(* nothing, across failing operations and restarts, until two saves of the *)
(* same file overlap.                                                      *)
THEOREM FilesImplementStore == Spec => FilesAreAtomic
<1>1. EInit => Store!Init
  BY StoreInit
<1>2. IInv /\ [Next]_vars => [Store!Next]_(Store!vars)
  BY StoreStep
<1>3. QED
  BY <1>1, <1>2, Inductive, PTL DEF Spec, FilesAreAtomic, Store!Spec
=============================================================================
