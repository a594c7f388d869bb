--------------------------- MODULE ServerRegistry ---------------------------
(***************************************************************************)
(* The server's file-backed registries: devices.yaml, accounts.yaml,       *)
(* api_keys.yaml, and the psk of server.yaml.  Every one is a map in       *)
(* memory behind a lock and a file written by write-to-temp and rename.    *)
(* A handler of the admin API changes memory under the lock, and then      *)
(* saves without any lock: it serializes, truncates or creates the one     *)
(* temp file, writes it and renames it.  The psk is saved first and put    *)
(* into effect afterwards.                                                 *)
(*                                                                         *)
(* A file is modelled by its inodes, because the temp name is shared: a    *)
(* second save opens (and truncates) the temp file of the first, and may   *)
(* hold it open when the first has renamed it over the registry.           *)
(***************************************************************************)
EXTENDS Naturals, FiniteSets, FiniteSetsExt

CONSTANTS Devices, Users, ApiKeys,  \* names the registries may hold
          Roles,      \* roles the requests give to accounts and keys
          Slots,      \* admin requests in flight at the same time
          Conns,      \* signaling connections (they save when they enrol)
          Vks,        \* verifying keys devices may offer
          None,
          Torn,       \* text no parser accepts
          Empty,      \* a file that was created and not written yet
          MaxGen,     \* bound: requests (the n-th generates secret n)
          MaxFails,   \* bound: failing file operations
          MaxCrashes  \* bound: restarts of the process

ASSUME RegistryAssumption ==
  /\ MaxGen \in Nat /\ MaxFails \in Nat /\ MaxCrashes \in Nat
  /\ Slots \cap Conns = {} /\ IsFiniteSet(Slots \cup Conns)
  /\ None \notin Nat /\ Torn # Empty

\* The registries are maps of their own; their names are told apart.
ASSUME NamesApart ==
  /\ Devices \cap Users = {} /\ Devices \cap ApiKeys = {} /\ Users \cap ApiKeys = {}
  /\ "psk" \notin Devices \cup Users \cup ApiKeys

VARIABLES mem,      \* name -> its entry in memory
          path,     \* file -> the inode the registry's name points to
          tmp,      \* file -> the inode of the temp name, or None
          data,     \* file -> inode -> text
          req,      \* saver -> the request it executes, or Idle
          gen,      \* requests so far, and the last secret generated
          pending,  \* device -> the reported key that waits for approval
          up,       \* the process runs
          fails, crashes,
          raced,    \* history: files whose saves have overlapped
          crossed,  \* history: files with two requests at the same time
          unsaved,  \* history: files behind memory since a failed save
          overtaken \* history: devices that reported during an approval

regVars == <<mem, path, tmp, data, req, gen, pending, up, fails, crashes,
             raced, crossed, unsaved, overtaken>>

files == <<path, tmp, data>>
proc == <<up, fails, crashes>>
hist == <<raced, crossed, unsaved, overtaken>>

Files == {"devices", "accounts", "api_keys", "server"}
Names == Devices \cup Users \cup ApiKeys \cup {"psk"}
FileOf(n) == CASE n \in Devices -> "devices"
               [] n \in Users   -> "accounts"
               [] n \in ApiKeys -> "api_keys"
               [] OTHER         -> "server"
NamesOf(f) == {n \in Names : FileOf(n) = f}
Savers == Slots \cup Conns

\* An entry: its form (the kind of credential, or the role) and its value.
Entry == ({"secret", "psk"} \cup Roles) \X (0..MaxGen)
Keyed == {"pubkey"} \X Vks

Text(f) == [NamesOf(f) -> Entry \cup Keyed \cup {None}]
Inodes == 0..Cardinality(Savers) + 1

\* No entry and no save is the missing one, no text is unreadable.
ASSUME TextsApart ==
  /\ None \notin Entry \cup Keyed \cup (Files \X UNION {Text(f) : f \in Files})
  /\ \A f \in Files : Torn \notin Text(f) /\ Empty \notin Text(f)

Idle == [op |-> "none"]
Steps == {"admit", "serialize", "create", "write", "rename", "failed", "restore",
          "effect", "saved"}

(***************************************************************************)
(* Reading and writing the files                                           *)
(***************************************************************************)

\* The length of an entry's yaml, as far as one text can cover another.
Weight(e) == CASE e = None             -> 0
               [] e[1] = "pubkey"      -> 7
               [] e[1] = "secret"      -> 8
               [] e[1] = "admin"       -> 9
               [] e[1] = "viewer"      -> 10
               [] e[1] = "operator"    -> 12
               [] e[1] = "dispatcher"  -> 14
               [] OTHER                -> 3
Length(t) == IF t = Empty THEN 0
             ELSE FoldSet(LAMBDA n, acc : acc + Weight(t[n]), 0, DOMAIN t)

\* Writing t from the start of an inode that holds old.
Overwrite(old, t) == IF old = Torn THEN Torn
                     ELSE IF old = Empty \/ Length(t) >= Length(old) THEN t ELSE Torn

\* What load makes of a file: unreadable devices and keys are an empty
\* registry, an unreadable server.yaml is the built-in default psk.
Loaded(n, t) == IF t \in {Torn, Empty}
                THEN IF n = "psk" THEN <<"psk", 0>> ELSE None
                ELSE t[n]

Disk(f) == data[f][path[f]]
InSave(f) == {s \in Savers : /\ req[s] # Idle
                             /\ FileOf(req[s].name) = f
                             /\ req[s].pc \in {"create", "write", "rename",
                                               "effect"}}
\* The texts of f once nobody but s may hold inode i: it is gone when no
\* other save has it open (i loses its name in this step).
Unlinked(s, f, i) ==
  IF i = None \/ \E t \in InSave(f) \ {s} : req[t].fd = i
  THEN data[f] ELSE [data[f] EXCEPT ![i] = Empty]
FreshInode(f) ==
  CHOOSE i \in Inodes :
    /\ i # path[f] /\ i # tmp[f]
    /\ \A s \in InSave(f) : req[s].fd # i

Init ==
  /\ mem = [n \in Names |-> IF n = "psk" THEN <<"psk", 0>> ELSE None]
  /\ path = [f \in Files |-> 0]
  /\ tmp = [f \in Files |-> None]
  /\ data = [f \in Files |-> [i \in Inodes |->
               IF i = 0 THEN [n \in NamesOf(f) |-> mem[n]] ELSE Empty]]
  /\ req = [s \in Savers |-> Idle]
  /\ gen = 0
  /\ pending = [d \in Devices |-> None]
  /\ up = TRUE
  /\ fails = 0 /\ crashes = 0
  /\ raced = {} /\ crossed = {} /\ unsaved = {} /\ overtaken = {}

(***************************************************************************)
(* The handlers: what they do under the registry's lock                    *)
(***************************************************************************)

At(s, pc) == req[s] # Idle /\ req[s].pc = pc
File(s) == FileOf(req[s].name)

Request(op, n, v, kept) ==
  [op |-> op, name |-> n, val |-> v, kept |-> kept,
   pc |-> "serialize", snap |-> None, fd |-> None]

\* Somebody works on the registry already.
Quiet(f) == \A s \in Savers : req[s] # Idle => FileOf(req[s].name) # f
Crossing(f) == IF Quiet(f) THEN crossed ELSE crossed \cup {f}

Begin(s, op, n, v) ==
  /\ up /\ req[s] = Idle /\ gen < MaxGen
  /\ gen' = gen + 1
  /\ req' = [req EXCEPT ![s] = Request(op, n, v, None)]
  /\ crossed' = Crossing(FileOf(n))
  /\ UNCHANGED <<files, proc, raced, unsaved, overtaken>>

\* The registries' own operations, each under the write lock: register and
\* enrol refuse a name that is there, the others one that is not.
Insert(n, e) == mem[n] = None /\ mem' = [mem EXCEPT ![n] = e]
Replace(n, e) == mem[n] # None /\ mem' = [mem EXCEPT ![n] = e]

register_with_secret(d, secret) == Insert(d, <<"secret", secret>>)
enroll_auto(d, vk) == Insert(d, <<"pubkey", vk>>)
revoke(d) == Replace(d, None)
\* Only an entry of the secret form has a secret to reset.
reset_secret(d, secret) == /\ mem[d] # None /\ mem[d][1] = "secret"
                           /\ Replace(d, <<"secret", secret>>)
create(u, r, password) == Insert(u, <<r, password>>)
\* Role, password, or both; fields not given stay.
update(u, r, password) ==
  Replace(u, <<r, IF password = None THEN mem[u][2] ELSE password>>)
delete(u) == Replace(u, None)
register_key(a, r, secret) == Insert(a, <<r, secret>>)
revoke_key(a) == Replace(a, None)

\* The handlers: the operation, then (in the steps of the save) the file.
register_device(s, d) ==
  /\ register_with_secret(d, gen + 1)
  /\ Begin(s, "register", d, mem'[d])
  /\ UNCHANGED pending

revoke_device(s, d) ==
  /\ revoke(d)
  /\ Begin(s, "revoke", d, None)
  /\ UNCHANGED pending

reset_device_secret(s, d) ==
  /\ reset_secret(d, gen + 1)
  /\ Begin(s, "reset", d, mem'[d])
  /\ UNCHANGED pending

\* approve_pending_device takes the report off the table first ...
approve_pending_device(s, d) ==
  /\ up /\ req[s] = Idle /\ gen < MaxGen
  /\ gen' = gen + 1
  /\ pending[d] # None
  /\ req' = [req EXCEPT ![s] =
               [Request("approve", d, <<"pubkey", pending[d]>>, pending[d])
                  EXCEPT !.pc = "admit"]]
  /\ pending' = [pending EXCEPT ![d] = None]
  /\ crossed' = Crossing("devices")
  /\ UNCHANGED <<mem, raced, unsaved, overtaken, files, proc>>

\* Mutant: the approved key is stored without looking at the registry.
AdmitBlindly(s) ==
  /\ At(s, "admit")
  /\ mem' = [mem EXCEPT ![req[s].name] = req[s].val]
  /\ req' = [req EXCEPT ![s].pc = "serialize"]
  /\ UNCHANGED <<gen, pending, files, proc, hist>>

\* ... and enrols it; a device registered meanwhile is a conflict, and the
\* report goes back.
Admit(s) ==
  /\ At(s, "admit")
  /\ LET d == req[s].name IN
     \/ /\ enroll_auto(d, req[s].kept)
        /\ req' = [req EXCEPT ![s].pc = "serialize"]
     \/ /\ mem[d] # None
        /\ req' = [req EXCEPT ![s].pc = "restore"]
        /\ UNCHANGED mem
  /\ UNCHANGED <<gen, pending, files, proc, hist>>

create_account(s, u, r) ==
  /\ create(u, r, gen + 1)
  /\ Begin(s, "create", u, mem'[u])
  /\ UNCHANGED pending

update_account(s, u, r, newPassword) ==
  /\ update(u, r, IF newPassword THEN gen + 1 ELSE None)
  /\ Begin(s, "update", u, mem'[u])
  /\ UNCHANGED pending

\* By somebody else (one cannot delete oneself).
delete_account(s, u) ==
  /\ delete(u)
  /\ Begin(s, "delete", u, None)
  /\ UNCHANGED pending

register_api_key(s, a, r) ==
  /\ register_key(a, r, gen + 1)
  /\ Begin(s, "register", a, mem'[a])
  /\ UNCHANGED pending

revoke_api_key(s, a) ==
  /\ revoke_key(a)
  /\ Begin(s, "revoke", a, None)
  /\ UNCHANGED pending

\* rotate_psk writes the file first: memory changes in Effect.
rotate_psk(s) ==
  /\ Begin(s, "rotate", "psk", <<"psk", gen + 1>>)
  /\ UNCHANGED <<mem, pending>>

(***************************************************************************)
(* save: serialize, create the temp file, write, rename                    *)
(***************************************************************************)
Serialize(s) ==
  /\ At(s, "serialize")
  /\ req' = [req EXCEPT ![s].pc = "create",
                        ![s].snap = IF req[s].op = "rotate"
                                    THEN [n \in {"psk"} |-> req[s].val]
                                    ELSE [n \in NamesOf(File(s)) |-> mem[n]]]
  /\ raced' = IF InSave(File(s)) = {} THEN raced ELSE raced \cup {File(s)}
  /\ UNCHANGED <<mem, gen, pending, crossed, unsaved, overtaken, files,
                  proc>>

CreateTmp(s) ==
  /\ At(s, "create")
  /\ LET f == File(s)
         i == IF tmp[f] # None THEN tmp[f] ELSE FreshInode(f)
     IN  /\ tmp' = [tmp EXCEPT ![f] = i]
         /\ data' = [data EXCEPT ![f][i] = Empty]
         /\ req' = [req EXCEPT ![s].pc = "write", ![s].fd = i]
  /\ UNCHANGED <<mem, path, gen, pending, proc, hist>>

\* Mutant: memory is serialized again when the temp file is written.
WriteMemory(s) ==
  /\ At(s, "write")
  /\ data' = [data EXCEPT ![File(s)][req[s].fd] =
                Overwrite(@, [n \in NamesOf(File(s)) |-> mem[n]])]
  /\ req' = [req EXCEPT ![s].pc = "rename"]
  /\ UNCHANGED <<mem, path, tmp, gen, pending, proc, hist>>

WriteTmp(s) ==
  /\ At(s, "write")
  /\ data' = [data EXCEPT ![File(s)][req[s].fd] = Overwrite(@, req[s].snap)]
  /\ req' = [req EXCEPT ![s].pc = "rename"]
  /\ UNCHANGED <<mem, path, tmp, gen, pending, proc, hist>>

\* The rename takes whatever inode the temp name has by now.
RenameTmp(s) ==
  /\ At(s, "rename")
  /\ LET f == File(s)
     IN  /\ tmp[f] # None
         /\ path' = [path EXCEPT ![f] = tmp[f]]
         /\ tmp' = [tmp EXCEPT ![f] = None]
         /\ data' = [data EXCEPT ![f] = Unlinked(s, f, path[f])]
         /\ unsaved' = IF f \in crossed THEN unsaved ELSE unsaved \ {f}
  /\ req' = [req EXCEPT ![s].pc = IF req[s].op = "rotate" THEN "effect"
                                  ELSE "saved",
                        ![s].fd = None]
  /\ UNCHANGED <<mem, gen, pending, raced, crossed, overtaken, proc>>

\* An operation fails, or the temp file was renamed or removed by another
\* save; the temp name is removed, whoever's it is.
SaveFails(s) ==
  /\ \E pc \in {"create", "write", "rename"} : At(s, pc)
  /\ LET gone == At(s, "rename") /\ tmp[File(s)] = None
     IN  \/ gone /\ UNCHANGED fails
         \/ ~gone /\ fails < MaxFails /\ fails' = fails + 1
  /\ tmp' = [tmp EXCEPT ![File(s)] = None]
  /\ data' = [data EXCEPT ![File(s)] = Unlinked(s, File(s), tmp[File(s)])]
  /\ req' = [req EXCEPT ![s].pc = "failed", ![s].fd = None]
  /\ UNCHANGED <<mem, path, gen, pending, up, crashes, hist>>

\* Mutant: a failed save is reported and nothing is taken back.
FailedKept(s) ==
  /\ At(s, "failed")
  /\ req' = [req EXCEPT ![s] = Idle]
  /\ UNCHANGED <<mem, gen, pending, files, proc, hist>>

\* After a failed save: a registration or creation is taken back, a psk was
\* never in effect, anything else stays in memory and is reported.
Failed(s) ==
  /\ At(s, "failed")
  /\ LET r == req[s] IN
     \/ /\ r.op \in {"register", "create", "approve"}
        /\ mem' = [mem EXCEPT ![r.name] = None]
        /\ req' = [req EXCEPT ![s] = IF r.op = "approve"
                                     THEN [r EXCEPT !.pc = "restore"]
                                     ELSE Idle]
        /\ UNCHANGED unsaved
     \/ /\ r.op = "rotate"
        /\ req' = [req EXCEPT ![s] = Idle]
        /\ UNCHANGED <<mem, unsaved>>
     \/ /\ r.op \in {"revoke", "reset", "update", "delete", "enroll"}
        /\ req' = [req EXCEPT ![s] = IF r.op = "enroll"
                                     THEN [r EXCEPT !.pc = "saved"]
                                     ELSE Idle]
        /\ unsaved' = unsaved \cup {File(s)}
        /\ UNCHANGED mem
  /\ UNCHANGED <<gen, pending, raced, crossed, overtaken, files, proc>>

\* approve puts the report back into the table.
RestorePending(s) ==
  /\ At(s, "restore")
  /\ pending' = [pending EXCEPT ![req[s].name] = req[s].kept]
  /\ req' = [req EXCEPT ![s] = Idle]
  /\ UNCHANGED <<mem, gen, files, proc, hist>>

\* rotate_psk puts the new psk into effect once it is on disk.
Effect(s) ==
  /\ At(s, "effect")
  /\ mem' = [mem EXCEPT !["psk"] = req[s].val]
  /\ req' = [req EXCEPT ![s] = Idle]
  /\ UNCHANGED <<gen, pending, files, proc, hist>>

\* The answer, after the audit event.
Saved(s) ==
  /\ s \in Slots /\ At(s, "saved")
  /\ req' = [req EXCEPT ![s] = Idle]
  /\ UNCHANGED <<mem, gen, pending, files, proc, hist>>

(***************************************************************************)
(* The process stops or dies and is started again: the registries are      *)
(* loaded, an unreadable accounts.yaml refuses the start, pending reports  *)
(* are gone, temp files stay.                                              *)
(***************************************************************************)
Restart ==
  /\ up /\ crashes < MaxCrashes
  /\ crashes' = crashes + 1
  /\ up' = (Disk("accounts") \notin {Torn, Empty})
  /\ mem' = [n \in Names |-> Loaded(n, Disk(FileOf(n)))]
  /\ req' = [s \in Savers |-> Idle]
  /\ pending' = [d \in Devices |-> None]
  /\ unsaved' = {f \in unsaved : Disk(f) \in {Torn, Empty}}
  /\ crossed' = {f \in crossed : Disk(f) \in {Torn, Empty}}
  /\ overtaken' = {}
  /\ UNCHANGED <<gen, fails, raced, files>>

AdminRequest(s) ==
  \/ \E d \in Devices : \/ register_device(s, d) \/ revoke_device(s, d)
                        \/ reset_device_secret(s, d)
                        \/ approve_pending_device(s, d)
  \/ \E u \in Users : \/ delete_account(s, u)
                      \/ \E r \in Roles : create_account(s, u, r)
                      \/ \E r \in Roles, p \in BOOLEAN :
                           update_account(s, u, r, p)
  \/ \E a \in ApiKeys : \/ revoke_api_key(s, a)
                        \/ \E r \in Roles : register_api_key(s, a, r)
  \/ rotate_psk(s)

SaveStep(s) ==
  \/ Admit(s) \/ Serialize(s) \/ CreateTmp(s) \/ WriteTmp(s) \/ RenameTmp(s)
  \/ SaveFails(s) \/ Failed(s) \/ RestorePending(s) \/ Effect(s) \/ Saved(s)
=============================================================================
