----------------------------- MODULE ServerFiles -----------------------------
(***************************************************************************)
(* The files of a server instance as `init` and `start` write them         *)
(* (lifecycle/mod.rs, lifecycle/templates.rs): server.yaml and the two     *)
(* registry templates are written once, the oxfile and the Caddyfile are   *)
(* rendered, rotated to .bak when they are stale, and rendered again; the  *)
(* operator's own [apps.env] lines are carried over from the oxfile or its *)
(* .bak.  Every file operation is a step and the program may be killed     *)
(* between any two of them, also between the truncation of a file and its  *)
(* text.  The operator edits, deletes and garbles files between runs.      *)
(***************************************************************************)
EXTENDS Naturals, FiniteSets

CONSTANTS Brands,       \* product brands; the upstream one is Upstream
          Upstream,
          EnvKeys,      \* manual [apps.env] keys
          NoFile,       \* no file
          Blank,        \* a file that was truncated and not written
          Garbled,      \* text without an [[apps]] entry
          MaxEdits,     \* bound: changes by the operator
          MaxKills      \* bound: kills of the program

VARIABLES ox, oxbak,    \* run/oxfile.toml and its .bak
          caddy,        \* etc/Caddyfile: NoFile, or whether it has the weaknet block
          yaml,         \* etc/server.yaml exists
          accounts,     \* etc/accounts.yaml: NoFile, "template" or "admin"
          wbin,         \* the brand in the name of bin/*-weaknet, or NoFile
          prog,         \* the program that runs: brand, exe name, pc
          edits, kills,
          \* history
          owed,         \* manual env lines the operator has not given up
          told,         \* lines reported as not carried over
          torn          \* a kill hit a half-written file, or came before the note

fileVars == <<ox, oxbak, caddy, yaml, accounts, wbin, prog, edits, kills,
              owed, told, torn>>

Stopped == [pc |-> "none"]
Running == prog.pc # "none"

\* App names: the server's and the web's carry the brand, weaknet's does not.
AppNames == ({"server", "web"} \X Brands) \cup {<<"weaknet", Upstream>>}
Weaknet == <<"weaknet", Upstream>>
Oxfiles == [apps : SUBSET AppNames, server : Brands, weaknet : Brands \cup {NoFile},
            env : SUBSET (AppNames \X EnvKeys)]

\* What a file may hold besides a rendered text is told apart from it.
ASSUME FilesAssumption ==
  /\ Upstream \in Brands /\ NoFile \notin Brands
  /\ NoFile # Blank /\ NoFile # Garbled /\ Blank # Garbled
  /\ {NoFile, Blank, Garbled} \cap Oxfiles = {} /\ NoFile \notin {"plain", "block"}

IsOxfile(f) == f \notin {NoFile, Blank, Garbled}
EnvOf(f) == IF IsOxfile(f) THEN f.env ELSE {}

(***************************************************************************)
(* Rendering, the merge of manual lines and the migration guards           *)
(***************************************************************************)

\* The weaknet binary the renderer finds: the brand's own name first, the
\* upstream name as the fallback.
discover_weaknet_bin(b) == IF wbin \in {b, Upstream} THEN wbin ELSE NoFile

\* exe: the name of the running binary, which becomes the server's command.
render_oxfile(b, exe) ==
  [apps   |-> {<<"server", b>>, <<"web", b>>}
                \cup (IF discover_weaknet_bin(b) = NoFile THEN {} ELSE {Weaknet}),
   server |-> exe, weaknet |-> discover_weaknet_bin(b), env |-> {}]

looks_like_oxfile(f) == f # Garbled

\* Manual lines of apps the new text has; the others are counted as lost.
merge_manual_env(old, new) ==
  [new EXCEPT !.env = {e \in EnvOf(old) : e[1] \in new.apps}]

oxfile_migration_needed(f, b) ==
  LET wnet == discover_weaknet_bin(b)
      expected == IF wnet = NoFile THEN b ELSE wnet
  IN  IF IsOxfile(f)
      THEN \/ f.server # b
           \/ Weaknet \in f.apps /\ f.weaknet # expected
           \/ wnet # NoFile /\ Weaknet \notin f.apps
      ELSE f # NoFile /\ wnet # NoFile

caddyfile_migration_needed(f, b) ==
  /\ f # NoFile
  /\ discover_weaknet_bin(b) # NoFile
  /\ f # "block"

\* What write_oxfile merges from: the oxfile, else its .bak.
OldText == IF ox # NoFile THEN ox ELSE oxbak
Corrupt == OldText # NoFile /\ ~looks_like_oxfile(OldText)
NewText == IF Corrupt THEN render_oxfile(prog.brand, prog.exe)
           ELSE merge_manual_env(OldText, render_oxfile(prog.brand, prog.exe))

(***************************************************************************)
(* init and start                                                          *)
(***************************************************************************)
FilesInit ==
  /\ ox = NoFile /\ oxbak = NoFile /\ caddy = NoFile
  /\ yaml = FALSE /\ accounts = NoFile
  /\ wbin \in Brands \cup {NoFile}
  /\ prog = Stopped
  /\ edits = 0 /\ kills = 0
  /\ owed = {} /\ told = {} /\ torn = FALSE

AtPc(pc) == prog.pc = pc
GotoPc(pc) == prog' = [prog EXCEPT !.pc = pc]
Quit == prog' = Stopped
hist3 == <<owed, told, torn>>

cmd_init(b, exe) ==
  /\ ~Running
  /\ prog' = [pc |-> "rotate-ox", op |-> "init", brand |-> b, exe |-> exe, text |-> NoFile, lost |-> {}]
  /\ UNCHANGED <<ox, oxbak, caddy, yaml, accounts, wbin, edits, kills, hist3>>

\* start needs an instance; it renders only a missing oxfile.
start_oxfile(b, exe) ==
  /\ ~Running /\ yaml /\ ox = NoFile
  /\ prog' = [pc |-> "render", op |-> "start", brand |-> b, exe |-> exe, text |-> NoFile, lost |-> {}]
  /\ UNCHANGED <<ox, oxbak, caddy, yaml, accounts, wbin, edits, kills, hist3>>

\* Mutant: a stale oxfile is removed, not rotated.
DropStale ==
  /\ AtPc("rotate-ox")
  /\ ox' = IF oxfile_migration_needed(ox, prog.brand) THEN NoFile ELSE ox
  /\ GotoPc("rotate-caddy")
  /\ UNCHANGED <<oxbak, caddy, yaml, accounts, wbin, edits, kills, hist3>>

migrate_oxfile ==
  /\ AtPc("rotate-ox")
  /\ \/ /\ oxfile_migration_needed(ox, prog.brand)
        /\ oxbak' = ox
        /\ ox' = NoFile
     \/ /\ ~oxfile_migration_needed(ox, prog.brand)
        /\ UNCHANGED <<ox, oxbak>>
  /\ GotoPc("rotate-caddy")
  /\ UNCHANGED <<caddy, yaml, accounts, wbin, edits, kills, hist3>>

migrate_caddyfile ==
  /\ AtPc("rotate-caddy")
  /\ caddy' = IF caddyfile_migration_needed(caddy, prog.brand) THEN NoFile ELSE caddy
  /\ GotoPc("yaml")
  /\ UNCHANGED <<ox, oxbak, yaml, accounts, wbin, edits, kills, hist3>>

\* server.yaml, devices.yaml and accounts.yaml are written when missing.
write_templates ==
  /\ AtPc("yaml")
  /\ yaml' = TRUE
  /\ accounts' = IF accounts = NoFile THEN "template" ELSE accounts
  /\ GotoPc("admin")
  /\ UNCHANGED <<ox, oxbak, caddy, wbin, edits, kills, hist3>>

\* With MEDIASERVO_ADMIN_PASSWORD an admin is appended, once.
bootstrap_admin ==
  /\ AtPc("admin")
  /\ accounts' \in {accounts, "admin"}
  /\ GotoPc("caddy")
  /\ UNCHANGED <<ox, oxbak, caddy, yaml, wbin, edits, kills, hist3>>

\* Mutant: the block is always left out.
render_plain(b) == "plain"

\* The block is in every rendered Caddyfile.
render_caddyfile(b) == "block"

write_caddyfile ==
  /\ AtPc("caddy")
  /\ caddy' = IF caddy = NoFile THEN render_caddyfile(prog.brand) ELSE caddy
  /\ IF ox = NoFile THEN GotoPc("render") ELSE GotoPc("done")
  /\ UNCHANGED <<ox, oxbak, yaml, accounts, wbin, edits, kills, hist3>>

\* write_oxfile: render and merge; lost is what the note at its end reports.
Render ==
  /\ AtPc("render")
  /\ prog' = [prog EXCEPT !.pc = "open-ox", !.text = NewText,
              !.lost = (EnvOf(OldText) \ NewText.env)
                         \cup (IF Corrupt THEN owed \ NewText.env ELSE {})]
  /\ UNCHANGED <<ox, oxbak, caddy, yaml, accounts, wbin, edits, kills, hist3>>

\* std::fs::write truncates, then writes; first the oxfile, then the .bak;
\* the notes come last.
OpenOx == /\ AtPc("open-ox")
          /\ ox' = Blank
          /\ GotoPc("write-ox")
          /\ UNCHANGED <<oxbak, caddy, yaml, accounts, wbin, edits, kills, hist3>>
WriteOx == /\ AtPc("write-ox")
           /\ ox' = prog.text
           /\ GotoPc("open-bak")
           /\ UNCHANGED <<oxbak, caddy, yaml, accounts, wbin, edits, kills, hist3>>
OpenBak == /\ AtPc("open-bak")
           /\ oxbak' = Blank
           /\ GotoPc("write-bak")
           /\ UNCHANGED <<ox, caddy, yaml, accounts, wbin, edits, kills, hist3>>
WriteBak == /\ AtPc("write-bak")
            /\ oxbak' = prog.text
            /\ told' = told \cup prog.lost
            /\ GotoPc("done")
            /\ UNCHANGED <<ox, caddy, yaml, accounts, wbin, edits, kills, owed, torn>>

Done == /\ AtPc("done")
        /\ Quit
        /\ UNCHANGED <<ox, oxbak, caddy, yaml, accounts, wbin, edits, kills, hist3>>

Killed ==
  /\ Running /\ kills < MaxKills
  /\ kills' = kills + 1
  /\ torn' = (\/ torn \/ prog.pc \in {"write-ox", "write-bak"}
              \/ prog.pc = "open-bak" /\ prog.lost # {})
  /\ Quit
  /\ UNCHANGED <<ox, oxbak, caddy, yaml, accounts, wbin, edits, owed, told>>

(***************************************************************************)
(* The operator, between runs                                              *)
(***************************************************************************)
Operator == ~Running /\ edits < MaxEdits /\ edits' = edits + 1

AddEnv(a, k) ==
  /\ Operator /\ IsOxfile(ox)
  /\ a \in ox.apps
  /\ ox' = [ox EXCEPT !.env = @ \cup {<<a, k>>}]
  /\ owed' = owed \cup {<<a, k>>} /\ told' = told \ {<<a, k>>}
  /\ UNCHANGED <<oxbak, caddy, yaml, accounts, wbin, prog, kills, torn>>

\* Deleting the oxfile gives up what was added since the last render.
DeleteOxfile ==
  /\ Operator /\ ox # NoFile
  /\ ox' = NoFile
  /\ owed' = owed \cap EnvOf(oxbak)
  /\ UNCHANGED <<oxbak, caddy, yaml, accounts, wbin, prog, kills, told, torn>>

GarbleOxfile ==
  /\ Operator /\ IsOxfile(ox)
  /\ ox' = Garbled
  /\ owed' = owed \cap EnvOf(oxbak)
  /\ UNCHANGED <<oxbak, caddy, yaml, accounts, wbin, prog, kills, told, torn>>

\* An older Caddyfile, or one written by hand, has no weaknet block.
EditCaddyfile ==
  /\ Operator /\ caddy # NoFile
  /\ caddy' \in {NoFile, "plain"}
  /\ UNCHANGED <<ox, oxbak, yaml, accounts, wbin, prog, kills, hist3>>

Deploy(w) ==
  /\ Operator
  /\ wbin' = w
  /\ UNCHANGED <<ox, oxbak, caddy, yaml, accounts, prog, kills, hist3>>

FilesNext ==
  \/ \E b \in Brands, e \in Brands : cmd_init(b, e) \/ start_oxfile(b, e)
  \/ migrate_oxfile \/ migrate_caddyfile \/ write_templates \/ bootstrap_admin
  \/ write_caddyfile \/ Render \/ OpenOx \/ WriteOx \/ OpenBak \/ WriteBak
  \/ Done \/ Killed
  \/ (\E a \in AppNames, k \in EnvKeys : AddEnv(a, k))
  \/ DeleteOxfile \/ GarbleOxfile \/ EditCaddyfile
  \/ (\E w \in Brands \cup {NoFile} : Deploy(w))

FilesSpec == FilesInit /\ [][FilesNext]_fileVars

(***************************************************************************)
(* Properties                                                              *)
(***************************************************************************)
FilesTypeOK ==
  /\ \A f \in {ox, oxbak} :
       \/ f \in {NoFile, Blank, Garbled}
       \/ f \in Oxfiles /\ f.env \subseteq f.apps \X EnvKeys
  /\ caddy \in {NoFile, "plain", "block"}
  /\ accounts \in {NoFile, "template", "admin"}
  /\ told \subseteq AppNames \X EnvKeys /\ owed \subseteq AppNames \X EnvKeys

(* A manual env line is never lost in silence: through any number of       *)
(* renders, rotations, brand changes and kills it is in the oxfile, in its *)
(* .bak or in the text about to be written, or a note has reported it.     *)
(* A garbled file rotated over the .bak is reported by the render to come. *)
(* The exceptions are a kill in the middle of a file (the next init        *)
(* rotates the truncated oxfile over the .bak that still has the lines)    *)
(* and a kill between the new text and the note on what it dropped.        *)
NoSilentLoss ==
  \/ torn
  \/ OldText = Garbled
  \/ owed \ told \subseteq EnvOf(ox) \cup EnvOf(oxbak)
                                 \cup (IF Running THEN EnvOf(prog.text) \cup prog.lost ELSE {})

(* An init that ran to its end has nothing left to migrate: the renderer   *)
(* and the guards agree (no rotate, render, rotate churn), and the weaknet *)
(* unit and its reverse proxy are there together, whatever was found       *)
(* before and wherever earlier runs were killed.  The guard compares with  *)
(* the brand and the renderer writes the name of the binary, so a binary   *)
(* that runs under another brand is exempt.                                *)
InitConverges ==
  (AtPc("done") /\ prog.op = "init" /\ prog.exe = prog.brand) =>
     /\ ~oxfile_migration_needed(ox, prog.brand)
     /\ ~caddyfile_migration_needed(caddy, prog.brand)
=============================================================================
