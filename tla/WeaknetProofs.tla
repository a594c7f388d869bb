--------------------------- MODULE WeaknetProofs ---------------------------
(***************************************************************************)
(* Safety of the weaknet processes for every number of processes, commands *)
(* and kills: the types, the write lock while no live lock file is reaped, *)
(* and the list of ways an impairment can lose its record; and of the      *)
(* scenario runner of WeaknetScenario, for every set of documents.         *)
(*                                                                         *)
(* Argument for the records.  A remover tears the site down before it      *)
(* removes state.json.  So if a qdisc is there when it removes, somebody   *)
(* installed it in between, and either is still about to write its record  *)
(* (Writing), or has written one the remover did not read (a blind         *)
(* removal, which is a listed cause), or failed (also listed).  What makes *)
(* "did not read" sound is that a process writes at most one record, so a  *)
(* record just written cannot be the one read earlier (WritesOnce).        *)
(***************************************************************************)
EXTENDS Weaknet, WeaknetScenario, TLAPS, WellFoundedInduction

\* A process has installed its qdisc and has not recorded it yet.
Writing == \E w \in Commands : pc[w] = "write"

\* The steps of a process after it wrote its record, or gave up.
Past == {"rekill", "reunpid", "spawn", "pidwrite", "release", "done", "dead"}

\* Only the start-up cross-check compares record and qdisc.
CrossIsCheck == \A a \in Actors : pc[a] \in {"crossread", "show"} => cmd[a] = "check"

\* An installed qdisc without a record is about to be recorded.
RecordDue == (lapse = {} /\ kernel # NoOne /\ state = NoState) => Writing

\* A remover that has torn the site down, and still finds the record it read,
\* finds a qdisc only if one is about to be recorded.
SweptClean ==
    lapse = {} => \A a \in Actors :
        (pc[a] = "rm" /\ cmd[a] # "check" /\ kernel # NoOne /\ state.by = seen[a].by) => Writing

\* Nobody has seen a record of a process that has not written it yet.
WritesOnce ==
    \A w \in Procs : pc[w] \notin Past =>
        state.by # w /\ \A a \in Actors : seen[a].by # w

IInv == TypeOK /\ CrossIsCheck /\ LockIsHolders /\ RecordDue /\ SweptClean /\ WritesOnce

----------------------------------------------------------------------------
\* The disjuncts of Next, each with the processes that take it.
LEMMA NextCases ==
    ASSUME [Next]_vars
    PROVE  \/ \E p \in Procs, c \in Cmds : Start(p, c)
           \/ Wake
           \/ \E p \in Procs : \/ ClearReads(p) \/ CrossReads(p) \/ CrossShows(p)
                               \/ ReadPrior(p) \/ Guard(p) \/ Install(p) \/ ReplayFails(p)
                               \/ WriteState(p) \/ WriteFails(p) \/ Spawn(p) \/ WritePidfile(p)
           \/ \E a \in Commands : \/ Create(a) \/ Ink(a) \/ Check(a) \/ Reap(a) \/ Release(a)
                                  \/ AutoHeal(a) \/ KillWatchdog(a) \/ ClearPidfile(a)
           \/ \E a \in Actors : Teardown(a) \/ RemoveState(a)
           \/ \E d \in Dogs : DogBoots(d) \/ DogWakes(d) \/ DogReads(d)
           \/ \E a \in Actors : Crash(a)
           \/ Tick
           \/ UNCHANGED vars
BY DEF Next, ProcStep, ServeStep, DogStep, LockStep, SweepStep, ReplayStep, Commands, Actors

\* Sets of processes.
LEMMA Domains ==
    /\ Procs \subseteq Commands /\ Serve \in Commands
    /\ Actors = Commands \cup Dogs
    /\ NoOne \notin Actors
    /\ \A d \in Dogs : d \notin Commands
    /\ \A p \in Procs : p # Serve /\ Dog(p) \in Dogs
BY ConstantsOK DEF Commands, Actors, Dogs

----------------------------------------------------------------------------
\* Types
LEMMA TypeStep == TypeOK /\ [Next]_vars => TypeOK'
<1>hyp. SUFFICES ASSUME TypeOK, [Next]_vars PROVE TypeOK'
    OBVIOUS
<1> USE Domains, ConstantsOK DEF TypeOK, Goto, Steps, DogSteps, ExitStep, history, files, local
<1>1. ASSUME NEW p \in Procs, NEW c \in Cmds, Start(p, c) PROVE TypeOK'
    BY <1>hyp, <1>1 DEF Start, EntryStep
<1>2. CASE Wake
    BY <1>hyp, <1>2 DEF Wake, EntryStep
<1>3. ASSUME NEW p \in Procs, ClearReads(p) PROVE TypeOK'
    BY <1>3, <1>hyp DEF ClearReads, AfterKill, HealedStep
<1>4. ASSUME NEW p \in Procs, CrossReads(p) PROVE TypeOK'
    BY <1>4, <1>hyp DEF CrossReads, AfterKill, HealedStep
<1>5. ASSUME NEW p \in Procs, CrossShows(p) PROVE TypeOK'
    BY <1>5, <1>hyp DEF CrossShows, AfterKill, HealedStep
<1>6. ASSUME NEW p \in Procs, ReadPrior(p) PROVE TypeOK'
    BY <1>6, <1>hyp DEF ReadPrior, AfterKill, HealedStep
<1>7. ASSUME NEW p \in Procs, Guard(p) PROVE TypeOK'
    BY <1>7, <1>hyp DEF Guard, AfterKill, HealedStep
<1>8. ASSUME NEW p \in Procs, Install(p) PROVE TypeOK'
    BY <1>8, <1>hyp DEF Install, AfterKill, HealedStep
<1>9. ASSUME NEW p \in Procs, ReplayFails(p) PROVE TypeOK'
    BY <1>hyp, <1>9 DEF ReplayFails, RollBack, LeaveInstalled, Lapses
<1>10. ASSUME NEW p \in Procs, WriteState(p) PROVE TypeOK'
    BY <1>hyp, <1>10 DEF WriteState, ExpiryOf, States, NoState
<1>11. ASSUME NEW p \in Procs, WriteFails(p) PROVE TypeOK'
    BY <1>hyp, <1>11 DEF WriteFails, Lapses
<1>12. ASSUME NEW p \in Procs, Spawn(p) PROVE TypeOK'
    BY <1>hyp, <1>12 DEF Spawn
<1>13. ASSUME NEW p \in Procs, WritePidfile(p) PROVE TypeOK'
    BY <1>13, <1>hyp DEF WritePidfile, AfterKill, HealedStep
<1>14. ASSUME NEW a \in Commands, Create(a) PROVE TypeOK'
    BY <1>14, <1>hyp DEF Create, AfterKill, HealedStep
<1>15. ASSUME NEW a \in Commands, Ink(a) PROVE TypeOK'
    BY <1>15, <1>hyp DEF Ink, AfterKill, HealedStep
<1>16. ASSUME NEW a \in Commands, Check(a) PROVE TypeOK'
    BY <1>16, <1>hyp DEF Check, AfterKill, HealedStep
<1>17. ASSUME NEW a \in Commands, Reap(a) PROVE TypeOK'
    BY <1>17, <1>hyp DEF Reap, AfterKill, HealedStep
<1>18. ASSUME NEW a \in Commands, Release(a) PROVE TypeOK'
    BY <1>18, <1>hyp DEF Release, AfterKill, HealedStep
<1>19. ASSUME NEW a \in Commands, AutoHeal(a) PROVE TypeOK'
    BY <1>19, <1>hyp DEF AutoHeal, AfterKill, HealedStep
<1>20. ASSUME NEW a \in Commands, KillWatchdog(a) PROVE TypeOK'
    BY <1>20, <1>hyp DEF KillWatchdog, AfterKill, HealedStep
<1>21. ASSUME NEW a \in Commands, ClearPidfile(a) PROVE TypeOK'
    BY <1>21, <1>hyp DEF ClearPidfile, AfterKill, HealedStep
<1>22. ASSUME NEW a \in Actors, Teardown(a) PROVE TypeOK'
    BY <1>hyp, <1>22 DEF Teardown, Lapses
<1>23. ASSUME NEW a \in Actors, RemoveState(a) PROVE TypeOK'
    BY <1>hyp, <1>23 DEF RemoveState, HealedStep, States, Lapses
<1>24. ASSUME NEW d \in Dogs, DogBoots(d) PROVE TypeOK'
    BY <1>24, <1>hyp DEF DogBoots, AfterKill, HealedStep
<1>25. ASSUME NEW d \in Dogs, DogWakes(d) PROVE TypeOK'
    BY <1>25, <1>hyp DEF DogWakes, AfterKill, HealedStep
<1>26. ASSUME NEW d \in Dogs, DogReads(d) PROVE TypeOK'
    BY <1>26, <1>hyp DEF DogReads, AfterKill, HealedStep
<1>27. ASSUME NEW a \in Actors, Crash(a) PROVE TypeOK'
    <2>1. kernel' \in Commands \cup {NoOne} /\ lapse' \subseteq Lapses
        BY <1>hyp, <1>27 DEF Crash, Lapses
    <2>2. crashes' \in 0 .. MaxCrash
        BY <1>hyp, <1>27 DEF Crash
    <2>3. pc' \in [Actors -> Steps] /\ \A d \in Dogs : pc'[d] \in DogSteps
        BY <1>hyp, <1>27 DEF Crash
    <2>4. QED
        BY <1>hyp, <1>27, <2>1, <2>2, <2>3 DEF Crash
<1>28. CASE Tick
    BY <1>hyp, <1>28 DEF Tick, Aged, States, NoState
<1>29. CASE UNCHANGED vars
    BY <1>hyp, <1>29 DEF vars
<1>30. QED
    BY <1>hyp, <1>1, <1>2, <1>3, <1>4, <1>5, <1>6, <1>7, <1>8, <1>9, <1>10, <1>11, <1>12, <1>13, <1>14, <1>15, <1>16, <1>17, <1>18, <1>19, <1>20, <1>21, <1>22, <1>23, <1>24, <1>25, <1>26, <1>27, <1>28, <1>29, NextCases

----------------------------------------------------------------------------
\* The cross-check
LEMMA CrossStep == TypeOK /\ CrossIsCheck /\ [Next]_vars => CrossIsCheck'
<1>hyp. SUFFICES ASSUME TypeOK, CrossIsCheck, [Next]_vars PROVE CrossIsCheck'
    OBVIOUS
<1> USE Domains, ConstantsOK DEF TypeOK, CrossIsCheck, Goto, ExitStep, history, files, local
<1>1. ASSUME NEW p \in Procs, NEW c \in Cmds, Start(p, c) PROVE CrossIsCheck'
    BY <1>hyp, <1>1 DEF Start, EntryStep
<1>2. CASE Wake
    BY <1>hyp, <1>2 DEF Wake, EntryStep
<1>3. ASSUME NEW p \in Procs, ClearReads(p) PROVE CrossIsCheck'
    BY <1>hyp, <1>3 DEF ClearReads
<1>4. ASSUME NEW p \in Procs, CrossReads(p) PROVE CrossIsCheck'
    BY <1>hyp, <1>4 DEF CrossReads
<1>5. ASSUME NEW p \in Procs, CrossShows(p) PROVE CrossIsCheck'
    BY <1>hyp, <1>5 DEF CrossShows
<1>6. ASSUME NEW p \in Procs, ReadPrior(p) PROVE CrossIsCheck'
    BY <1>hyp, <1>6 DEF ReadPrior
<1>7. ASSUME NEW p \in Procs, Guard(p) PROVE CrossIsCheck'
    BY <1>hyp, <1>7 DEF Guard
<1>8. ASSUME NEW p \in Procs, Install(p) PROVE CrossIsCheck'
    BY <1>hyp, <1>8 DEF Install
<1>9. ASSUME NEW p \in Procs, ReplayFails(p) PROVE CrossIsCheck'
    BY <1>hyp, <1>9 DEF ReplayFails
<1>10. ASSUME NEW p \in Procs, WriteState(p) PROVE CrossIsCheck'
    BY <1>hyp, <1>10 DEF WriteState
<1>11. ASSUME NEW p \in Procs, WriteFails(p) PROVE CrossIsCheck'
    BY <1>hyp, <1>11 DEF WriteFails
<1>12. ASSUME NEW p \in Procs, Spawn(p) PROVE CrossIsCheck'
    BY <1>hyp, <1>12 DEF Spawn
<1>13. ASSUME NEW p \in Procs, WritePidfile(p) PROVE CrossIsCheck'
    BY <1>hyp, <1>13 DEF WritePidfile
<1>14. ASSUME NEW a \in Commands, Create(a) PROVE CrossIsCheck'
    BY <1>hyp, <1>14 DEF Create
<1>15. ASSUME NEW a \in Commands, Ink(a) PROVE CrossIsCheck'
    BY <1>hyp, <1>15 DEF Ink
<1>16. ASSUME NEW a \in Commands, Check(a) PROVE CrossIsCheck'
    BY <1>hyp, <1>16 DEF Check
<1>17. ASSUME NEW a \in Commands, Reap(a) PROVE CrossIsCheck'
    BY <1>hyp, <1>17 DEF Reap
<1>18. ASSUME NEW a \in Commands, Release(a) PROVE CrossIsCheck'
    BY <1>hyp, <1>18 DEF Release
<1>19. ASSUME NEW a \in Commands, AutoHeal(a) PROVE CrossIsCheck'
    BY <1>hyp, <1>19 DEF AutoHeal, AfterKill, HealedStep
<1>20. ASSUME NEW a \in Commands, KillWatchdog(a) PROVE CrossIsCheck'
    BY <1>hyp, <1>20 DEF KillWatchdog, AfterKill, HealedStep
<1>21. ASSUME NEW a \in Commands, ClearPidfile(a) PROVE CrossIsCheck'
    BY <1>hyp, <1>21 DEF ClearPidfile, AfterKill, HealedStep
<1>22. ASSUME NEW a \in Actors, Teardown(a) PROVE CrossIsCheck'
    BY <1>hyp, <1>22 DEF Teardown
<1>23. ASSUME NEW a \in Actors, RemoveState(a) PROVE CrossIsCheck'
    BY <1>hyp, <1>23 DEF RemoveState, AfterKill, HealedStep
<1>24. ASSUME NEW d \in Dogs, DogBoots(d) PROVE CrossIsCheck'
    BY <1>hyp, <1>24 DEF DogBoots
<1>25. ASSUME NEW d \in Dogs, DogWakes(d) PROVE CrossIsCheck'
    BY <1>hyp, <1>25 DEF DogWakes
<1>26. ASSUME NEW d \in Dogs, DogReads(d) PROVE CrossIsCheck'
    BY <1>hyp, <1>26 DEF DogReads
<1>27. ASSUME NEW a \in Actors, Crash(a) PROVE CrossIsCheck'
    BY <1>hyp, <1>27 DEF Crash
<1>28. CASE Tick
    BY <1>hyp, <1>28 DEF Tick
<1>29. CASE UNCHANGED vars
    BY <1>hyp, <1>29 DEF vars
<1>30. QED
    BY <1>hyp, <1>1, <1>2, <1>3, <1>4, <1>5, <1>6, <1>7, <1>8, <1>9, <1>10, <1>11, <1>12, <1>13, <1>14, <1>15, <1>16, <1>17, <1>18, <1>19, <1>20, <1>21, <1>22, <1>23, <1>24, <1>25, <1>26, <1>27, <1>28, <1>29, NextCases

----------------------------------------------------------------------------
\* The write lock
LEMMA LockKept == TypeOK /\ CrossIsCheck /\ LockIsHolders /\ [Next]_vars => LockIsHolders'
<1>hyp. SUFFICES ASSUME TypeOK, CrossIsCheck, LockIsHolders, [Next]_vars PROVE LockIsHolders'
    OBVIOUS
<1> USE Domains, ConstantsOK DEF TypeOK, LockIsHolders, Holders, Goto, ExitStep, history, files, local
<1>1. ASSUME NEW p \in Procs, NEW c \in Cmds, Start(p, c) PROVE LockIsHolders'
    BY <1>hyp, <1>1 DEF Start, EntryStep
<1>2. CASE Wake
    BY <1>hyp, <1>2 DEF Wake, EntryStep
<1>3. ASSUME NEW p \in Procs, ClearReads(p) PROVE LockIsHolders'
    BY <1>hyp, <1>3 DEF ClearReads
<1>4. ASSUME NEW p \in Procs, CrossReads(p) PROVE LockIsHolders'
    BY <1>hyp, <1>4 DEF CrossReads, CrossIsCheck
<1>5. ASSUME NEW p \in Procs, CrossShows(p) PROVE LockIsHolders'
    BY <1>hyp, <1>5 DEF CrossShows, CrossIsCheck
<1>6. ASSUME NEW p \in Procs, ReadPrior(p) PROVE LockIsHolders'
    BY <1>hyp, <1>6 DEF ReadPrior
<1>7. ASSUME NEW p \in Procs, Guard(p) PROVE LockIsHolders'
    BY <1>hyp, <1>7 DEF Guard
<1>8. ASSUME NEW p \in Procs, Install(p) PROVE LockIsHolders'
    BY <1>hyp, <1>8 DEF Install
<1>9. ASSUME NEW p \in Procs, ReplayFails(p) PROVE LockIsHolders'
    BY <1>hyp, <1>9 DEF ReplayFails
<1>10. ASSUME NEW p \in Procs, WriteState(p) PROVE LockIsHolders'
    BY <1>hyp, <1>10 DEF WriteState
<1>11. ASSUME NEW p \in Procs, WriteFails(p) PROVE LockIsHolders'
    BY <1>hyp, <1>11 DEF WriteFails
<1>12. ASSUME NEW p \in Procs, Spawn(p) PROVE LockIsHolders'
    BY <1>hyp, <1>12 DEF Spawn
<1>13. ASSUME NEW p \in Procs, WritePidfile(p) PROVE LockIsHolders'
    BY <1>hyp, <1>13 DEF WritePidfile
<1>14. ASSUME NEW a \in Commands, Create(a) PROVE LockIsHolders'
    BY <1>hyp, <1>14 DEF Create
<1>15. ASSUME NEW a \in Commands, Ink(a) PROVE LockIsHolders'
    BY <1>hyp, <1>15 DEF Ink
<1>16. ASSUME NEW a \in Commands, Check(a) PROVE LockIsHolders'
    BY <1>hyp, <1>16 DEF Check
<1>17. ASSUME NEW a \in Commands, Reap(a) PROVE LockIsHolders'
    <2>1. SUFFICES ASSUME ~stolen' PROVE Holders = {} /\ Holders' \subseteq Holders
        BY <2>1
    <2>2. lock = NoOne \/ ~Alive(lock)
        BY <1>17, <2>1 DEF Reap
    <2>3. Holders = {}
        <3>1. \A b \in Holders : lock = b /\ Alive(b) /\ b # NoOne
            BY <1>hyp, <1>17, <2>1 DEF Reap, Alive
        <3>2. QED
            BY <2>2, <3>1
    <2>4. Holders' \subseteq Holders
        BY <1>hyp, <1>17 DEF Reap
    <2>5. QED
        BY <2>3, <2>4
<1>18. ASSUME NEW a \in Commands, Release(a) PROVE LockIsHolders'
    BY <1>hyp, <1>18 DEF Release
<1>19. ASSUME NEW a \in Commands, AutoHeal(a) PROVE LockIsHolders'
    BY <1>hyp, <1>19 DEF AutoHeal, AfterKill, HealedStep
<1>20. ASSUME NEW a \in Commands, KillWatchdog(a) PROVE LockIsHolders'
    BY <1>hyp, <1>20 DEF KillWatchdog, AfterKill, HealedStep, Alive
<1>21. ASSUME NEW a \in Commands, ClearPidfile(a) PROVE LockIsHolders'
    BY <1>hyp, <1>21 DEF ClearPidfile, AfterKill, HealedStep
<1>22. ASSUME NEW a \in Actors, Teardown(a) PROVE LockIsHolders'
    BY <1>hyp, <1>22 DEF Teardown
<1>23. ASSUME NEW a \in Actors, RemoveState(a) PROVE LockIsHolders'
    BY <1>hyp, <1>23 DEF RemoveState, AfterKill, HealedStep
<1>24. ASSUME NEW d \in Dogs, DogBoots(d) PROVE LockIsHolders'
    BY <1>hyp, <1>24 DEF DogBoots
<1>25. ASSUME NEW d \in Dogs, DogWakes(d) PROVE LockIsHolders'
    BY <1>hyp, <1>25 DEF DogWakes
<1>26. ASSUME NEW d \in Dogs, DogReads(d) PROVE LockIsHolders'
    BY <1>hyp, <1>26 DEF DogReads
<1>27. ASSUME NEW a \in Actors, Crash(a) PROVE LockIsHolders'
    BY <1>hyp, <1>27 DEF Crash
<1>28. CASE Tick
    BY <1>hyp, <1>28 DEF Tick
<1>29. CASE UNCHANGED vars
    BY <1>hyp, <1>29 DEF vars
<1>30. QED
    BY <1>hyp, <1>1, <1>2, <1>3, <1>4, <1>5, <1>6, <1>7, <1>8, <1>9, <1>10, <1>11, <1>12, <1>13, <1>14, <1>15, <1>16, <1>17, <1>18, <1>19, <1>20, <1>21, <1>22, <1>23, <1>24, <1>25, <1>26, <1>27, <1>28, <1>29, NextCases

----------------------------------------------------------------------------
\* The records
LEMMA OnceKept == TypeOK /\ WritesOnce /\ [Next]_vars => WritesOnce'
<1>hyp. SUFFICES ASSUME TypeOK, WritesOnce, [Next]_vars PROVE WritesOnce'
    OBVIOUS
<1> USE Domains, ConstantsOK DEF TypeOK, WritesOnce, Past, Goto, ExitStep, history, files, local
<1>1. ASSUME NEW p \in Procs, NEW c \in Cmds, Start(p, c) PROVE WritesOnce'
    BY <1>hyp, <1>1 DEF Start, EntryStep
<1>2. CASE Wake
    BY <1>hyp, <1>2 DEF Wake, EntryStep
<1>3. ASSUME NEW p \in Procs, ClearReads(p) PROVE WritesOnce'
    BY <1>hyp, <1>3 DEF ClearReads
<1>4. ASSUME NEW p \in Procs, CrossReads(p) PROVE WritesOnce'
    BY <1>hyp, <1>4 DEF CrossReads
<1>5. ASSUME NEW p \in Procs, CrossShows(p) PROVE WritesOnce'
    BY <1>hyp, <1>5 DEF CrossShows
<1>6. ASSUME NEW p \in Procs, ReadPrior(p) PROVE WritesOnce'
    BY <1>hyp, <1>6 DEF ReadPrior
<1>7. ASSUME NEW p \in Procs, Guard(p) PROVE WritesOnce'
    BY <1>hyp, <1>7 DEF Guard
<1>8. ASSUME NEW p \in Procs, Install(p) PROVE WritesOnce'
    BY <1>hyp, <1>8 DEF Install
<1>9. ASSUME NEW p \in Procs, ReplayFails(p) PROVE WritesOnce'
    BY <1>hyp, <1>9 DEF ReplayFails
<1>10. ASSUME NEW p \in Procs, WriteState(p) PROVE WritesOnce'
    BY <1>hyp, <1>10 DEF WriteState
<1>11. ASSUME NEW p \in Procs, WriteFails(p) PROVE WritesOnce'
    BY <1>hyp, <1>11 DEF WriteFails
<1>12. ASSUME NEW p \in Procs, Spawn(p) PROVE WritesOnce'
    BY <1>hyp, <1>12 DEF Spawn
<1>13. ASSUME NEW p \in Procs, WritePidfile(p) PROVE WritesOnce'
    BY <1>hyp, <1>13 DEF WritePidfile
<1>14. ASSUME NEW a \in Commands, Create(a) PROVE WritesOnce'
    BY <1>hyp, <1>14 DEF Create
<1>15. ASSUME NEW a \in Commands, Ink(a) PROVE WritesOnce'
    BY <1>hyp, <1>15 DEF Ink
<1>16. ASSUME NEW a \in Commands, Check(a) PROVE WritesOnce'
    BY <1>hyp, <1>16 DEF Check
<1>17. ASSUME NEW a \in Commands, Reap(a) PROVE WritesOnce'
    BY <1>hyp, <1>17 DEF Reap
<1>18. ASSUME NEW a \in Commands, Release(a) PROVE WritesOnce'
    BY <1>hyp, <1>18 DEF Release
<1>19. ASSUME NEW a \in Commands, AutoHeal(a) PROVE WritesOnce'
    BY <1>hyp, <1>19 DEF AutoHeal, AfterKill, HealedStep
<1>20. ASSUME NEW a \in Commands, KillWatchdog(a) PROVE WritesOnce'
    <2>1. \A w \in Procs : pc'[w] \notin Past => pc[w] \notin Past
        <3>1. CASE pc[a] = "kill"
            BY <1>hyp, <1>20, <3>1 DEF KillWatchdog, AfterKill
        <3>2. CASE pc[a] = "rekill"
            BY <1>hyp, <1>20, <3>2 DEF KillWatchdog, AfterKill
        <3>3. QED
            BY <1>20, <3>1, <3>2 DEF KillWatchdog
    <2>2. QED
        BY <1>hyp, <1>20, <2>1 DEF KillWatchdog
<1>21. ASSUME NEW a \in Commands, ClearPidfile(a) PROVE WritesOnce'
    <2>1. \A w \in Procs : pc'[w] \notin Past => pc[w] \notin Past
        <3>1. CASE pc[a] = "unpid"
            BY <1>hyp, <1>21, <3>1 DEF ClearPidfile, AfterKill
        <3>2. CASE pc[a] = "reunpid"
            BY <1>hyp, <1>21, <3>2 DEF ClearPidfile, AfterKill
        <3>3. QED
            BY <1>21, <3>1, <3>2 DEF ClearPidfile
    <2>2. QED
        BY <1>hyp, <1>21, <2>1 DEF ClearPidfile
<1>22. ASSUME NEW a \in Actors, Teardown(a) PROVE WritesOnce'
    BY <1>hyp, <1>22 DEF Teardown
<1>23. ASSUME NEW a \in Actors, RemoveState(a) PROVE WritesOnce'
    BY <1>hyp, <1>23 DEF RemoveState, AfterKill, HealedStep, NoState
<1>24. ASSUME NEW d \in Dogs, DogBoots(d) PROVE WritesOnce'
    BY <1>hyp, <1>24 DEF DogBoots
<1>25. ASSUME NEW d \in Dogs, DogWakes(d) PROVE WritesOnce'
    BY <1>hyp, <1>25 DEF DogWakes
<1>26. ASSUME NEW d \in Dogs, DogReads(d) PROVE WritesOnce'
    BY <1>hyp, <1>26 DEF DogReads
<1>27. ASSUME NEW a \in Actors, Crash(a) PROVE WritesOnce'
    BY <1>hyp, <1>27 DEF Crash
<1>28. CASE Tick
    BY <1>hyp, <1>28 DEF Tick, Aged, States, NoState
<1>29. CASE UNCHANGED vars
    BY <1>hyp, <1>29 DEF vars
<1>30. QED
    BY <1>hyp, <1>1, <1>2, <1>3, <1>4, <1>5, <1>6, <1>7, <1>8, <1>9, <1>10, <1>11, <1>12, <1>13, <1>14, <1>15, <1>16, <1>17, <1>18, <1>19, <1>20, <1>21, <1>22, <1>23, <1>24, <1>25, <1>26, <1>27, <1>28, <1>29, NextCases

\* An installed qdisc keeps its record, or the writer that is about to make one,
\* until somebody has torn it down.
LEMMA RecordKept ==
    TypeOK /\ CrossIsCheck /\ WritesOnce /\ RecordDue /\ SweptClean /\ [Next]_vars
        => RecordDue' /\ SweptClean'
<1>hyp. SUFFICES ASSUME TypeOK, CrossIsCheck, WritesOnce, RecordDue, SweptClean, [Next]_vars
                 PROVE  RecordDue' /\ SweptClean'
    OBVIOUS
<1> USE Domains, ConstantsOK DEF TypeOK, RecordDue, SweptClean, Writing, Goto, ExitStep, history, files, local
<1>1. ASSUME NEW p \in Procs, NEW c \in Cmds, Start(p, c) PROVE (RecordDue /\ SweptClean)'
    BY <1>hyp, <1>1 DEF Start, EntryStep
<1>2. CASE Wake
    BY <1>hyp, <1>2 DEF Wake, EntryStep
<1>3. ASSUME NEW p \in Procs, ClearReads(p) PROVE (RecordDue /\ SweptClean)'
    BY <1>hyp, <1>3 DEF ClearReads
<1>4. ASSUME NEW p \in Procs, CrossReads(p) PROVE (RecordDue /\ SweptClean)'
    BY <1>hyp, <1>4 DEF CrossReads
<1>5. ASSUME NEW p \in Procs, CrossShows(p) PROVE (RecordDue /\ SweptClean)'
    BY <1>hyp, <1>5 DEF CrossShows, CrossIsCheck
<1>6. ASSUME NEW p \in Procs, ReadPrior(p) PROVE (RecordDue /\ SweptClean)'
    BY <1>hyp, <1>6 DEF ReadPrior
<1>7. ASSUME NEW p \in Procs, Guard(p) PROVE (RecordDue /\ SweptClean)'
    BY <1>hyp, <1>7 DEF Guard
<1>8. ASSUME NEW p \in Procs, Install(p) PROVE (RecordDue /\ SweptClean)'
    BY <1>hyp, <1>8 DEF Install
<1>9. ASSUME NEW p \in Procs, ReplayFails(p) PROVE (RecordDue /\ SweptClean)'
    BY <1>hyp, <1>9 DEF ReplayFails, RollBack, LeaveInstalled
<1>10. ASSUME NEW p \in Procs, WriteState(p) PROVE (RecordDue /\ SweptClean)'
    BY <1>hyp, <1>10 DEF WriteState, WritesOnce, Past, NoState, States
<1>11. ASSUME NEW p \in Procs, WriteFails(p) PROVE (RecordDue /\ SweptClean)'
    BY <1>hyp, <1>11 DEF WriteFails
<1>12. ASSUME NEW p \in Procs, Spawn(p) PROVE (RecordDue /\ SweptClean)'
    BY <1>hyp, <1>12 DEF Spawn
<1>13. ASSUME NEW p \in Procs, WritePidfile(p) PROVE (RecordDue /\ SweptClean)'
    BY <1>hyp, <1>13 DEF WritePidfile
<1>14. ASSUME NEW a \in Commands, Create(a) PROVE (RecordDue /\ SweptClean)'
    BY <1>hyp, <1>14 DEF Create
<1>15. ASSUME NEW a \in Commands, Ink(a) PROVE (RecordDue /\ SweptClean)'
    BY <1>hyp, <1>15 DEF Ink
<1>16. ASSUME NEW a \in Commands, Check(a) PROVE (RecordDue /\ SweptClean)'
    BY <1>hyp, <1>16 DEF Check
<1>17. ASSUME NEW a \in Commands, Reap(a) PROVE (RecordDue /\ SweptClean)'
    BY <1>hyp, <1>17 DEF Reap
<1>18. ASSUME NEW a \in Commands, Release(a) PROVE (RecordDue /\ SweptClean)'
    BY <1>hyp, <1>18 DEF Release
<1>19. ASSUME NEW a \in Commands, AutoHeal(a) PROVE (RecordDue /\ SweptClean)'
    BY <1>hyp, <1>19 DEF AutoHeal, AfterKill, HealedStep
<1>20. ASSUME NEW a \in Commands, KillWatchdog(a) PROVE (RecordDue /\ SweptClean)'
    BY <1>hyp, <1>20 DEF KillWatchdog, AfterKill, HealedStep, Alive
<1>21. ASSUME NEW a \in Commands, ClearPidfile(a) PROVE (RecordDue /\ SweptClean)'
    BY <1>hyp, <1>21 DEF ClearPidfile, AfterKill, HealedStep
<1>22. ASSUME NEW a \in Actors, Teardown(a) PROVE (RecordDue /\ SweptClean)'
    BY <1>hyp, <1>22 DEF Teardown
<1>23. ASSUME NEW a \in Actors, RemoveState(a) PROVE (RecordDue /\ SweptClean)'
    BY <1>hyp, <1>23 DEF RemoveState, AfterKill, HealedStep, NoState, Blind, States
<1>24. ASSUME NEW d \in Dogs, DogBoots(d) PROVE (RecordDue /\ SweptClean)'
    BY <1>hyp, <1>24 DEF DogBoots
<1>25. ASSUME NEW d \in Dogs, DogWakes(d) PROVE (RecordDue /\ SweptClean)'
    BY <1>hyp, <1>25 DEF DogWakes
<1>26. ASSUME NEW d \in Dogs, DogReads(d) PROVE (RecordDue /\ SweptClean)'
    BY <1>hyp, <1>26 DEF DogReads
<1>27. ASSUME NEW a \in Actors, Crash(a) PROVE (RecordDue /\ SweptClean)'
    BY <1>hyp, <1>27 DEF Crash
<1>28. CASE Tick
    BY <1>hyp, <1>28 DEF Tick, Aged, States, NoState
<1>29. CASE UNCHANGED vars
    BY <1>hyp, <1>29 DEF vars
<1>30. QED
    BY <1>hyp, <1>1, <1>2, <1>3, <1>4, <1>5, <1>6, <1>7, <1>8, <1>9, <1>10, <1>11, <1>12, <1>13, <1>14, <1>15, <1>16, <1>17, <1>18, <1>19, <1>20, <1>21, <1>22, <1>23, <1>24, <1>25, <1>26, <1>27, <1>28, <1>29, NextCases

----------------------------------------------------------------------------
\* The inductive invariant holds before the first command.
LEMMA InitInv == Init => IInv
<1> SUFFICES ASSUME Init PROVE IInv
    OBVIOUS
<1> USE Domains, ConstantsOK DEF Init
<1>1. TypeOK
    <2>1. pc \in [Actors -> Steps] /\ \A d \in Dogs : pc[d] \in DogSteps
        BY DEF Steps, DogSteps
    <2>2. cmd \in [Actors -> Cmds \cup {"tick", "watchdog", "none"}]
        OBVIOUS
    <2>3. \A d \in Dogs : cmd[d] = "watchdog"
        OBVIOUS
    <2>4. seen \in [Actors -> States] /\ state \in States
        BY DEF States
    <2>5. lock \in Commands \cup {NoOne} /\ kernel \in Commands \cup {NoOne} /\ pidfile \in Dogs \cup {NoOne}
        OBVIOUS
    <2>6. crashes \in 0 .. MaxCrash
        OBVIOUS
    <2>7. inked \subseteq Commands /\ tried \subseteq Commands /\ lapse \subseteq Lapses /\ stolen \in BOOLEAN
        OBVIOUS
    <2>8. QED
        BY <2>1, <2>2, <2>3, <2>4, <2>5, <2>6, <2>7 DEF TypeOK
<1>2. CrossIsCheck /\ LockIsHolders /\ RecordDue /\ SweptClean
    BY DEF CrossIsCheck, LockIsHolders, Holders, RecordDue, SweptClean
<1>3. WritesOnce
    BY DEF WritesOnce, NoState
<1>4. QED
    BY <1>1, <1>2, <1>3 DEF IInv

\* The inductive invariant, for any number of processes and kills.
THEOREM Inductive == Spec => []IInv
<1>1. Init => IInv
    BY InitInv
<1>2. IInv /\ [Next]_vars => IInv'
    BY TypeStep, CrossStep, LockKept, OnceKept, RecordKept DEF IInv
<1>3. QED
    BY <1>1, <1>2, PTL DEF Spec

\* The files, the program counters and the copies of the record keep their
\* types, and a watchdog only waits and sweeps.
THEOREM TypeCorrect == Spec => []TypeOK
<1>1. IInv => TypeOK
    BY DEF IInv
<1>2. QED
    BY <1>1, Inductive, PTL

\* While no live process's lock file has been reaped, the file at the lock
\* path is the holder's own (acquire_write_lock, WriteLock::drop).
THEOREM LockIsHoldersHolds == Spec => []LockIsHolders
<1>1. IInv => LockIsHolders
    BY DEF IInv
<1>2. QED
    BY <1>1, Inductive, PTL

\* An impairment without a record, and without a writer about to record it,
\* has lost its record in one of the listed ways (replay, clear,
\* autoheal_if_expired, watchdog_expire, startup_cross_check).
THEOREM OrphanHasCauseHolds == Spec => []OrphanHasCause
<1>1. IInv => OrphanHasCause
    BY DEF IInv, RecordDue, Writing, OrphanHasCause
<1>2. QED
    BY <1>1, Inductive, PTL

----------------------------------------------------------------------------
(***************************************************************************)
(* The scenario runner                                                     *)
(*                                                                         *)
(* Argument for DoneMeansAlone.  A run that is not late is the only one of *)
(* its name between flag and end (TwinInv), so a flag with its name is its *)
(* own (OwnInv), and no writer that would keep that flag has passed its    *)
(* gate (KeptOut): whoever else changes the site takes the flag away, and  *)
(* a run without its flag never gets past its next set (TouchInv).         *)
(***************************************************************************)

\* A run that has written its flag and has not finished; one that holds the lock; one
\* that has not ended.
PastFlag == {"begin"} \cup Driving \cup Ending
Inside == {"apply", "flag", "set"}
Under == {"gate", "fresh", "lock", "apply", "flag"} \cup PastFlag
Fields == {"pc", "name", "pid", "keep", "plan", "line", "round", "phase", "cur", "prior",
           "end"}
Strings == Under \cup {"idle", "over", "refused", "killed"}

\* There is a flag and its owner is alive; it has run r's name.
HasFlag == site # None /\ site.job # None /\ site.job.pid \notin dead
Mine(r) == HasFlag /\ site.job.name = run[r].name

\* After the wait u is in, the plan has another set.
GoesOn(u) == \/ u.pc = "phase" /\ u.phase = "on"
             \/ u.pc = "phase" /\ u.round < u.plan.lines[u.line].rounds
             \/ u.line < Len(u.plan.lines)

JobFields == {"name", "pid", "done"}
WriterShape(v) == DOMAIN v = {"pc", "kind"} /\ (v.pc # "idle" => v.kind \in Kinds)
SiteShape == site # None => /\ DOMAIN site = {"spec", "job"}
                            /\ site.job # None => DOMAIN site.job = JobFields
ShapeInv ==
    /\ DOMAIN run = Runs /\ DOMAIN wr = Writers
    /\ \A r \in Runs : /\ DOMAIN run[r] = Fields /\ run[r].pc \in Strings
                       /\ run[r].pc = "set" => DOMAIN run[r].prior = JobFields
    /\ \A w \in Writers : WriterShape(wr[w])
    /\ SiteShape
    /\ touched \subseteq Runs /\ late \subseteq Runs
\* Processes that have not ended are alive.
ProcInv ==
    /\ dead \subseteq Runs \cup {ServeProcess}
    /\ \A r \in Runs : run[r].pc \in Under =>
         run[r].pid \in {r, ServeProcess} /\ run[r].pid \notin dead /\ r \notin dead
\* The write lock is exclusive.
MutexInv ==
    /\ \A r \in Runs : run[r].pc \in Inside => mutex = r
    /\ \A w \in Writers : wr[w].pc = "write" => mutex = w
\* Two runs of one name between flag and end are both late; what is late has its name.
TwinInv ==
    /\ \A r \in late : run[r].pc # "idle"
    /\ \A q, r \in Runs : (/\ q # r /\ run[q].pc \in PastFlag /\ run[r].pc \in PastFlag
                           /\ run[q].name = run[r].name) => q \in late
\* A flag with the name of a run that is not late, on the site or about to be put back,
\* is that run's own.
OwnInv ==
    /\ \A q \in Runs : run[q].pc = "set" => run[q].prior.name = run[q].name
    /\ \A r \in Runs \ late : run[r].pc \in PastFlag =>
         /\ Mine(r) => site.job.pid = run[r].pid
         /\ \A q \in Runs :
              (/\ run[q].pc = "set" /\ run[q].prior.name = run[r].name
               /\ run[q].prior.pid \notin dead) => run[q].prior.pid = run[r].pid
\* A run at its set that is not late still has its flag, or there is no site at all.
HeldInv == \A r \in Runs \ late : run[r].pc = "set" /\ site # None => Mine(r)
\* A writer that will leave the flag it finds.
Slips(w) == \/ wr[w].pc = "write" /\ wr[w].kind \in {"set", "rest-set"}
            \/ wr[w].pc = "gated" /\ wr[w].kind = "set"
KeptOut == \A r \in Runs \ late :
    run[r].pc \in {"begin"} \cup Driving /\ Mine(r) => \A w \in Writers : ~Slips(w)
EndInv == \A r \in Runs :
    /\ run[r].pc = "dwell" => ~(run[r].line < Len(run[r].plan.lines))
    /\ run[r].pc \notin Ending \cup {"over", "killed"} => run[r].end = None
\* A run whose site was changed, and that is not late, has lost its flag for good and
\* will look for it before its last set.
TouchInv == \A r \in touched \ late :
    /\ run[r].pc \in Driving \cup Ending \cup {"over", "killed"}
    /\ run[r].pc \in Driving =>
         ~Mine(r) /\ run[r].pc # "set" /\ (run[r].pc \in {"phase", "dwell"} => GoesOn(run[r]))
    /\ run[r].end # "done"
ScnInv == /\ ShapeInv /\ ProcInv /\ MutexInv /\ TwinInv /\ OwnInv /\ HeldInv /\ KeptOut
          /\ EndInv /\ TouchInv

\* The flag tests of the code are HasFlag and Mine.
LEMMA FlagIs == /\ LiveJob <=> HasFlag
                 /\ \A r \in Runs : Owns(r) <=> Mine(r)
BY DEF LiveJob, job_alive, Owns, HasFlag, Mine

\* A run that has not ended is at one of the places of Under.
LEMMA LiveIs == ASSUME ShapeInv, NEW r \in Runs PROVE Live(r) <=> run[r].pc \in Under
BY DEF ShapeInv, Strings, Under, PastFlag, Live, Driving, Waiting, Ending

\* What Advance does to a run after the wait it is in.
LEMMA Advances ==
  ASSUME ShapeInv, NEW r \in Runs, NEW u, u = Advance(r)
  PROVE  /\ DOMAIN u = Fields
         /\ u.name = run[r].name /\ u.pid = run[r].pid /\ u.prior = run[r].prior
         /\ u.plan = run[r].plan /\ u.keep = run[r].keep
         /\ GoesOn(run[r]) => u.pc \in {"step", "wait"} /\ u.end = run[r].end
         /\ ~GoesOn(run[r]) => \/ u.pc = "dwell" /\ u.line = run[r].line /\ u.end = run[r].end
                               \/ u.pc = "clear" /\ u.end = "done"
<1>1. DOMAIN run[r] = Fields
  BY DEF ShapeInv
<1> QED BY <1>1 DEF Advance, Line, GoesOn, Fields

\* Who a change of the site hits is driving, holds no lock, and has another set to come.
LEMMA HitIs ==
  ASSUME ShapeInv, EndInv, NEW a, NEW q \in Runs
  PROVE  q \in Hit(a) =>
           /\ q # a /\ run[q].pc \in Driving \ {"set"}
           /\ run[q].pc \in {"phase", "dwell"} => GoesOn(run[q])
<1>1. PICK u : u = Advance(q)
  OBVIOUS
<1>2. ~GoesOn(run[q]) => u.pc \in {"dwell", "clear"}
  BY <1>1, Advances
<1> QED BY <1>1, <1>2 DEF Hit, LastWait, Driving, Waiting
\* Run r becomes u: a step of its own that touches neither site nor flag, lock or death.
Calm(r, u) ==
    /\ run' = [run EXCEPT ![r] = u] /\ DOMAIN u = Fields /\ u.pc \in Strings
    /\ u.name = run[r].name /\ u.pid = run[r].pid /\ run[r].pc # "idle"
    /\ u.pc \in PastFlag <=> run[r].pc \in PastFlag
    /\ u.pc \in Under => run[r].pc \in Under
    /\ u.pc \in Inside => u.pc # "set" /\ run[r].pc \in Inside
    /\ u.pc # "idle"
    /\ u.pc \in Driving \cup {"begin"} => run[r].pc \in Driving \cup {"begin"}
    /\ u.pc = "dwell" => ~(u.line < Len(u.plan.lines))
    /\ u.pc \notin Ending \cup {"over", "killed"} => u.end = None
    /\ r \in touched \ late =>
         /\ u.pc \in {"phase", "dwell"} => GoesOn(u)
         /\ u.pc \in Driving \cup Ending \cup {"over", "killed"}
         /\ u.pc \in Driving => run[r].pc \in Driving
         /\ u.end # "done"

\* A step of run r changes no other run.
LEMMA RunBecomes ==
  ASSUME ShapeInv, NEW r \in Runs, NEW u, run' = [run EXCEPT ![r] = u]
  PROVE  run'[r] = u /\ DOMAIN run' = Runs /\ \A q \in Runs : q # r => run'[q] = run[q]
BY DEF ShapeInv

\* Calm steps keep the invariant.
LEMMA CalmKeeps ==
  ASSUME ProcessesApart, ScnInv, NEW r \in Runs, NEW u, Calm(r, u),
         UNCHANGED <<site, wr, dead, touched, late>>,
         mutex' = mutex \/ (mutex' = None /\ mutex = r /\ u.pc \notin Inside)
  PROVE  ScnInv'
<1> USE DEF ScnInv
<1>0. run'[r] = u /\ DOMAIN run' = Runs /\ \A q \in Runs : q # r => run'[q] = run[q]
  BY RunBecomes DEF Calm
<1>a. \A q \in Runs : Mine(q)' <=> Mine(q)
  BY <1>0 DEF Mine, HasFlag, Calm
<1>1. ShapeInv' BY <1>0 DEF Calm, ShapeInv, SiteShape, Inside
<1>2. ProcInv' BY <1>0 DEF Calm, ProcInv
<1>3. MutexInv' BY <1>0 DEF Calm, MutexInv, ProcessesApart
<1>4. TwinInv' BY <1>0 DEF Calm, TwinInv
<1>5. OwnInv' BY <1>0, <1>a DEF Calm, OwnInv, Inside
<1>6. HeldInv' BY <1>0, <1>a DEF Calm, HeldInv, Inside
<1>7. KeptOut' BY <1>0, <1>a DEF Calm, KeptOut, Slips
<1>8. EndInv' BY <1>0 DEF Calm, EndInv
<1>9. TouchInv' BY <1>0, <1>a DEF Calm, TouchInv, Inside, ShapeInv
<1> QED BY <1>1, <1>2, <1>3, <1>4, <1>5, <1>6, <1>7, <1>8, <1>9
Moved(r, u, p) ==
    /\ run' = [run EXCEPT ![r] = u] /\ DOMAIN u = Fields /\ u.pc = p
    /\ u.name = run[r].name /\ u.pid = run[r].pid /\ u.prior = run[r].prior
    /\ u.line = run[r].line /\ u.plan = run[r].plan

\* Goto changes only the place of a run.
LEMMA GotoIs ==
  ASSUME ShapeInv, NEW r \in Runs, NEW p, run' = [run EXCEPT ![r].pc = p]
  PROVE  \E u : Moved(r, u, p) /\ u.end = run[r].end
<1>1. PICK u : u = [run[r] EXCEPT !.pc = p]
  OBVIOUS
<1>2. DOMAIN run[r] = Fields
  BY DEF ShapeInv
<1>3. Moved(r, u, p) /\ u.end = run[r].end
  BY <1>1, <1>2 DEF Moved, Fields
<1> QED BY <1>3

\* An abort moves a run to its clear and notes the reason.
LEMMA EndIs ==
  ASSUME ShapeInv, NEW r \in Runs, NEW how, run' = End(r, how)
  PROVE  \E u : Moved(r, u, "clear") /\ u.end = how
<1>1. PICK u : u = [run[r] EXCEPT !.pc = "clear", !.end = how]
  OBVIOUS
<1>2. DOMAIN run[r] = Fields
  BY DEF ShapeInv
<1>3. Moved(r, u, "clear") /\ u.end = how
  BY <1>1, <1>2 DEF Moved, Fields, End
<1> QED BY <1>3

\* The steps of a run that only it notices.
Step(p, q) ==
    \/ p = "gate" /\ q \in {"refused", "fresh"}
    \/ p = "fresh" /\ q \in {"refused", "lock"}
    \/ p \in {"lock", "apply", "flag"} /\ q = "refused"
    \/ p = "uncancel" /\ q = "unjob"
    \/ p = "begin" /\ q \in {"baseline", "wait"}

\* The steps that only the run itself notices are calm.
LEMMA StepIsCalm ==
  ASSUME ScnInv, NEW r \in Runs, NEW u, NEW p, Moved(r, u, p), u.end = run[r].end,
         Step(run[r].pc, p)
  PROVE  Calm(r, u)
<1> USE DEF PastFlag, Inside, Under, Strings, Driving, Waiting, Ending
<1>1. /\ u.pc \in Strings /\ run[r].pc # "idle" /\ u.pc # "idle" /\ u.pc \notin Inside
      /\ u.pc \in PastFlag <=> run[r].pc \in PastFlag
      /\ u.pc \in Under => run[r].pc \in Under
      /\ u.pc \in Driving \cup {"begin"} => run[r].pc \in Driving \cup {"begin"}
      /\ u.pc \notin {"dwell", "phase"}
  BY DEF Step, Moved
<1>2. u.pc \notin Ending \cup {"over", "killed"} => u.end = None
  BY DEF Step, Moved, ScnInv, EndInv
<1>3. r \in touched \ late => /\ u.end # "done" /\ u.pc \notin Driving
                              /\ u.pc \in Ending
  BY DEF ScnInv, TouchInv, Step, Moved
<1> QED BY <1>1, <1>2, <1>3 DEF Moved, Calm

\* An abort is calm.
LEMMA EndIsCalm ==
  ASSUME ScnInv, NEW r \in Runs, NEW u, NEW how, Moved(r, u, "clear"), u.end = how,
         how # "done", run[r].pc \in Driving
  PROVE  Calm(r, u)
BY DEF Moved, Calm, PastFlag, Inside, Under, Strings, Driving, Waiting, Ending

\* job_gate, the dry run and the removal of the cancel file keep the invariant.
LEMMA QuietKeeps ==
  ASSUME ProcessesApart, ScnInv, NEW r \in Runs,
         Gate(r) \/ DropCancel(r) \/ EndUncancel(r)
  PROVE  ScnInv'
<1>1. PICK p : /\ run' = [run EXCEPT ![r].pc = p] /\ Step(run[r].pc, p)
               /\ UNCHANGED <<site, wr, dead, touched, late, mutex>>
  BY DEF Gate, DropCancel, EndUncancel, Reaches, Step, marks
<1>2. PICK u : Moved(r, u, p) /\ u.end = run[r].end
  BY <1>1, GotoIs DEF ScnInv
<1> QED BY <1>1, <1>2, StepIsCalm, CalmKeeps

\* So does a checkpoint that ends the run.
LEMMA CheckpointKeeps ==
  ASSUME ProcessesApart, ScnInv, NEW r \in Runs, Checkpoint(r) PROVE ScnInv'
<1>1. /\ run' = End(r, "user") /\ run[r].pc \in Driving
      /\ UNCHANGED <<site, wr, dead, touched, late, mutex>>
  BY DEF Checkpoint, Driving, marks
<1>2. PICK u : Moved(r, u, "clear") /\ u.end = "user"
  BY <1>1, EndIs DEF ScnInv
<1> QED BY <1>1, <1>2, EndIsCalm, CalmKeeps

\* So does the end of a wait: who was touched has another set ahead of it.
LEMMA ElapseKeeps ==
  ASSUME ProcessesApart, ScnInv, NEW r \in Runs, Elapse(r) PROVE ScnInv'
<1> USE DEF PastFlag, Inside, Under, Strings, Driving, Waiting, Ending
<1>1. /\ run[r].pc \in Waiting /\ UNCHANGED <<site, wr, dead, touched, late, mutex>>
      /\ \/ run[r].pc = "baseline" /\ run' = [run EXCEPT ![r].pc = "wait"]
         \/ run[r].pc = "wait" /\ run' = [run EXCEPT ![r].pc = "step"]
         \/ run[r].pc \in {"phase", "dwell"} /\ run' = [run EXCEPT ![r] = Advance(r)]
  BY DEF Elapse, marks
<1>2. CASE run[r].pc \in {"phase", "dwell"}
  <2>1. PICK u : u = Advance(r)
    OBVIOUS
  <2>2. run' = [run EXCEPT ![r] = u]
    BY <1>1, <1>2, <2>1
  <2>3. /\ DOMAIN u = Fields
        /\ u.name = run[r].name /\ u.pid = run[r].pid /\ u.plan = run[r].plan
        /\ GoesOn(run[r]) => u.pc \in {"step", "wait"} /\ u.end = run[r].end
        /\ ~GoesOn(run[r]) => \/ u.pc = "dwell" /\ u.line = run[r].line /\ u.end = run[r].end
                              \/ u.pc = "clear" /\ u.end = "done"
    BY <2>1, Advances DEF ScnInv
  <2>4. run[r].end = None
    BY <1>2 DEF ScnInv, EndInv
  <2>5. r \in touched \ late => GoesOn(run[r]) /\ run[r].end # "done"
    BY <1>2 DEF ScnInv, TouchInv
  <2>6. u.pc = "dwell" => ~(u.line < Len(u.plan.lines))
    BY <2>3 DEF GoesOn
  <2>7. Calm(r, u)
    BY <1>2, <2>2, <2>3, <2>4, <2>5, <2>6 DEF Calm
  <2> QED BY <1>1, <2>7, CalmKeeps
<1>3. CASE run[r].pc \in {"baseline", "wait"}
  <2>1. PICK p : p \in {"wait", "step"} /\ run' = [run EXCEPT ![r].pc = p]
    BY <1>1, <1>3
  <2>2. PICK u : Moved(r, u, p) /\ u.end = run[r].end
    BY <2>1, GotoIs DEF ScnInv
  <2>3. run[r].end = None /\ (r \in touched \ late => run[r].end # "done")
    BY <1>3 DEF ScnInv, EndInv, TouchInv
  <2>4. Calm(r, u)
    BY <1>3, <2>1, <2>2, <2>3 DEF Calm, Moved
  <2> QED BY <1>1, <2>4, CalmKeeps
<1> QED BY <1>1, <1>2, <1>3

\* A run that gives up before its flag.
LEMMA GivesUpKeeps ==
  ASSUME ProcessesApart, ScnInv, NEW r \in Runs, run' = [run EXCEPT ![r].pc = "refused"],
         run[r].pc \in {"lock", "apply", "flag"},
         UNCHANGED <<site, wr, dead, touched, late>>,
         mutex' = mutex \/ (mutex' = None /\ run[r].pc # "lock")
  PROVE  ScnInv'
<1>1. PICK u : Moved(r, u, "refused") /\ u.end = run[r].end
  BY GotoIs DEF ScnInv
<1>2. Step(run[r].pc, "refused")
  BY DEF Step
<1>3. Calm(r, u)
  BY <1>1, <1>2, StepIsCalm
<1>4. mutex' = mutex \/ (mutex' = None /\ mutex = r /\ u.pc \notin Inside)
  BY <1>1 DEF ScnInv, MutexInv, Inside, Moved
<1> QED BY <1>3, <1>4, CalmKeeps

\* A run whose step fails ends as aborted.
LEMMA FailsKeeps ==
  ASSUME ProcessesApart, ScnInv, NEW r \in Runs, NEW how, run' = End(r, how),
         how # "done", run[r].pc \in {"step", "set"},
         UNCHANGED <<site, wr, dead, touched, late>>,
         mutex' = mutex \/ (mutex' = None /\ run[r].pc = "set")
  PROVE  ScnInv'
<1>1. PICK u : Moved(r, u, "clear") /\ u.end = how
  BY EndIs DEF ScnInv
<1>2. Calm(r, u)
  BY <1>1, EndIsCalm DEF Driving
<1>3. mutex' = mutex \/ (mutex' = None /\ mutex = r /\ u.pc \notin Inside)
  BY <1>1 DEF ScnInv, MutexInv, Inside, Moved
<1> QED BY <1>2, <1>3, CalmKeeps

\* When the lock can be taken nobody is inside it.
LEMMA FreeMeans ==
  ASSUME ProcessesApart, ScnInv, Free
  PROVE  /\ \A r \in Runs : run[r].pc \notin Inside
         /\ \A w \in Writers : wr[w].pc # "write"
BY DEF ScnInv, MutexInv, ProcInv, Free, ProcessesApart, Inside, Under,
   PastFlag, Driving

\* A site that loses its flag, or goes: whoever waits for its next set is touched.
Loses(a) ==
    /\ ~HasFlag' /\ SiteShape'
    /\ touched' \subseteq touched \cup Hit(a)
    /\ UNCHANGED <<late, dead>>

\* Somebody who is not a run takes the flag or the site away.
LEMMA OutsideLoses ==
  ASSUME ProcessesApart, ScnInv, NEW a, Loses(a), run' = run, MutexInv',
         DOMAIN wr' = Writers /\ \A w \in Writers : WriterShape(wr'[w]),
         site' = None \/ \A r \in Runs : run[r].pc # "set"
  PROVE  ScnInv'
<1> USE DEF ScnInv
<1>a. \A q \in Runs : ~Mine(q)'
  BY DEF Loses, Mine
<1>b. \A q \in touched' : q \in Runs /\ (q \in touched \/ q \in Hit(a))
  BY DEF Loses, Hit, ShapeInv
<1>1. ShapeInv' BY <1>b DEF ShapeInv, Loses
<1>2. ProcInv' BY DEF Loses, ProcInv
<1>4. TwinInv' BY DEF Loses, TwinInv
<1>5. OwnInv' BY <1>a DEF Loses, OwnInv
<1>6. HeldInv' BY DEF Loses, HeldInv
<1>7. KeptOut' BY <1>a DEF Loses, KeptOut
<1>8. EndInv' BY DEF EndInv
<1>9. TouchInv'
  <2> SUFFICES ASSUME NEW q \in touched' \ late'
               PROVE  /\ run[q].pc \in Driving \cup Ending \cup {"over", "killed"}
                      /\ run[q].pc \in Driving =>
                           /\ run[q].pc # "set"
                           /\ run[q].pc \in {"phase", "dwell"} => GoesOn(run[q])
                      /\ run[q].end # "done"
    BY <1>a, <1>b DEF TouchInv, GoesOn
  <2>1. CASE q \in touched
    BY <2>1 DEF TouchInv, Loses
  <2>2. CASE q \in Hit(a)
    <3>1. /\ run[q].pc \in Driving \ {"set"}
          /\ run[q].pc \in {"phase", "dwell"} => GoesOn(run[q])
      BY <1>b, <2>2, HitIs
    <3>2. run[q].end = None
      BY <1>b, <3>1 DEF EndInv, Driving, Waiting, Ending
    <3> QED BY <3>1, <3>2 DEF ProcessesApart
  <2> QED BY <1>b, <2>1, <2>2
<1> QED BY <1>1, <1>2, <1>4, <1>5, <1>6, <1>7, <1>8, <1>9

\* A run that takes the flag or the site away in a step of its own.
LEMMA StepLoses ==
  ASSUME ProcessesApart, ScnInv, NEW r \in Runs, NEW u, Calm(r, u), Loses(r), MutexInv', wr' = wr,
         site' = None \/ \A q \in Runs : run[q].pc # "set"
  PROVE  ScnInv'
<1> USE DEF ScnInv
<1>0. run'[r] = u /\ DOMAIN run' = Runs /\ \A q \in Runs : q # r => run'[q] = run[q]
  BY RunBecomes DEF Calm
<1>a. \A q \in Runs : ~Mine(q)'
  BY DEF Loses, Mine
<1>b. \A q \in touched' : q \in Runs /\ (q \in touched \/ (q \in Hit(r) /\ q # r))
  BY DEF Loses, Hit, ShapeInv
<1>1. ShapeInv' BY <1>0, <1>b DEF Calm, ShapeInv, Loses, Inside
<1>2. ProcInv' BY <1>0 DEF Calm, Loses, ProcInv
<1>4. TwinInv' BY <1>0 DEF Calm, Loses, TwinInv
<1>5. OwnInv' BY <1>0, <1>a DEF Calm, Loses, OwnInv, Inside
<1>6. HeldInv' BY <1>0 DEF Calm, Loses, HeldInv, Inside
<1>7. KeptOut' BY <1>a DEF Loses, KeptOut
<1>8. EndInv' BY <1>0 DEF Calm, EndInv
<1>9. TouchInv'
  <2> SUFFICES ASSUME NEW q \in touched' \ late'
               PROVE  /\ run'[q].pc \in Driving \cup Ending \cup {"over", "killed"}
                      /\ run'[q].pc \in Driving =>
                           /\ run'[q].pc # "set"
                           /\ run'[q].pc \in {"phase", "dwell"} => GoesOn(run'[q])
                      /\ run'[q].end # "done"
    BY <1>a, <1>b DEF TouchInv, GoesOn
  <2>1. CASE q \in touched
    BY <1>0, <1>b, <2>1 DEF TouchInv, Loses, Calm, Inside
  <2>2. CASE q \in Hit(r) /\ q # r
    <3>1. /\ run[q].pc \in Driving \ {"set"}
          /\ run[q].pc \in {"phase", "dwell"} => GoesOn(run[q])
      BY <1>b, <2>2, HitIs
    <3>2. run[q].end = None
      BY <1>b, <3>1 DEF EndInv, Driving, Waiting, Ending
    <3> QED BY <1>0, <1>b, <2>2, <3>1, <3>2 DEF ProcessesApart
  <2> QED BY <1>b, <2>1, <2>2
<1> QED BY <1>1, <1>2, <1>4, <1>5, <1>6, <1>7, <1>8, <1>9

\* A launch keeps the invariant.
LEMMA SubmitKeeps ==
  ASSUME ProcessesApart, ScnInv, NEW r \in Runs, NEW l, Submit(r, l) PROVE ScnInv'
<1> USE DEF PastFlag, Inside, Under, Strings, Driving, Waiting, Ending
<1>1. /\ run[r].pc = "idle" /\ r \notin dead /\ (~l.cli => ServeProcess \notin dead)
      /\ UNCHANGED <<site, wr, dead, touched, late, mutex>>
  BY DEF Submit, marks
<1>2. PICK u : /\ run' = [run EXCEPT ![r] = u]
               /\ \/ u = [Fresh EXCEPT !.pc = "refused"]
                  \/ \E p : u = [Fresh EXCEPT !.pc = "gate", !.name = l.name, !.keep = l.keep,
                                    !.pid = IF l.cli THEN r ELSE ServeProcess, !.plan = p]
  BY DEF Submit
<1>3. /\ DOMAIN u = Fields /\ u.end = None
      /\ u.pc = "refused" \/ (u.pc = "gate" /\ u.pid \in {r, ServeProcess} /\ u.pid \notin dead)
  BY <1>1, <1>2 DEF Fresh, Fields
<1>0. run'[r] = u /\ DOMAIN run' = Runs /\ \A q \in Runs : q # r => run'[q] = run[q]
  BY <1>2, RunBecomes DEF ScnInv
<1>a. r \notin late /\ \A q \in Runs : q # r => (Mine(q)' <=> Mine(q))
  BY <1>0, <1>1 DEF ScnInv, TwinInv, Mine, HasFlag
<1> USE <1>0, <1>1, <1>3 DEF ScnInv
<1>4. ShapeInv' BY DEF ShapeInv, SiteShape
<1>5. ProcInv' BY DEF ProcInv
<1>6. MutexInv' BY DEF MutexInv
<1>7. TwinInv' BY <1>a DEF TwinInv, ShapeInv
<1>8. OwnInv' BY <1>a DEF OwnInv
<1>9. HeldInv' BY <1>a DEF HeldInv
<1>10. KeptOut' BY <1>a DEF KeptOut, Slips
<1>11. EndInv' BY DEF EndInv
<1>12. TouchInv' BY <1>a DEF TouchInv, ShapeInv, GoesOn
<1> QED BY <1>4, <1>5, <1>6, <1>7, <1>8, <1>9, <1>10, <1>11, <1>12

\* So does the lock of the start.
LEMMA TakeLockKeeps ==
  ASSUME ProcessesApart, ScnInv, NEW r \in Runs, TakeLock(r) PROVE ScnInv'
<1> USE DEF PastFlag, Inside, Under, Strings, Driving, Waiting, Ending
<1>1. run[r].pc = "lock" /\ UNCHANGED <<site, wr, dead, touched, late>>
  BY DEF TakeLock, marks
<1>2. CASE run' = [run EXCEPT ![r].pc = "refused"] /\ mutex' = mutex
  BY <1>1, <1>2, GivesUpKeeps
<1>3. CASE Free /\ mutex' = r /\ run' = [run EXCEPT ![r].pc = "apply"]
  <2>1. PICK u : Moved(r, u, "apply") /\ u.end = run[r].end
    BY <1>3, GotoIs DEF ScnInv
  <2>0. run'[r] = u /\ DOMAIN run' = Runs /\ \A q \in Runs : q # r => run'[q] = run[q]
    BY <2>1, RunBecomes DEF ScnInv, Moved
  <2>2. /\ \A q \in Runs : run[q].pc \notin Inside
        /\ \A w \in Writers : wr[w].pc # "write"
    BY <1>3, FreeMeans
  <2>a. \A q \in Runs : Mine(q)' <=> Mine(q)
    BY <1>1, <2>0, <2>1 DEF Mine, HasFlag, Moved
  <2> USE <1>1, <2>0, <2>1 DEF ScnInv, Moved
  <2>4. ShapeInv' BY DEF ShapeInv, SiteShape
  <2>5. ProcInv' BY DEF ProcInv
  <2>6. MutexInv' BY <1>3, <2>2 DEF MutexInv
  <2>7. TwinInv' BY DEF TwinInv
  <2>8. OwnInv' BY <2>a DEF OwnInv
  <2>9. HeldInv' BY <2>a DEF HeldInv
  <2>10. KeptOut' BY <2>a DEF KeptOut, Slips
  <2>11. EndInv' BY DEF EndInv
  <2>12. TouchInv' BY <2>a DEF TouchInv, ShapeInv, GoesOn
  <2> QED BY <2>4, <2>5, <2>6, <2>7, <2>8, <2>9, <2>10, <2>11, <2>12
<1> QED BY <1>2, <1>3 DEF TakeLock, Reaches

\* The first apply starts a site without a flag: it hits whoever drives.
LEMMA ApplyKeeps ==
  ASSUME ProcessesApart, ScnInv, NEW r \in Runs, ApplyFirst(r) PROVE ScnInv'
<1> USE DEF PastFlag, Inside, Under, Strings, Driving, Waiting, Ending
<1>1. run[r].pc = "apply" /\ UNCHANGED <<wr, dead, late>> /\ mutex = r
  BY DEF ApplyFirst, ScnInv, MutexInv
<1>2. CASE /\ run' = [run EXCEPT ![r].pc = "refused"] /\ mutex' = None
           /\ UNCHANGED <<site, touched>>
  BY <1>1, <1>2, GivesUpKeeps
<1>3. ASSUME NEW s, site' = [spec |-> s, job |-> None], mutex' = mutex,
             run' = [run EXCEPT ![r].pc = "flag", ![r].cur = s],
             touched' = touched \cup Hit(r)
      PROVE  ScnInv'
  <2>1. PICK u : u = [run[r] EXCEPT !.pc = "flag", !.cur = s]
    OBVIOUS
  <2>2. DOMAIN run[r] = Fields
    BY DEF ScnInv, ShapeInv
  <2>3. Moved(r, u, "flag") /\ u.end = run[r].end
    BY <1>3, <2>1, <2>2 DEF Moved, Fields
  <2>4. Calm(r, u)
    BY <1>1, <2>3 DEF Calm, Moved, ScnInv, EndInv, TouchInv
  <2>5. Loses(r)
    BY <1>1, <1>3 DEF Loses, HasFlag, SiteShape
  <2>0. run'[r] = u /\ DOMAIN run' = Runs /\ \A q \in Runs : q # r => run'[q] = run[q]
    BY <2>3, RunBecomes DEF ScnInv, Moved
  <2>6. MutexInv' /\ \A q \in Runs : run[q].pc # "set"
    BY <1>1, <1>3, <2>0, <2>3 DEF ScnInv, MutexInv, Moved
  <2> QED BY <1>1, <2>4, <2>5, <2>6, StepLoses
<1> QED BY <1>2, <1>3 DEF ApplyFirst, Reaches

\* The flag: who is under way makes the run late, who has its name is late with it.
LEMMA WriteFlagKeeps ==
  ASSUME ProcessesApart, ScnInv, NEW r \in Runs, WriteFlag(r) PROVE ScnInv'
<1> USE DEF PastFlag, Inside, Under, Strings, Driving, Waiting, Ending
<1>1. /\ run[r].pc = "flag" /\ UNCHANGED <<wr, dead, touched>> /\ mutex = r /\ mutex' = None
  BY DEF WriteFlag, ScnInv, MutexInv
<1>2. CASE site = None
  <2>1. run' = [run EXCEPT ![r].pc = "refused"] /\ UNCHANGED <<site, late>>
    BY <1>2 DEF WriteFlag, Reaches
  <2> QED BY <1>1, <2>1, GivesUpKeeps
<1>3. CASE site # None
  <2>1. PICK j : /\ j = [name |-> run[r].name, pid |-> run[r].pid, done |-> 0]
                 /\ site' = [site EXCEPT !.job = j]
    BY <1>3 DEF WriteFlag, PidOf
  <2>2. /\ run' = [run EXCEPT ![r].pc = "begin"] /\ late \subseteq late'
        /\ late' = late \cup LetIn(r)
                        \cup {q \in Runs \ {r} : Live(q) /\ run[q].name = run[r].name}
    BY <1>3 DEF WriteFlag, Reaches
  <2>3. PICK u : Moved(r, u, "begin") /\ u.end = run[r].end
    BY <2>2, GotoIs DEF ScnInv
  <2>0. run'[r] = u /\ DOMAIN run' = Runs /\ \A q \in Runs : q # r => run'[q] = run[q]
    BY <2>3, RunBecomes DEF ScnInv, Moved
  <2>4. j.name = run[r].name /\ j.pid = run[r].pid
    BY <2>1
  <2>5. DOMAIN site' = {"spec", "job"} /\ site'.job = j
    BY <1>3, <2>1 DEF ScnInv, ShapeInv, SiteShape
  <2>6. \A q \in late' : q \in Runs /\ run[q].pc # "idle"
    BY <1>1, <2>2, LiveIs DEF ScnInv, ShapeInv, TwinInv, LetIn
  <2>7. \A q \in Runs : q # r /\ run[q].pc \in Under /\ run[q].name = run[r].name => q \in late'
    BY <2>2, LiveIs DEF ScnInv
  <2>8. r \notin late' => /\ \A q \in Runs : q # r => run[q].pc \notin Under
                          /\ \A w \in Writers : wr[w].pc = "idle"
    BY <2>2, LiveIs DEF ScnInv, LetIn
  <2>9. \A q \in Runs \ late' : Mine(q)' /\ run'[q].pc \in PastFlag => q = r
    BY <2>0, <2>3, <2>4, <2>5, <2>7 DEF Mine, Moved
  <2>10. \A q \in Runs : q # r => run[q].pc # "set"
    BY <1>1 DEF ScnInv, MutexInv
  <2> HIDE DEF PastFlag, Under
  <2>s. /\ "begin" \in PastFlag /\ "begin" \in Under /\ "begin" \in Strings /\ "flag" \in Under
        /\ "begin" \notin Ending \cup {"over", "killed"} /\ PastFlag \subseteq Under
        /\ Driving \cup {"begin"} \subseteq PastFlag
    BY DEF PastFlag, Under
  <2> USE <1>1, <2>0, <2>3 DEF ScnInv, Moved
  <2>11. ShapeInv' BY <2>1, <2>5, <2>6, <2>s DEF ShapeInv, SiteShape, JobFields
  <2>12. ProcInv' BY <2>s DEF ProcInv
  <2>13. MutexInv' BY DEF MutexInv, ProcessesApart
  <2>14. TwinInv' BY <2>2, <2>6, <2>7, <2>8, <2>s DEF TwinInv
  <2>15. OwnInv' BY <2>2, <2>4, <2>5, <2>9, <2>10 DEF OwnInv
  <2>16. HeldInv' BY <2>10 DEF HeldInv
  <2>17. KeptOut' BY <2>8, <2>9, <2>s DEF KeptOut, Slips
  <2>18. EndInv' BY <2>s DEF EndInv
  <2>19. TouchInv' BY <2>2, <2>9, <2>s DEF TouchInv, ShapeInv, GoesOn
  <2> QED BY <2>11, <2>12, <2>13, <2>14, <2>15, <2>16, <2>17, <2>18, <2>19
<1> QED BY <1>2, <1>3

\* Exited, spelled out.
LEMMA ExitsDead ==
  ASSUME ShapeInv, NEW r \in Runs
  PROVE  Exited(r) = (IF run[r].pid = r THEN dead \cup {r} ELSE dead)
BY DEF Exited, PidOf

\* A run ends, and its process if it was its own; a flag is lifted or not.
LEMMA EndsKeeps ==
  ASSUME ProcessesApart, ScnInv, NEW r \in Runs, NEW p, p \in {"refused", "over"},
         run[r].pc \in {"begin", "unjob"}, p = "refused" => run[r].pc = "begin",
         run' = [run EXCEPT ![r].pc = p], dead' = Exited(r),
         \/ site' = site
         \/ /\ \A q \in Runs : run[q].pc # "set"
            /\ site # None /\ site' = [site EXCEPT !.job = None],
         UNCHANGED <<wr, touched, late, mutex>>
  PROVE  ScnInv'
<1> USE DEF PastFlag, Inside, Under, Strings, Driving, Waiting, Ending
<1>1. PICK u : Moved(r, u, p) /\ u.end = run[r].end
  BY GotoIs DEF ScnInv
<1>0. run'[r] = u /\ DOMAIN run' = Runs /\ \A q \in Runs : q # r => run'[q] = run[q]
  BY <1>1, RunBecomes DEF ScnInv, Moved
<1>2. dead' = (IF run[r].pid = r THEN dead \cup {r} ELSE dead)
  BY ExitsDead DEF ScnInv
<1>3. \A q \in Runs : Mine(q)' => Mine(q) /\ site' = site
  BY <1>0, <1>1, <1>2 DEF Mine, HasFlag, Moved, ScnInv, ShapeInv, SiteShape
<1>4. \A q \in Runs : q # r /\ run[q].pc \in Under => run[q].pid # r
  BY DEF ScnInv, ProcInv, ProcessesApart
<1>5. \A q \in Runs \ late : q # r /\ run[q].pc = "set" /\ Mine(q) /\ site' = site => Mine(q)'
  BY <1>0, <1>2, <1>4 DEF ScnInv, OwnInv, Mine, HasFlag
<1> USE <1>0, <1>1 DEF ScnInv, Moved
<1>11. ShapeInv' BY DEF ShapeInv, SiteShape
<1>12. ProcInv' BY <1>2, <1>4 DEF ProcInv
<1>13. MutexInv' BY DEF MutexInv
<1>14. TwinInv' BY DEF TwinInv
<1>15. OwnInv' BY <1>2, <1>3 DEF OwnInv
<1>16. HeldInv' BY <1>5 DEF HeldInv
<1>17. KeptOut' BY <1>3 DEF KeptOut, Slips
<1>18. EndInv' BY DEF EndInv
<1>19. TouchInv' BY <1>3 DEF TouchInv, ShapeInv, GoesOn
<1> QED BY <1>11, <1>12, <1>13, <1>14, <1>15, <1>16, <1>17, <1>18, <1>19

\* The begin of the drive keeps the invariant, also when it fails.
LEMMA BeginKeeps ==
  ASSUME ProcessesApart, ScnInv, NEW r \in Runs, Begin(r) PROVE ScnInv'
<1>1. run[r].pc = "begin" /\ UNCHANGED <<site, wr, touched, late, mutex>>
  BY DEF Begin
<1>2. CASE dead' = dead /\ \E p \in {"baseline", "wait"} : run' = [run EXCEPT ![r].pc = p]
  <2>1. PICK p \in {"baseline", "wait"} : run' = [run EXCEPT ![r].pc = p]
    BY <1>2
  <2>2. PICK u : Moved(r, u, p) /\ u.end = run[r].end
    BY <2>1, GotoIs DEF ScnInv
  <2>3. Calm(r, u)
    BY <1>1, <2>1, <2>2, StepIsCalm DEF Step
  <2> QED BY <1>1, <1>2, <2>3, CalmKeeps
<1>3. CASE dead' = Exited(r) /\ run' = [run EXCEPT ![r].pc = "refused"]
  BY <1>1, <1>3, EndsKeeps
<1> QED BY <1>2, <1>3 DEF Begin, Reaches

\* So does the end of a run, whether or not it lifts its flag.
LEMMA UnjobKeeps ==
  ASSUME ProcessesApart, ScnInv, NEW r \in Runs, EndUnjob(r) PROVE ScnInv'
<1>1. /\ run[r].pc = "unjob" /\ run' = [run EXCEPT ![r].pc = "over"]
      /\ dead' = Exited(r) /\ UNCHANGED <<wr, touched, late, mutex>>
  BY DEF EndUnjob, Reaches
<1>2. \/ site' = site
      \/ Owns(r) /\ Free /\ site' = [site EXCEPT !.job = None]
  BY DEF EndUnjob
<1>3. \/ site' = site
      \/ /\ \A q \in Runs : run[q].pc # "set"
         /\ site # None /\ site' = [site EXCEPT !.job = None]
  BY <1>2, FreeMeans DEF Inside, Owns
<1> QED BY <1>1, <1>3, EndsKeeps

\* The lock of a step: the flag read under it is the run's by name.
LEMMA StepLocksKeeps ==
  ASSUME ProcessesApart, ScnInv, NEW r \in Runs, StepLocks(r) PROVE ScnInv'
<1> USE DEF PastFlag, Inside, Under, Strings, Driving, Waiting, Ending
<1>1. run[r].pc = "step" /\ UNCHANGED <<site, wr, dead, touched, late>>
  BY DEF StepLocks, marks
<1>2. CASE \E how \in {"lock-busy", "user"} : run' = End(r, how) /\ mutex' = mutex
  BY <1>1, <1>2, FailsKeeps
<1>3. CASE /\ Free /\ Owns(r) /\ mutex' = r
           /\ run' = [run EXCEPT ![r].pc = "set",
                                 ![r].prior = [site.job EXCEPT !.done = run[r].line]]
  <2>1. PICK j : j = [site.job EXCEPT !.done = run[r].line]
    OBVIOUS
  <2>2. PICK u : u = [run[r] EXCEPT !.pc = "set", !.prior = j]
    OBVIOUS
  <2>3. Mine(r)
    BY <1>3 DEF Mine, HasFlag, Owns, LiveJob, job_alive
  <2>4. DOMAIN j = JobFields /\ j.name = run[r].name /\ j.pid = site.job.pid
    BY <2>1, <2>3 DEF Mine, HasFlag, JobFields, ScnInv, ShapeInv, SiteShape
  <2>5. DOMAIN run[r] = Fields
    BY DEF ScnInv, ShapeInv
  <2>6. /\ run' = [run EXCEPT ![r] = u] /\ DOMAIN u = Fields /\ u.pc = "set" /\ u.prior = j
        /\ u.name = run[r].name /\ u.pid = run[r].pid /\ u.end = run[r].end
    BY <1>3, <2>1, <2>2, <2>5 DEF Fields
  <2>0. run'[r] = u /\ DOMAIN run' = Runs /\ \A q \in Runs : q # r => run'[q] = run[q]
    BY <2>6, RunBecomes DEF ScnInv
  <2>7. /\ \A q \in Runs : run[q].pc \notin Inside
        /\ \A w \in Writers : wr[w].pc # "write"
    BY <1>3, FreeMeans
  <2>a. \A q \in Runs : Mine(q)' <=> Mine(q)
    BY <1>1, <2>0, <2>6 DEF Mine, HasFlag
  <2>b. r \notin touched \ late
    BY <1>1, <2>3 DEF ScnInv, TouchInv
  <2> USE <1>1, <2>0, <2>6 DEF ScnInv
  <2>11. ShapeInv' BY <2>4 DEF ShapeInv, SiteShape
  <2>12. ProcInv' BY DEF ProcInv
  <2>13. MutexInv' BY <1>3, <2>7 DEF MutexInv
  <2>14. TwinInv' BY DEF TwinInv
  <2>15. OwnInv' BY <2>3, <2>4, <2>7, <2>a DEF OwnInv, Mine, HasFlag
  <2>16. HeldInv' BY <2>3, <2>a DEF HeldInv
  <2>17. KeptOut' BY <2>a DEF KeptOut, Slips
  <2>18. EndInv' BY DEF EndInv
  <2>19. TouchInv' BY <2>a, <2>b DEF TouchInv, ShapeInv, GoesOn
  <2> QED BY <2>11, <2>12, <2>13, <2>14, <2>15, <2>16, <2>17, <2>18, <2>19
<1> QED BY <1>2, <1>3 DEF StepLocks

\* The clear at the end of a run hits whoever else drives.
LEMMA EndClearKeeps ==
  ASSUME ProcessesApart, ScnInv, NEW r \in Runs, EndClear(r) PROVE ScnInv'
<1> USE DEF PastFlag, Inside, Under, Strings, Driving, Waiting, Ending
<1>1. /\ run[r].pc = "clear" /\ UNCHANGED <<wr, dead, late, mutex>>
      /\ run' = [run EXCEPT ![r].pc = "uncancel"]
  BY DEF EndClear, Reaches
<1>2. PICK u : Moved(r, u, "uncancel") /\ u.end = run[r].end
  BY <1>1, GotoIs DEF ScnInv
<1>3. Calm(r, u)
  BY <1>1, <1>2 DEF Calm, Moved, ScnInv, EndInv, TouchInv
<1>0. run'[r] = u /\ DOMAIN run' = Runs /\ \A q \in Runs : q # r => run'[q] = run[q]
  BY <1>2, RunBecomes DEF ScnInv, Moved
<1>4. CASE UNCHANGED <<site, touched>>
  BY <1>1, <1>3, <1>4, CalmKeeps
<1>5. CASE site' = None /\ touched' = touched \cup Hit(r)
  <2>1. Loses(r)
    BY <1>1, <1>5 DEF Loses, HasFlag, SiteShape
  <2>2. MutexInv'
    BY <1>0, <1>1, <1>2 DEF ScnInv, MutexInv, Moved
  <2> QED BY <1>1, <1>3, <1>5, <2>1, <2>2, StepLoses
<1> QED BY <1>4, <1>5 DEF EndClear


\* Run r goes on as u after its set.
SetDone(r, s, u) == \/ u = [run[r] EXCEPT !.cur = s, !.prior = None, !.pc = "phase"]
                    \/ u = [Advance(r) EXCEPT !.cur = s, !.prior = None]

\* The state of a run after a set that worked.
LEMMA AfterSet ==
  ASSUME ScnInv, NEW r \in Runs, run[r].pc = "set", NEW s, NEW u,
         SetDone(r, s, u)
  PROVE  /\ DOMAIN u = Fields /\ u.name = run[r].name /\ u.pid = run[r].pid
         /\ u.pc \in {"phase", "wait", "step", "dwell", "clear"}
         /\ u.pc = "dwell" => ~(u.line < Len(u.plan.lines))
         /\ u.pc # "clear" => u.end = None
<1>1. DOMAIN run[r] = Fields /\ run[r].end = None
  BY DEF ScnInv, ShapeInv, EndInv, Ending
<1>2. CASE u = [run[r] EXCEPT !.cur = s, !.prior = None, !.pc = "phase"]
  BY <1>1, <1>2 DEF Fields
<1>3. CASE u = [Advance(r) EXCEPT !.cur = s, !.prior = None]
  <2>1. PICK v : v = Advance(r)
    OBVIOUS
  <2>2. /\ DOMAIN v = Fields /\ v.name = run[r].name /\ v.pid = run[r].pid
        /\ v.plan = run[r].plan
        /\ GoesOn(run[r]) => v.pc \in {"step", "wait"} /\ v.end = run[r].end
        /\ ~GoesOn(run[r]) => \/ v.pc = "dwell" /\ v.line = run[r].line /\ v.end = run[r].end
                              \/ v.pc = "clear" /\ v.end = "done"
    BY <2>1, Advances DEF ScnInv
  <2>3. /\ DOMAIN u = Fields /\ u.name = v.name /\ u.pid = v.pid /\ u.pc = v.pc
        /\ u.line = v.line /\ u.plan = v.plan /\ u.end = v.end
    BY <1>3, <2>1, <2>2 DEF Fields
  <2>4. v.pc = "dwell" => ~(run[r].line < Len(run[r].plan.lines))
    BY <2>2 DEF GoesOn
  <2> QED BY <1>1, <2>2, <2>3, <2>4
<1> QED BY <1>2, <1>3 DEF SetDone

\* The set: it puts back the flag it read, which only late runs could mind.
LEMMA StepSetsKeeps ==
  ASSUME ProcessesApart, ScnInv, NEW r \in Runs, StepSets(r) PROVE ScnInv'
<1> USE DEF PastFlag, Inside, Under, Strings, Driving, Waiting, Ending
<1>1. run[r].pc = "set" /\ UNCHANGED <<wr, dead>> /\ mutex = r /\ mutex' = None
  BY DEF StepSets, ScnInv, MutexInv
<1>2. CASE /\ \E how \in {"bad-param", "step-failed"} : run' = End(r, how)
           /\ UNCHANGED <<site, touched, late>>
  BY <1>1, <1>2, FailsKeeps
<1>3. ASSUME NEW s, NEW u, site' = [spec |-> s, job |-> run[r].prior],
             late' = IF site = None THEN late \cup LetIn(r) ELSE late,
             touched' = touched \cup Hit(r),
             run' = [run EXCEPT ![r] = u],
             \/ u = [run[r] EXCEPT !.cur = s, !.prior = None, !.pc = "phase"]
             \/ u = [Advance(r) EXCEPT !.cur = s, !.prior = None]
      PROVE  ScnInv'
  <2>0. run'[r] = u /\ DOMAIN run' = Runs /\ \A q \in Runs : q # r => run'[q] = run[q]
    BY <1>3, RunBecomes DEF ScnInv
  <2>1. /\ DOMAIN u = Fields /\ u.name = run[r].name /\ u.pid = run[r].pid
        /\ u.pc \in {"phase", "wait", "step", "dwell", "clear"}
        /\ u.pc = "dwell" => ~(u.line < Len(u.plan.lines))
        /\ u.pc # "clear" => u.end = None
    <3>1. SetDone(r, s, u)
      BY <1>3 DEF SetDone
    <3>2. run[r].pc = "set"
      BY <1>1
    <3> QED BY <3>1, <3>2, AfterSet
  <2>2. PICK j : /\ j = run[r].prior /\ DOMAIN j = JobFields /\ j.name = run[r].name
                 /\ site' # None => DOMAIN site' = {"spec", "job"} /\ site'.job = j
    BY <1>1, <1>3 DEF ScnInv, ShapeInv, OwnInv
  <2>3. /\ \A q \in Runs : q # r => run[q].pc \notin Inside
        /\ \A w \in Writers : wr[w].pc # "write"
    BY <1>1 DEF ScnInv, MutexInv, ProcessesApart
  <2>4. late \subseteq late' /\ (\A q \in late' : q = r \/ q \in late)
    BY <1>3 DEF LetIn
  <2>5. \A q \in Runs \ late' : Mine(q)' /\ run'[q].pc \in PastFlag => q = r
    BY <1>1, <2>0, <2>1, <2>2, <2>4 DEF ScnInv, TwinInv, Mine, HasFlag
  <2>6. site = None /\ r \notin late' => \A w \in Writers : wr[w].pc = "idle"
    BY <1>3 DEF LetIn
  <2>7. site # None /\ r \notin late' => \A w \in Writers : ~Slips(w)
    BY <1>1, <2>4 DEF ScnInv, HeldInv, KeptOut
  <2>8. \A q \in touched' : q \in Runs /\ (q \in touched \/ (q \in Hit(r) /\ q # r))
    BY <1>3 DEF Hit, ScnInv, ShapeInv
  <2>9. r \notin touched' \ late'
    BY <1>1, <2>4, <2>8 DEF ScnInv, TouchInv
  <2>10. \A q \in touched' \ late' :
           /\ run[q].pc \in Driving \cup Ending \cup {"over", "killed"}
           /\ run[q].pc \in Driving =>
                /\ run[q].pc # "set"
                /\ run[q].pc \in {"phase", "dwell"} => GoesOn(run[q])
           /\ run[q].end # "done"
    <3> SUFFICES ASSUME NEW q \in touched' \ late'
                 PROVE  /\ run[q].pc \in Driving \cup Ending \cup {"over", "killed"}
                        /\ run[q].pc \in Driving =>
                             /\ run[q].pc # "set"
                             /\ run[q].pc \in {"phase", "dwell"} => GoesOn(run[q])
                        /\ run[q].end # "done"
      OBVIOUS
    <3>1. CASE q \in touched
      BY <2>4, <3>1 DEF ScnInv, TouchInv
    <3>2. CASE q \in Hit(r)
      <4>1. /\ run[q].pc \in Driving \ {"set"}
            /\ run[q].pc \in {"phase", "dwell"} => GoesOn(run[q])
        BY <2>8, <3>2, HitIs DEF ScnInv
      <4>2. run[q].end = None
        BY <2>8, <4>1 DEF ScnInv, EndInv
      <4> QED BY <4>1, <4>2 DEF ProcessesApart
    <3> QED BY <2>8, <3>1, <3>2
  <2> USE <1>1, <2>0, <2>1 DEF ScnInv
  <2>11. ShapeInv' BY <2>2, <2>4, <2>8 DEF ShapeInv, SiteShape
  <2>12. ProcInv' BY DEF ProcInv
  <2>13. MutexInv' BY <2>3 DEF MutexInv
  <2>14. TwinInv' BY <2>4 DEF TwinInv, ShapeInv
  <2>15. OwnInv' BY <2>2, <2>3, <2>4, <1>3 DEF OwnInv, Mine, HasFlag
  <2>16. HeldInv' BY <2>3 DEF HeldInv
  <2>17. KeptOut' BY <2>5, <2>6, <2>7 DEF KeptOut, Slips
  <2>18. EndInv' BY DEF EndInv
  <2>19. TouchInv' BY <2>5, <2>8, <2>9, <2>10 DEF TouchInv, GoesOn
  <2> QED BY <2>11, <2>12, <2>13, <2>14, <2>15, <2>16, <2>17, <2>18, <2>19
<1>4. PICK s : \/ /\ \E how \in {"bad-param", "step-failed"} : run' = End(r, how)
                  /\ UNCHANGED <<site, touched, late>>
               \/ /\ site' = [spec |-> s, job |-> run[r].prior]
                  /\ late' = IF site = None THEN late \cup LetIn(r) ELSE late
                  /\ touched' = touched \cup Hit(r)
                  /\ run' = [run EXCEPT ![r] =
                       LET u == [@ EXCEPT !.cur = s, !.prior = None]
                       IN  IF Line(r).kind = "repeat" THEN [u EXCEPT !.pc = "phase"]
                           ELSE [Advance(r) EXCEPT !.cur = s, !.prior = None]]
  BY DEF StepSets
<1>5. CASE /\ site' = [spec |-> s, job |-> run[r].prior]
           /\ late' = IF site = None THEN late \cup LetIn(r) ELSE late
           /\ touched' = touched \cup Hit(r)
           /\ run' = [run EXCEPT ![r] =
                LET u == [@ EXCEPT !.cur = s, !.prior = None]
                IN  IF Line(r).kind = "repeat" THEN [u EXCEPT !.pc = "phase"]
                    ELSE [Advance(r) EXCEPT !.cur = s, !.prior = None]]
  <2>1. DOMAIN run = Runs
    BY DEF ScnInv, ShapeInv
  <2>2. PICK u : /\ run' = [run EXCEPT ![r] = u]
                 /\ \/ u = [run[r] EXCEPT !.cur = s, !.prior = None, !.pc = "phase"]
                    \/ u = [Advance(r) EXCEPT !.cur = s, !.prior = None]
    BY <1>5, <2>1
  <2> QED BY <1>3, <1>5, <2>2
<1> QED BY <1>2, <1>4, <1>5


\* Writers come, are refused or give up; nothing else changes.
LEMMA WriterMoves ==
  ASSUME ProcessesApart, ScnInv, UNCHANGED <<site, run, dead, touched, late>>, MutexInv',
         DOMAIN wr' = Writers, \A w \in Writers : WriterShape(wr'[w]),
         HasFlag => \A w \in Writers : (Slips(w))' => Slips(w)
  PROVE  ScnInv'
<1> USE DEF ScnInv
<1>a. \A q \in Runs : Mine(q)' <=> Mine(q)
  BY DEF Mine, HasFlag
<1>1. ShapeInv' BY DEF ShapeInv, SiteShape
<1>2. ProcInv' BY DEF ProcInv
<1>4. TwinInv' BY DEF TwinInv
<1>5. OwnInv' BY <1>a DEF OwnInv
<1>6. HeldInv' BY <1>a DEF HeldInv
<1>7. KeptOut' BY <1>a DEF KeptOut, Mine
<1>8. EndInv' BY DEF EndInv
<1>9. TouchInv' BY <1>a DEF TouchInv, GoesOn, ShapeInv
<1> QED BY <1>1, <1>2, <1>4, <1>5, <1>6, <1>7, <1>8, <1>9

\* A step of writer w changes no other writer.
LEMMA WriterBecomes ==
  ASSUME ShapeInv, NEW w \in Writers, NEW v, wr' = [wr EXCEPT ![w] = v]
  PROVE  wr'[w] = v /\ DOMAIN wr' = Writers /\ \A x \in Writers : x # w => wr'[x] = wr[x]
BY DEF ShapeInv

\* The gate of a writer: no set passes it while the flag is alive.
LEMMA WriterGateKeeps ==
  ASSUME ProcessesApart, ScnInv, NEW w \in Writers, NEW k \in Kinds, WriterGate(w, k)
  PROVE  ScnInv'
<1>1. PICK v : /\ wr' = [wr EXCEPT ![w] = v] /\ UNCHANGED <<site, run, dead, touched, late, mutex>>
               /\ v = [kind |-> k,
                       pc |-> IF k \in {"apply", "set"} /\ LiveJob THEN "idle" ELSE "gated"]
  BY DEF WriterGate, marks
<1>2. /\ DOMAIN v = {"pc", "kind"} /\ v.pc \in {"idle", "gated"} /\ v.kind = k
      /\ HasFlag /\ k = "set" => v.pc = "idle"
  BY <1>1 DEF HasFlag, LiveJob, job_alive
<1>3. wr'[w] = v /\ DOMAIN wr' = Writers /\ \A x \in Writers : x # w => wr'[x] = wr[x]
  BY <1>1, WriterBecomes DEF ScnInv
<1>4. HasFlag => \A x \in Writers : (Slips(x))' => Slips(x)
  BY <1>2, <1>3 DEF Slips
<1>5. MutexInv'
  BY <1>1, <1>2, <1>3 DEF ScnInv, MutexInv
<1>6. \A x \in Writers : WriterShape(wr'[x])
  BY <1>2, <1>3 DEF ScnInv, ShapeInv, WriterShape
<1> QED BY <1>1, <1>3, <1>4, <1>5, <1>6, WriterMoves

\* The lock of a writer: no REST set passes it while the flag is alive.
LEMMA WriterLockKeeps ==
  ASSUME ProcessesApart, ScnInv, NEW w \in Writers, WriterLock(w)
  PROVE  ScnInv'
<1>1. wr[w].pc = "gated" /\ UNCHANGED <<site, run, dead, touched, late>>
  BY DEF WriterLock, marks
<1>2. PICK p : /\ wr' = [wr EXCEPT ![w].pc = p]
               /\ \/ p = "write" /\ mutex' = w /\ Free
                     /\ (wr[w].kind = "rest-set" => ~HasFlag)
                  \/ p = "idle" /\ mutex' = mutex
  BY DEF WriterLock, HasFlag, LiveJob, job_alive
<1>3. PICK v : v = [wr[w] EXCEPT !.pc = p]
  OBVIOUS
<1>4. DOMAIN v = {"pc", "kind"} /\ v.pc = p /\ v.kind = wr[w].kind /\ wr' = [wr EXCEPT ![w] = v]
  BY <1>2, <1>3 DEF ScnInv, ShapeInv, WriterShape
<1>5. wr'[w] = v /\ DOMAIN wr' = Writers /\ \A x \in Writers : x # w => wr'[x] = wr[x]
  BY <1>4, WriterBecomes DEF ScnInv
<1>6. HasFlag => \A x \in Writers : (Slips(x))' => Slips(x)
  <2>1. HasFlag /\ (Slips(w))' => Slips(w)
    BY <1>1, <1>2, <1>4, <1>5 DEF Slips
  <2> QED BY <1>5, <2>1 DEF Slips
<1>7. MutexInv'
  <2>1. CASE p = "idle"
    BY <1>1, <1>2, <1>4, <1>5, <2>1 DEF ScnInv, MutexInv
  <2>2. CASE p = "write"
    <3>1. /\ \A q \in Runs : run[q].pc \notin Inside
          /\ \A x \in Writers : wr[x].pc # "write"
      BY <1>2, <2>2, FreeMeans
    <3> QED BY <1>1, <1>2, <1>4, <1>5, <2>2, <3>1 DEF MutexInv
  <2> QED BY <1>2, <2>1, <2>2
<1>8. \A x \in Writers : WriterShape(wr'[x])
  BY <1>1, <1>4, <1>5 DEF ScnInv, ShapeInv, WriterShape
<1> QED BY <1>1, <1>5, <1>6, <1>7, <1>8, WriterMoves

\* A writer that keeps the flag on the site: by KeptOut it belongs to no run that minds.
LEMMA WriterSlips ==
  ASSUME ProcessesApart, ScnInv, NEW w \in Writers, Slips(w), site # None,
         NEW s, site' = [spec |-> s, job |-> site.job],
         \A q \in Runs : run[q].pc # "set",
         touched' = touched \cup Hit(w), UNCHANGED <<run, dead, late>>, MutexInv',
         DOMAIN wr' = Writers, \A x \in Writers : WriterShape(wr'[x])
  PROVE  ScnInv'
<1> USE DEF ScnInv
<1>a. \A q \in Runs : Mine(q)' => Mine(q)
  BY DEF Mine, HasFlag
<1>b. \A q \in touched' : q \in Runs /\ (q \in touched \/ q \in Hit(w))
  BY DEF Hit, ShapeInv
<1>c. \A q \in Runs \ late : run[q].pc \in {"begin"} \cup Driving => ~Mine(q)
  BY DEF KeptOut
<1>d. (site' # None => site'.job = site.job) /\ DOMAIN site' = {"spec", "job"}
  OBVIOUS
<1>1. ShapeInv' BY <1>b, <1>d DEF ShapeInv, SiteShape
<1>2. ProcInv' BY DEF ProcInv
<1>4. TwinInv' BY DEF TwinInv
<1>5. OwnInv' BY <1>a, <1>d DEF OwnInv, Mine, HasFlag
<1>6. HeldInv' BY DEF HeldInv
<1>7. KeptOut' BY <1>a, <1>c DEF KeptOut
<1>8. EndInv' BY DEF EndInv
<1>9. TouchInv'
  <2> SUFFICES ASSUME NEW q \in touched' \ late'
               PROVE  /\ run[q].pc \in Driving \cup Ending \cup {"over", "killed"}
                      /\ run[q].pc \in Driving =>
                           /\ run[q].pc # "set"
                           /\ run[q].pc \in {"phase", "dwell"} => GoesOn(run[q])
                      /\ run[q].end # "done"
    BY <1>a, <1>b, <1>c DEF TouchInv, GoesOn
  <2>1. CASE q \in touched
    BY <2>1 DEF TouchInv
  <2>2. CASE q \in Hit(w)
    <3>1. /\ run[q].pc \in Driving \ {"set"}
          /\ run[q].pc \in {"phase", "dwell"} => GoesOn(run[q])
      BY <1>b, <2>2, HitIs
    <3>2. run[q].end = None
      BY <1>b, <3>1 DEF EndInv, Driving, Waiting, Ending
    <3> QED BY <3>1, <3>2 DEF ProcessesApart
  <2> QED BY <1>b, <2>1, <2>2
<1> QED BY <1>1, <1>2, <1>4, <1>5, <1>6, <1>7, <1>8, <1>9

\* A write keeps the invariant: it drops the flag, or slips past late runs only.
LEMMA WriterWritesKeeps ==
  ASSUME ProcessesApart, ScnInv, NEW w \in Writers, WriterWrites(w) PROVE ScnInv'
<1>k. PICK k \in Kinds : wr[w].kind = k
  BY DEF WriterWrites, ScnInv, ShapeInv, WriterShape
<1>1. /\ wr[w].pc = "write" /\ UNCHANGED <<run, dead, late>> /\ mutex = w /\ mutex' = None
      /\ wr' = [wr EXCEPT ![w].pc = "idle"]
  BY DEF WriterWrites, ScnInv, MutexInv
<1>2. PICK v : v = [wr[w] EXCEPT !.pc = "idle"]
  OBVIOUS
<1>3. DOMAIN v = {"pc", "kind"} /\ v.pc = "idle" /\ wr' = [wr EXCEPT ![w] = v]
  BY <1>1, <1>2 DEF ScnInv, ShapeInv, WriterShape
<1>4. wr'[w] = v /\ DOMAIN wr' = Writers /\ \A x \in Writers : x # w => wr'[x] = wr[x]
  BY <1>3, WriterBecomes DEF ScnInv
<1>5. /\ \A q \in Runs : run[q].pc \notin Inside
      /\ \A x \in Writers : wr'[x].pc # "write"
  BY <1>1, <1>3, <1>4 DEF ScnInv, MutexInv, ProcessesApart
<1>6. MutexInv'
  BY <1>1, <1>5 DEF MutexInv
<1>7. \A x \in Writers : WriterShape(wr'[x])
  BY <1>3, <1>4 DEF ScnInv, ShapeInv, WriterShape
<1>8. CASE UNCHANGED <<site, touched>>
  <2>1. \A x \in Writers : (Slips(x))' => Slips(x)
    BY <1>3, <1>4 DEF Slips
  <2> QED BY <1>1, <1>4, <1>6, <1>7, <1>8, <2>1, WriterMoves
<1>9. ASSUME NEW s, NEW job, site' = [spec |-> s, job |-> job], touched' = touched \cup Hit(w),
             \/ job = None
             \/ job = site.job /\ site # None /\ k \in {"set", "rest-set"}
      PROVE  ScnInv'
  <2>1. CASE job = None
    <3>1. Loses(w)
      BY <1>1, <1>9, <2>1 DEF Loses, HasFlag, SiteShape
    <3> QED BY <1>1, <1>4, <1>5, <1>6, <1>7, <3>1, OutsideLoses DEF Inside
  <2>2. CASE job = site.job /\ site # None /\ k \in {"set", "rest-set"}
    <3>1. Slips(w)
      BY <1>k, <1>1, <2>2 DEF Slips
    <3> QED BY <1>1, <1>4, <1>5, <1>6, <1>7, <1>9, <2>2, <3>1, WriterSlips DEF Inside
  <2> QED BY <1>9, <2>1, <2>2
<1>10. \/ UNCHANGED <<site, touched>>
       \/ \E s, job : /\ site' = [spec |-> s, job |-> job] /\ touched' = touched \cup Hit(w)
                      /\ \/ job = None
                         \/ job = site.job /\ site # None /\ k \in {"set", "rest-set"}
  BY <1>k DEF WriterWrites, Kinds
<1> QED BY <1>8, <1>9, <1>10

\* Sweeps, by clear, watchdog, expiry or the exit of serve, keep the invariant.
LEMMA SweepKeeps ==
  ASSUME ProcessesApart, ScnInv, Sweep \/ ShutdownClear PROVE ScnInv'
<1>1. UNCHANGED <<mutex, run, wr, dead, late>>
  BY DEF Sweep, ShutdownClear
<1>2. MutexInv' /\ DOMAIN wr' = Writers /\ \A w \in Writers : WriterShape(wr'[w])
  BY <1>1 DEF ScnInv, MutexInv, ShapeInv
<1>3. CASE site' = None /\ touched' = touched \cup Hit(None)
  <2>1. Loses(None)
    BY <1>1, <1>3 DEF Loses, HasFlag, SiteShape
  <2> QED BY <1>1, <1>2, <1>3, <2>1, OutsideLoses
<1>4. CASE UNCHANGED <<site, touched>>
  <2>1. \A w \in Writers : (Slips(w))' => Slips(w)
    BY <1>1 DEF Slips
  <2> QED BY <1>1, <1>2, <1>4, <2>1, WriterMoves
<1> QED BY <1>3, <1>4 DEF Sweep, ShutdownClear

\* Stop lifts a flag only when its owner is dead.
LEMMA StopKeeps ==
  ASSUME ProcessesApart, ScnInv, Stop \/ ShutdownStop \/ ShutdownAwait
  PROVE  ScnInv'
<1>1. UNCHANGED <<mutex, run, wr, dead, touched, late>>
  BY DEF Stop, ShutdownStop, ShutdownAwait, marks
<1>2. MutexInv' /\ DOMAIN wr' = Writers /\ \A w \in Writers : WriterShape(wr'[w])
  BY <1>1 DEF ScnInv, MutexInv, ShapeInv
<1>3. CASE site # None /\ Free /\ site' = [site EXCEPT !.job = None]
  <2>1. Loses(None)
    BY <1>1, <1>3 DEF Loses, HasFlag, SiteShape, ScnInv, ShapeInv
  <2>2. \A q \in Runs : run[q].pc # "set"
    BY <1>3, FreeMeans DEF Inside
  <2> QED BY <1>1, <1>2, <2>1, <2>2, OutsideLoses
<1>4. CASE UNCHANGED site
  <2>1. \A w \in Writers : (Slips(w))' => Slips(w)
    BY <1>1 DEF Slips
  <2> QED BY <1>1, <1>2, <1>4, <2>1, WriterMoves
<1> QED BY <1>3, <1>4 DEF Stop, ShutdownStop, ShutdownAwait, StopEffect

\* A process dies with the runs in it.
LEMMA DeathKeeps ==
  ASSUME ProcessesApart, ScnInv, NEW p,
         p = ServeProcess \/ (p \in Runs /\ run[p].pc \in Under /\ run[p].pid = p),
         dead' = dead \cup {p} \cup {r \in Runs : Live(r) /\ PidOf(r) = p},
         run' = [r \in Runs |-> IF Live(r) /\ PidOf(r) = p
                                THEN [run[r] EXCEPT !.pc = "killed"] ELSE run[r]],
         UNCHANGED <<site, mutex, wr, touched, late>>
  PROVE  ScnInv'
<1> USE DEF ScnInv
<1>1. \A r \in Runs : \/ /\ run[r].pc \in Under /\ run[r].pid = p /\ r \in dead'
                         /\ run'[r] = [run[r] EXCEPT !.pc = "killed"]
                      \/ /\ ~(run[r].pc \in Under /\ run[r].pid = p)
                         /\ run'[r] = run[r]
  BY LiveIs DEF PidOf
<1>2. \A r \in Runs : /\ DOMAIN run'[r] = Fields /\ run'[r].name = run[r].name
                      /\ run'[r].pid = run[r].pid /\ run'[r].prior = run[r].prior
                      /\ run'[r].end = run[r].end /\ run'[r].line = run[r].line
                      /\ run'[r].plan = run[r].plan
                      /\ \/ run'[r].pc = "killed" /\ run[r].pc \in Under
                         \/ run'[r] = run[r] /\ ~(run[r].pc \in Under /\ run[r].pid = p)
  BY <1>1 DEF ShapeInv, Fields
<1>3. /\ dead \subseteq dead' /\ p \in dead'
      /\ \A x \in dead' : x \in dead \/ x = p \/ (x \in Runs /\ run[x].pc \in Under /\ run[x].pid = p)
  BY LiveIs DEF PidOf
<1>4. \A r \in Runs : run'[r].pc \in Under =>
         run[r].pid \in {r, ServeProcess} /\ run[r].pid \notin dead' /\ r \notin dead'
  <2> SUFFICES ASSUME NEW r \in Runs, run'[r].pc \in Under
               PROVE  run[r].pid \in {r, ServeProcess} /\ run[r].pid \notin dead' /\ r \notin dead'
    OBVIOUS
  <2>1. run[r].pc \in Under /\ run[r].pid # p
    BY <1>2 DEF Under, PastFlag, Driving, Waiting, Ending
  <2>2. run[r].pid \in {r, ServeProcess} /\ run[r].pid \notin dead /\ r \notin dead
    BY <2>1 DEF ProcInv
  <2>3. r # p
    BY <2>1 DEF ProcessesApart
  <2>4. ServeProcess \notin Runs
    BY DEF ProcessesApart
  <2>5. r \notin dead'
    BY <1>3, <2>1, <2>2, <2>3
  <2> QED BY <1>3, <2>1, <2>2, <2>3, <2>4, <2>5
<1>5. "killed" \notin PastFlag \cup Inside \cup Under \cup Driving \cup {"begin", "idle", "dwell"}
      /\ "killed" \in Strings
  BY DEF PastFlag, Inside, Under, Strings, Driving, Waiting, Ending
<1>6. \A r \in Runs : Mine(r)' => Mine(r)
  BY <1>2, <1>3 DEF Mine, HasFlag
<1>7. \A r \in Runs \ late : run'[r].pc = "set" /\ Mine(r) => Mine(r)'
  <2> SUFFICES ASSUME NEW r \in Runs \ late, run'[r].pc = "set", Mine(r) PROVE Mine(r)'
    OBVIOUS
  <2>1. run[r].pc = "set" /\ run'[r].pc \in Under
    BY <1>2 DEF Under, PastFlag, Driving
  <2>2. site.job.pid = run[r].pid
    BY <2>1 DEF OwnInv, PastFlag, Driving
  <2> QED BY <1>2, <1>4, <2>1, <2>2 DEF Mine, HasFlag
<1>8. DOMAIN run' = Runs
  OBVIOUS
<1>9. dead' \subseteq Runs \cup {ServeProcess}
  BY <1>3 DEF ProcInv
<1>11. ShapeInv' BY <1>2, <1>5, <1>8 DEF ShapeInv, SiteShape
<1>12. ProcInv' BY <1>2, <1>4, <1>9 DEF ProcInv
<1>13. MutexInv' BY <1>2, <1>5 DEF MutexInv
<1>14. TwinInv' BY <1>2, <1>5 DEF TwinInv, ShapeInv
<1>15. OwnInv' BY <1>2, <1>3, <1>5, <1>6 DEF OwnInv
<1>16. HeldInv' BY <1>2, <1>7 DEF HeldInv
<1>17. KeptOut' BY <1>2, <1>5, <1>6 DEF KeptOut, Slips
<1>18. EndInv' BY <1>2, <1>5 DEF EndInv
<1>19. TouchInv' BY <1>2, <1>5, <1>6 DEF TouchInv, ShapeInv, GoesOn
<1> QED BY <1>11, <1>12, <1>13, <1>14, <1>15, <1>16, <1>17, <1>18, <1>19

\* A kill, and the exit of serve, keep the invariant.
LEMMA KillKeeps ==
  ASSUME ProcessesApart, ScnInv, NEW p \in Runs \cup {ServeProcess},
         Kill(p) \/ (p = ServeProcess /\ ShutdownExit)
  PROVE  ScnInv'
<1>1. /\ dead' = dead \cup {p} \cup {r \in Runs : Live(r) /\ PidOf(r) = p}
      /\ run' = [r \in Runs |-> IF Live(r) /\ PidOf(r) = p
                                THEN [run[r] EXCEPT !.pc = "killed"] ELSE run[r]]
      /\ UNCHANGED <<site, mutex, wr, touched, late>>
  BY DEF Kill, ShutdownExit, marks
<1>2. p = ServeProcess \/ (p \in Runs /\ Live(p) /\ run[p].pid = p)
  BY DEF Kill, PidOf
<1>3. p = ServeProcess \/ (p \in Runs /\ run[p].pc \in Under /\ run[p].pid = p)
  BY <1>2, LiveIs DEF ScnInv
<1> QED BY <1>1, <1>3, DeathKeeps

\* The invariant holds at the start.
LEMMA ScnStarts == ASSUME ProcessesApart, ScenarioInit PROVE ScnInv
<1> USE DEF ScenarioInit
<1>1. \A r \in Runs : run[r] = Fresh
  OBVIOUS
<1>2. \A r \in Runs : DOMAIN run[r] = Fields /\ run[r].pc = "idle" /\ run[r].end = None
  BY <1>1 DEF Fresh, Fields
<1>3. \A w \in Writers : wr[w].pc = "idle" /\ DOMAIN wr[w] = {"pc", "kind"}
  OBVIOUS
<1>4. /\ "idle" \in Strings /\ "idle" \notin Under \cup Inside \cup PastFlag \cup Driving
      /\ "idle" \notin {"begin", "set", "write", "dwell"}
  BY DEF PastFlag, Inside, Under, Strings, Driving, Waiting, Ending
<1>5. ShapeInv BY <1>2, <1>3, <1>4 DEF ShapeInv, SiteShape, WriterShape
<1>6. ProcInv BY <1>2, <1>4 DEF ProcInv
<1>7. MutexInv BY <1>2, <1>3, <1>4 DEF MutexInv
<1>8. TwinInv BY <1>2, <1>4 DEF TwinInv
<1>9. OwnInv /\ HeldInv /\ KeptOut BY <1>2, <1>4 DEF OwnInv, HeldInv, KeptOut
<1>10. EndInv /\ TouchInv BY <1>2, <1>4 DEF EndInv, TouchInv
<1> QED BY <1>5, <1>6, <1>7, <1>8, <1>9, <1>10 DEF ScnInv

\* Every step keeps it.
LEMMA ScnKeeps ==
  ASSUME ProcessesApart, ScnInv, [ScenarioNext]_scenariovars PROVE ScnInv'
<1>1. CASE UNCHANGED scenariovars
  BY <1>1 DEF scenariovars, marks, ScnInv, ShapeInv, SiteShape, ProcInv, MutexInv, TwinInv,
     OwnInv, HeldInv, KeptOut, EndInv, TouchInv, Mine, HasFlag, Slips, GoesOn
<1>2. ASSUME NEW r \in Runs, RunStep(r) PROVE ScnInv'
  BY <1>2, QuietKeeps, TakeLockKeeps, ApplyKeeps, WriteFlagKeeps, BeginKeeps, CheckpointKeeps,
     ElapseKeeps, StepLocksKeeps, StepSetsKeeps, EndClearKeeps, UnjobKeeps DEF RunStep
<1>3. CASE Sweep \/ Stop \/ Shutdown
  BY <1>3, SweepKeeps, StopKeeps, KillKeeps DEF Shutdown
<1> QED BY <1>1, <1>2, <1>3, SubmitKeeps, WriterGateKeeps, WriterLockKeeps, WriterWritesKeeps,
           KillKeeps DEF ScenarioNext

(* The inductive invariant of the scenario runner, for any number of runs, writers
   and faults. *)
THEOREM ScnInvariant == ScenarioSpec => []ScnInv
<1>1. ProcessesApart
  BY ScenarioAssumption
<1>2. ScenarioInit => ScnInv
  BY <1>1, ScnStarts
<1>3. ScnInv /\ [ScenarioNext]_scenariovars => ScnInv'
  BY <1>1, ScnKeeps
<1> QED BY <1>2, <1>3, PTL DEF ScenarioSpec

(* DoneMeansAlone: a scenario that ends without `aborted` had the site to itself from
   its flag to its last set, except for who was let in before the flag was written or
   has the same name. *)
THEOREM DoneMeansAloneHolds == ScenarioSpec => []DoneMeansAlone
<1>1. ScnInv => DoneMeansAlone
  BY DEF ScnInv, TouchInv, DoneMeansAlone
<1> QED BY <1>1, ScnInvariant, PTL


\* A flag nobody has to account for: some end left one, or runs of that name overlapped.
Covered(n) == stuck # {} \/ \E q \in late : run[q].name = n
Carried(j) == \E r \in Runs : run[r].pc \in PastFlag /\ j.pid = run[r].pid /\ j.name = run[r].name
\* The flag on the site is dead, excused or that of a run under way; a run at its set puts
\* back its own, unless it is dead or excused.
FlagInv ==
    /\ site # None /\ site.job # None =>
         site.job.pid \in dead \/ Covered(site.job.name) \/ Carried(site.job)
    /\ \A q \in Runs : run[q].pc = "set" =>
         \/ run[q].prior.pid = run[q].pid \/ run[q].prior.pid \in dead
         \/ Covered(run[q].name)

\* What no step takes back.
Grows == /\ dead \subseteq dead' /\ late \subseteq late' /\ stuck \subseteq stuck'
         /\ \A q \in Runs : run[q].pc # "idle" =>
              run'[q].name = run[q].name /\ run'[q].pid = run[q].pid

\* An excuse lasts.
LEMMA CoverLasts ==
  ASSUME ScnInv, Grows, NEW n, Covered(n) PROVE Covered(n)'
<1>1. \A q \in late : q \in late' /\ run'[q].name = run[q].name
  BY DEF ScnInv, ShapeInv, TwinInv, Grows
<1>2. CASE stuck # {}
  BY <1>2 DEF Covered, Grows
<1>3. CASE \E q \in late : run[q].name = n
  BY <1>1, <1>3 DEF Covered
<1> QED BY <1>2, <1>3 DEF Covered

\* What run r's step makes of r, and of what only grows.
LEMMA OwnStepGrows ==
  ASSUME ScnInv, NEW r \in Runs, NEW u, run' = [run EXCEPT ![r] = u],
         u.name = run[r].name /\ u.pid = run[r].pid,
         dead \subseteq dead', late \subseteq late', stuck \subseteq stuck'
  PROVE  Grows
<1>1. run'[r] = u /\ \A q \in Runs : q # r => run'[q] = run[q]
  BY RunBecomes DEF ScnInv
<1> QED BY <1>1 DEF Grows

\* A step that writes no flag: who leaves his has lifted it, died, or left it stuck.
Leaves(r) == \/ run'[r].pc \in PastFlag \/ run[r].pid \in dead' \/ stuck' # {}
             \/ site'.job.pid # run[r].pid \/ site'.job.name # run[r].name

\* Steps that write no flag keep FlagInv.
LEMMA FlagStays ==
  ASSUME ScnInv, FlagInv, Grows,
         site' # None /\ site'.job # None => site # None /\ site.job # None /\ site'.job = site.job,
         site' # None /\ site'.job # None => \A r \in Runs : run[r].pc \in PastFlag => Leaves(r),
         \A q \in Runs : run'[q].pc = "set" => run[q].pc = "set" /\ run'[q].prior = run[q].prior
  PROVE  FlagInv'
<1>1. ASSUME site' # None, site'.job # None
      PROVE  site'.job.pid \in dead' \/ (Covered(site.job.name))' \/ (Carried(site.job))'
  <2>1. site # None /\ site.job # None /\ site'.job = site.job
    BY <1>1
  <2>2. CASE site.job.pid \in dead
    BY <2>1, <2>2 DEF Grows
  <2>3. CASE Covered(site.job.name)
    <3>1. PICK n : n = site.job.name
      OBVIOUS
    <3>2. Covered(n)'
      BY <2>3, <3>1, CoverLasts
    <3> QED BY <2>1, <3>1, <3>2
  <2>4. CASE Carried(site.job)
    <3>1. PICK r \in Runs : /\ run[r].pc \in PastFlag
                            /\ site.job.pid = run[r].pid /\ site.job.name = run[r].name
      BY <2>4 DEF Carried
    <3>2. run'[r].name = run[r].name /\ run'[r].pid = run[r].pid
      BY <3>1 DEF Grows, PastFlag, Driving, Waiting, Ending
    <3>3. Leaves(r)
      BY <1>1, <3>1
    <3>4. CASE run'[r].pc \in PastFlag
      BY <2>1, <3>1, <3>2, <3>4 DEF Carried
    <3>5. CASE stuck' # {}
      BY <3>5 DEF Covered
    <3> QED BY <2>1, <3>1, <3>3, <3>4, <3>5 DEF Leaves
  <2> QED BY <2>1, <2>2, <2>3, <2>4 DEF FlagInv
<1>2. ASSUME NEW q \in Runs, run'[q].pc = "set"
      PROVE  \/ run'[q].prior.pid = run'[q].pid \/ run'[q].prior.pid \in dead'
             \/ (Covered(run[q].name))'
  <2>1. run[q].pc = "set" /\ run'[q].prior = run[q].prior
    BY <1>2
  <2>2. run'[q].name = run[q].name /\ run'[q].pid = run[q].pid
    BY <2>1 DEF Grows
  <2>3. PICK n : n = run[q].name
    OBVIOUS
  <2>4. Covered(n) => Covered(n)'
    BY CoverLasts
  <2> QED BY <2>1, <2>2, <2>3, <2>4 DEF FlagInv, Grows
<1> QED BY <1>1, <1>2 DEF FlagInv

\* A step of r that keeps r where it is, before or after the flag, and writes none.
LEMMA OwnStepStays ==
  ASSUME ScnInv, FlagInv, NEW r \in Runs, NEW u, run' = [run EXCEPT ![r] = u],
         u.name = run[r].name /\ u.pid = run[r].pid, u.pc # "set",
         run[r].pc \in PastFlag => u.pc \in PastFlag,
         dead \subseteq dead', late \subseteq late', stuck \subseteq stuck',
         site' = site \/ site' = None \/ site'.job = None
  PROVE  FlagInv'
<1>0. run'[r] = u /\ \A q \in Runs : q # r => run'[q] = run[q]
  BY RunBecomes DEF ScnInv
<1>1. Grows
  BY OwnStepGrows
<1>2. \A q \in Runs : run[q].pc \in PastFlag => Leaves(q)
  BY <1>0 DEF Leaves
<1>3. \A q \in Runs : run'[q].pc = "set" => run[q].pc = "set" /\ run'[q].prior = run[q].prior
  BY <1>0
<1> QED BY <1>1, <1>2, <1>3, FlagStays

\* A step of others that writes no flag.
LEMMA OthersStay ==
  ASSUME ScnInv, FlagInv, UNCHANGED <<run, dead, late, stuck>>,
         site' # None /\ site'.job # None => site # None /\ site'.job = site.job
  PROVE  FlagInv'
<1>1. Grows
  BY DEF Grows
<1>2. \A q \in Runs : run[q].pc \in PastFlag => Leaves(q)
  BY DEF Leaves
<1> QED BY <1>1, <1>2, FlagStays

\* A change of place that writes no flag keeps FlagInv.
LEMMA GoesStays ==
  ASSUME ScnInv, FlagInv, NEW r \in Runs, NEW p, run' = [run EXCEPT ![r].pc = p], p # "set",
         run[r].pc \in PastFlag => p \in PastFlag, UNCHANGED <<dead, late, stuck>>,
         site' = site \/ site' = None \/ site'.job = None
  PROVE  FlagInv'
<1>1. PICK u : Moved(r, u, p)
  BY GotoIs DEF ScnInv
<1> QED BY <1>1, OwnStepStays DEF Moved

\* So does an abort.
LEMMA AbortStays ==
  ASSUME ScnInv, FlagInv, NEW r \in Runs, NEW how, run' = End(r, how),
         UNCHANGED <<dead, late, stuck, site>>
  PROVE  FlagInv'
<1>1. PICK u : Moved(r, u, "clear")
  BY EndIs DEF ScnInv
<1> QED BY <1>1, OwnStepStays DEF Moved, PastFlag, Ending

\* So do the steps of the start before the apply, checkpoints and the clear.
LEMMA QuietStays ==
  ASSUME ScnInv, FlagInv, NEW r \in Runs,
         \/ Gate(r) \/ DropCancel(r) \/ TakeLock(r) \/ EndClear(r)
         \/ EndUncancel(r) \/ Checkpoint(r)
  PROVE  FlagInv'
<1> USE DEF PastFlag, Driving, Waiting, Ending
<1>1. CASE Checkpoint(r)
  BY <1>1, AbortStays DEF Checkpoint, marks
<1>2. CASE \/ Gate(r) \/ DropCancel(r) \/ TakeLock(r) \/ EndClear(r)
           \/ EndUncancel(r)
  <2>1. UNCHANGED <<dead, late, stuck>> /\ (site' = site \/ site' = None)
    BY <1>2 DEF Gate, DropCancel, TakeLock, EndClear, EndUncancel, marks
  <2>2. PICK p : /\ run' = [run EXCEPT ![r].pc = p] /\ p # "set"
                 /\ run[r].pc \in PastFlag => p \in PastFlag
    BY <1>2 DEF Gate, DropCancel, TakeLock, EndClear, EndUncancel, Reaches
  <2> QED BY <2>1, <2>2, GoesStays
<1> QED BY <1>1, <1>2

\* So does the end of a wait.
LEMMA ElapseStays ==
  ASSUME ScnInv, FlagInv, NEW r \in Runs, Elapse(r) PROVE FlagInv'
<1> USE DEF PastFlag, Driving, Waiting, Ending
<1>1. /\ run[r].pc \in Waiting /\ UNCHANGED <<site, dead, late, stuck>>
      /\ \/ run[r].pc = "baseline" /\ run' = [run EXCEPT ![r].pc = "wait"]
         \/ run[r].pc = "wait" /\ run' = [run EXCEPT ![r].pc = "step"]
         \/ run[r].pc \in {"phase", "dwell"} /\ run' = [run EXCEPT ![r] = Advance(r)]
  BY DEF Elapse, marks
<1>2. CASE run' = [run EXCEPT ![r].pc = "wait"] \/ run' = [run EXCEPT ![r].pc = "step"]
  BY <1>1, <1>2, GoesStays
<1>3. CASE run' = [run EXCEPT ![r] = Advance(r)]
  <2>1. PICK u : u = Advance(r)
    OBVIOUS
  <2>2. /\ u.name = run[r].name /\ u.pid = run[r].pid
        /\ u.pc \in {"step", "wait", "dwell", "clear"}
    BY <2>1, Advances DEF ScnInv
  <2> QED BY <1>1, <1>3, <2>1, <2>2, OwnStepStays
<1> QED BY <1>1, <1>2, <1>3

\* So does the first apply.
LEMMA ApplyStays ==
  ASSUME ScnInv, FlagInv, NEW r \in Runs, ApplyFirst(r) PROVE FlagInv'
<1> USE DEF PastFlag, Driving, Waiting, Ending
<1>1. run[r].pc = "apply" /\ UNCHANGED <<dead, late, stuck>>
  BY DEF ApplyFirst
<1>2. CASE run' = [run EXCEPT ![r].pc = "refused"] /\ site' = site
  BY <1>1, <1>2, GoesStays
<1>3. ASSUME NEW s, site' = [spec |-> s, job |-> None],
             run' = [run EXCEPT ![r].pc = "flag", ![r].cur = s]
      PROVE  FlagInv'
  <2>1. PICK u : u = [run[r] EXCEPT !.pc = "flag", !.cur = s]
    OBVIOUS
  <2>2. /\ run' = [run EXCEPT ![r] = u] /\ u.pc = "flag"
        /\ u.name = run[r].name /\ u.pid = run[r].pid
    BY <1>3, <2>1 DEF ScnInv, ShapeInv, Fields
  <2> QED BY <1>1, <1>3, <2>2, OwnStepStays
<1> QED BY <1>2, <1>3 DEF ApplyFirst, Reaches

\* The flag that is written is that of a run under way.
LEMMA WriteFlagStays ==
  ASSUME ScnInv, FlagInv, NEW r \in Runs, WriteFlag(r) PROVE FlagInv'
<1> USE DEF PastFlag, Driving, Waiting, Ending
<1>1. run[r].pc = "flag" /\ UNCHANGED <<dead, stuck>>
  BY DEF WriteFlag
<1>2. CASE site = None
  <2>1. run' = [run EXCEPT ![r].pc = "refused"] /\ UNCHANGED <<site, late>>
    BY <1>2 DEF WriteFlag, Reaches
  <2> QED BY <1>1, <2>1, GoesStays
<1>3. CASE site # None
  <2>1. PICK j : /\ j = [name |-> run[r].name, pid |-> run[r].pid, done |-> 0]
                 /\ site' = [site EXCEPT !.job = j]
    BY <1>3 DEF WriteFlag, PidOf
  <2>2. run' = [run EXCEPT ![r].pc = "begin"] /\ late \subseteq late'
    BY <1>3 DEF WriteFlag, Reaches
  <2>3. PICK u : Moved(r, u, "begin")
    BY <2>2, GotoIs DEF ScnInv
  <2>0. run'[r] = u /\ \A q \in Runs : q # r => run'[q] = run[q]
    BY <2>3, RunBecomes DEF ScnInv, Moved
  <2>4. site'.job = j /\ j.name = run[r].name /\ j.pid = run[r].pid
    BY <1>3, <2>1 DEF ScnInv, ShapeInv, SiteShape
  <2>5. (Carried(site.job))'
    BY <2>0, <2>3, <2>4 DEF Carried, Moved
  <2>6. Grows
    BY <1>1, <2>2, <2>3, OwnStepGrows DEF Moved
  <2>7. ASSUME NEW q \in Runs, run'[q].pc = "set"
        PROVE  \/ run'[q].prior.pid = run'[q].pid \/ run'[q].prior.pid \in dead'
               \/ (Covered(run[q].name))'
    BY <1>1, <2>0, <2>3, <2>7 DEF Moved, ScnInv, MutexInv, Inside
  <2> QED BY <2>5, <2>7 DEF FlagInv
<1> QED BY <1>2, <1>3

\* The flag a step reads is its own, unless runs of that name overlap.
LEMMA StepLocksStays ==
  ASSUME ScnInv, FlagInv, NEW r \in Runs, StepLocks(r) PROVE FlagInv'
<1> USE DEF PastFlag, Driving, Waiting, Ending
<1>1. run[r].pc = "step" /\ UNCHANGED <<site, dead, late, stuck>>
  BY DEF StepLocks, marks
<1>2. CASE \E how \in {"lock-busy", "user"} : run' = End(r, how)
  BY <1>1, <1>2, AbortStays
<1>3. CASE /\ Owns(r)
           /\ run' = [run EXCEPT ![r].pc = "set",
                                 ![r].prior = [site.job EXCEPT !.done = run[r].line]]
  <2>1. PICK j : j = [site.job EXCEPT !.done = run[r].line]
    OBVIOUS
  <2>2. PICK u : u = [run[r] EXCEPT !.pc = "set", !.prior = j]
    OBVIOUS
  <2>3. Mine(r)
    BY <1>3 DEF Mine, HasFlag, Owns, LiveJob, job_alive
  <2>4. j.pid = site.job.pid
    BY <2>1, <2>3 DEF Mine, HasFlag, JobFields, ScnInv, ShapeInv, SiteShape
  <2>5. DOMAIN run[r] = Fields
    BY DEF ScnInv, ShapeInv
  <2>6. /\ run' = [run EXCEPT ![r] = u] /\ u.pc = "set" /\ u.prior = j
        /\ u.name = run[r].name /\ u.pid = run[r].pid
    BY <1>3, <2>1, <2>2, <2>5 DEF Fields
  <2>0. run'[r] = u /\ \A q \in Runs : q # r => run'[q] = run[q]
    BY <2>6, RunBecomes DEF ScnInv
  <2>7. Grows
    BY <1>1, <2>6, OwnStepGrows
  <2>8. Covered(run[r].name) \/ j.pid = run[r].pid
    <3>1. Covered(site.job.name) \/ Carried(site.job)
      BY <2>3 DEF Mine, HasFlag, FlagInv
    <3>2. CASE Carried(site.job)
      <4>1. PICK x \in Runs : /\ run[x].pc \in PastFlag /\ site.job.pid = run[x].pid
                              /\ run[r].name = run[x].name
        BY <2>3, <3>2 DEF Carried, Mine
      <4>2. x # r => r \in late
        BY <1>1, <4>1 DEF ScnInv, TwinInv
      <4> QED BY <2>4, <4>1, <4>2 DEF Covered
    <3> QED BY <2>3, <3>1, <3>2 DEF Mine
  <2>9. ASSUME NEW n, Covered(n) PROVE Covered(n)'
    BY <2>7, <2>9, CoverLasts
  <2>10. ASSUME NEW q \in Runs, run'[q].pc = "set"
         PROVE  \/ run'[q].prior.pid = run'[q].pid \/ run'[q].prior.pid \in dead'
                \/ (Covered(run[q].name))'
    <3>1. PICK n : n = run[q].name /\ n = run'[q].name
      BY <2>0, <2>6
    <3>2. Covered(n) => Covered(n)'
      BY <2>9
    <3>3. CASE q = r
      BY <2>0, <2>6, <2>8, <3>1, <3>2, <3>3
    <3>4. CASE q # r
      BY <1>1, <2>0, <2>10, <3>1, <3>2, <3>4 DEF FlagInv
    <3> QED BY <3>3, <3>4
  <2>11. ASSUME site # None, site.job # None
         PROVE  site.job.pid \in dead \/ (Covered(site.job.name))' \/ (Carried(site.job))'
    <3>1. Carried(site.job) => (Carried(site.job))'
      BY <1>1, <2>0, <2>6 DEF Carried
    <3>2. PICK n : n = site.job.name /\ n = site'.job.name
      BY <1>1
    <3>3. Covered(n) => Covered(n)'
      BY <2>9
    <3> QED BY <2>11, <3>1, <3>2, <3>3 DEF FlagInv
  <2> QED BY <1>1, <2>10, <2>11 DEF FlagInv
<1> QED BY <1>2, <1>3 DEF StepLocks

\* The flag a set puts back is its own, dead or excused.
LEMMA StepSetsStays ==
  ASSUME ScnInv, FlagInv, NEW r \in Runs, StepSets(r) PROVE FlagInv'
<1> USE DEF PastFlag, Driving, Waiting, Ending
<1>1. run[r].pc = "set" /\ UNCHANGED <<dead, stuck>>
  BY DEF StepSets
<1>2. CASE /\ \E how \in {"bad-param", "step-failed"} : run' = End(r, how)
           /\ UNCHANGED <<site, late>>
  BY <1>1, <1>2, AbortStays
<1>3. ASSUME NEW s, NEW u, site' = [spec |-> s, job |-> run[r].prior], late \subseteq late',
             run' = [run EXCEPT ![r] = u],
             \/ u = [run[r] EXCEPT !.cur = s, !.prior = None, !.pc = "phase"]
             \/ u = [Advance(r) EXCEPT !.cur = s, !.prior = None]
      PROVE  FlagInv'
  <2>0. run'[r] = u /\ \A q \in Runs : q # r => run'[q] = run[q]
    BY <1>3, RunBecomes DEF ScnInv
  <2>1. /\ DOMAIN u = Fields /\ u.name = run[r].name /\ u.pid = run[r].pid
        /\ u.pc \in {"phase", "wait", "step", "dwell", "clear"}
        /\ u.pc = "dwell" => ~(u.line < Len(u.plan.lines))
        /\ u.pc # "clear" => u.end = None
    <3>1. SetDone(r, s, u)
      BY <1>3 DEF SetDone
    <3>2. run[r].pc = "set"
      BY <1>1
    <3> QED BY <3>1, <3>2, AfterSet
  <2>2. PICK j : j = run[r].prior /\ j.name = run[r].name /\ j = site'.job
    BY <1>1, <1>3 DEF ScnInv, OwnInv
  <2>3. \A q \in Runs : run'[q].pc # "set"
    BY <1>1, <2>0, <2>1 DEF ScnInv, MutexInv, Inside
  <2>4. Grows
    BY <1>1, <1>3, <2>1, OwnStepGrows
  <2>5. PICK n : n = run[r].name
    OBVIOUS
  <2>6. Covered(n) => Covered(n)'
    BY <2>4, CoverLasts
  <2>7. j.pid = run[r].pid \/ j.pid \in dead \/ Covered(n)
    BY <1>1, <2>2, <2>5 DEF FlagInv
  <2>8. j.pid = run[r].pid => (Carried(site.job))'
    BY <2>0, <2>1, <2>2 DEF Carried
  <2> QED BY <1>1, <2>2, <2>3, <2>5, <2>6, <2>7, <2>8 DEF FlagInv
<1>4. PICK s : \/ /\ \E how \in {"bad-param", "step-failed"} : run' = End(r, how)
                  /\ UNCHANGED <<site, late>>
               \/ /\ site' = [spec |-> s, job |-> run[r].prior]
                  /\ late \subseteq late'
                  /\ run' = [run EXCEPT ![r] =
                       LET u == [@ EXCEPT !.cur = s, !.prior = None]
                       IN  IF Line(r).kind = "repeat" THEN [u EXCEPT !.pc = "phase"]
                           ELSE [Advance(r) EXCEPT !.cur = s, !.prior = None]]
  BY DEF StepSets
<1>5. DOMAIN run = Runs
  BY DEF ScnInv, ShapeInv
<1>6. CASE /\ site' = [spec |-> s, job |-> run[r].prior]
           /\ late \subseteq late'
           /\ run' = [run EXCEPT ![r] =
                LET u == [@ EXCEPT !.cur = s, !.prior = None]
                IN  IF Line(r).kind = "repeat" THEN [u EXCEPT !.pc = "phase"]
                    ELSE [Advance(r) EXCEPT !.cur = s, !.prior = None]]
  <2>1. PICK u : /\ run' = [run EXCEPT ![r] = u]
                 /\ \/ u = [run[r] EXCEPT !.cur = s, !.prior = None, !.pc = "phase"]
                    \/ u = [Advance(r) EXCEPT !.cur = s, !.prior = None]
    BY <1>5, <1>6
  <2> QED BY <1>3, <1>6, <2>1
<1> QED BY <1>2, <1>4, <1>6

\* A run that ends with its flag: lifted, stuck, or not its own any more.
LEMMA EndsStay ==
  ASSUME ScnInv, FlagInv, NEW r \in Runs, Begin(r) \/ EndUnjob(r) PROVE FlagInv'
<1> USE DEF PastFlag, Driving, Waiting, Ending
<1>1. UNCHANGED late /\ dead \subseteq dead' /\ stuck \subseteq stuck'
  BY DEF Begin, EndUnjob, Exited
<1>2. PICK p : run' = [run EXCEPT ![r].pc = p] /\ p # "set"
  BY DEF Begin, EndUnjob, Reaches
<1>3. PICK u : Moved(r, u, p)
  BY <1>2, GotoIs DEF ScnInv
<1>0. run'[r] = u /\ \A q \in Runs : q # r => run'[q] = run[q]
  BY <1>3, RunBecomes DEF ScnInv, Moved
<1>4. Grows
  BY <1>1, <1>3, OwnStepGrows DEF Moved
<1>5. /\ site' = site \/ (site # None /\ site'.job = None)
      /\ \/ p \in PastFlag \/ stuck' # {} \/ site'.job = None
         \/ /\ site' = site
            /\ ~(HasFlag /\ site.job.name = run[r].name /\ site.job.pid = run[r].pid)
  <2>1. CASE Begin(r)
    BY <1>2, <1>3, <1>0, <2>1 DEF Begin, Reaches, Moved, ScnInv, ShapeInv, Fields
  <2>2. CASE EndUnjob(r)
    BY <2>2 DEF EndUnjob, HasFlag, Owns, LiveJob, job_alive, PidOf, ScnInv,
       ShapeInv, SiteShape
  <2> QED BY <2>1, <2>2
<1>6. CASE site'.job = None
  <2>1. \A q \in Runs : run'[q].pc = "set" => run[q].pc = "set" /\ run'[q].prior = run[q].prior
    BY <1>0, <1>2, <1>3 DEF Moved
  <2> QED BY <1>4, <1>6, <2>1, FlagStays
<1>7. CASE site' = site /\ site'.job # None
  <2>1. \A q \in Runs : run'[q].pc = "set" => run[q].pc = "set" /\ run'[q].prior = run[q].prior
    BY <1>0, <1>2, <1>3 DEF Moved
  <2>2. site # None /\ site.job # None => \A q \in Runs : run[q].pc \in PastFlag => Leaves(q)
    BY <1>0, <1>1, <1>3, <1>5, <1>7 DEF Leaves, Moved, HasFlag
  <2> QED BY <1>4, <1>7, <2>1, <2>2, FlagStays
<1> QED BY <1>5, <1>6, <1>7

\* A launch keeps FlagInv.
LEMMA SubmitStays ==
  ASSUME ScnInv, FlagInv, NEW r \in Runs, NEW l, Submit(r, l) PROVE FlagInv'
<1>1. run[r].pc = "idle" /\ UNCHANGED <<site, dead, late, stuck>>
  BY DEF Submit, marks
<1>u. PICK u : /\ run' = [run EXCEPT ![r] = u]
               /\ \/ u = [Fresh EXCEPT !.pc = "refused"]
                  \/ \E p : u = [Fresh EXCEPT !.pc = "gate", !.name = l.name, !.keep = l.keep,
                                    !.pid = IF l.cli THEN r ELSE ServeProcess, !.plan = p]
  BY DEF Submit
<1>2. run' = [run EXCEPT ![r] = u] /\ u.pc \in {"refused", "gate"}
  BY <1>u DEF Fresh
<1>0. run'[r] = u /\ \A q \in Runs : q # r => run'[q] = run[q]
  BY <1>2, RunBecomes DEF ScnInv
<1>3. Grows
  BY <1>0, <1>1 DEF Grows
<1>4. \A q \in Runs : run[q].pc \in PastFlag => Leaves(q)
  BY <1>0, <1>1 DEF Leaves, PastFlag, Driving, Waiting, Ending
<1>5. \A q \in Runs : run'[q].pc = "set" => run[q].pc = "set" /\ run'[q].prior = run[q].prior
  BY <1>0, <1>2
<1> QED BY <1>1, <1>3, <1>4, <1>5, FlagStays

\* So do the writers, sweeps and stops.
LEMMA OutsideStays ==
  ASSUME ScnInv, FlagInv,
         \/ \E w \in Writers : \/ WriterLock(w) \/ WriterWrites(w)
                               \/ \E k \in Kinds : WriterGate(w, k)
         \/ Sweep \/ Stop \/ ShutdownStop \/ ShutdownAwait \/ ShutdownClear
  PROVE  FlagInv'
<1> USE DEF marks
<1>1. CASE \E w \in Writers : WriterLock(w) \/ \E k \in Kinds : WriterGate(w, k)
  BY <1>1, OthersStay DEF WriterLock, WriterGate
<1>2. ASSUME NEW w \in Writers, WriterWrites(w) PROVE FlagInv'
  <2>1. UNCHANGED <<run, dead, late, stuck>>
    BY <1>2 DEF WriterWrites
  <2>2. \/ UNCHANGED site
        \/ \E s, job : /\ site' = [spec |-> s, job |-> job]
                       /\ job = None \/ (job = site.job /\ site # None)
    BY <1>2 DEF WriterWrites
  <2> QED BY <2>1, <2>2, OthersStay
<1>3. CASE Sweep \/ ShutdownAwait \/ ShutdownClear
  BY <1>3, OthersStay DEF Sweep, ShutdownAwait, ShutdownClear
<1>4. CASE Stop \/ ShutdownStop
  <2>1. UNCHANGED <<run, dead, late, stuck>> /\ StopEffect
    BY <1>4 DEF Stop, ShutdownStop
  <2>2. UNCHANGED site \/ (site # None /\ site' = [site EXCEPT !.job = None])
    BY <2>1 DEF StopEffect
  <2>3. UNCHANGED site \/ site'.job = None
    BY <2>2 DEF ScnInv, ShapeInv, SiteShape
  <2> QED BY <2>1, <2>3, OthersStay
<1> QED BY <1>1, <1>2, <1>3, <1>4

\* So does a death: the flag of a dead owner is dead.
LEMMA DeathStays ==
  ASSUME ProcessesApart, ScnInv, FlagInv, NEW p \in Runs \cup {ServeProcess},
         Kill(p) \/ (p = ServeProcess /\ ShutdownExit)
  PROVE  FlagInv'
<1>1. /\ dead' = dead \cup {p} \cup {r \in Runs : Live(r) /\ PidOf(r) = p}
      /\ run' = [r \in Runs |-> IF Live(r) /\ PidOf(r) = p
                                THEN [run[r] EXCEPT !.pc = "killed"] ELSE run[r]]
      /\ UNCHANGED <<site, late, stuck>>
  BY DEF Kill, ShutdownExit, marks
<1>2. \A r \in Runs : \/ run[r].pid = p /\ run'[r] = [run[r] EXCEPT !.pc = "killed"]
                      \/ run'[r] = run[r]
  BY <1>1 DEF PidOf
<1>3. \A r \in Runs : DOMAIN run[r] = Fields
  BY DEF ScnInv, ShapeInv
<1>4. \A r \in Runs : /\ run'[r].name = run[r].name /\ run'[r].pid = run[r].pid
                      /\ run'[r].prior = run[r].prior
                      /\ run'[r].pc = run[r].pc \/ (run'[r].pc = "killed" /\ run[r].pid = p)
  BY <1>2, <1>3 DEF Fields
<1>5. dead \subseteq dead' /\ p \in dead'
  BY <1>1
<1>6. Grows
  BY <1>1, <1>4, <1>5 DEF Grows
<1>7. \A r \in Runs : run[r].pc \in PastFlag => Leaves(r)
  BY <1>4, <1>5 DEF Leaves
<1>8. \A q \in Runs : run'[q].pc = "set" => run[q].pc = "set" /\ run'[q].prior = run[q].prior
  BY <1>4
<1> QED BY <1>1, <1>6, <1>7, <1>8, FlagStays

\* Every step keeps FlagInv.
LEMMA FlagKeeps ==
  ASSUME ProcessesApart, ScnInv, FlagInv, [ScenarioNext]_scenariovars PROVE FlagInv'
<1>1. CASE UNCHANGED scenariovars
  BY <1>1, OthersStay DEF scenariovars, marks
<1>2. ASSUME NEW r \in Runs, RunStep(r) PROVE FlagInv'
  BY <1>2, QuietStays, ApplyStays, WriteFlagStays, EndsStay, ElapseStays, StepLocksStays,
     StepSetsStays DEF RunStep
<1>3. CASE Sweep \/ Stop \/ Shutdown
  BY <1>3, OutsideStays, DeathStays DEF Shutdown
<1>4. ASSUME NEW w \in Writers,
             WriterLock(w) \/ WriterWrites(w) \/ \E k \in Kinds : WriterGate(w, k)
      PROVE  FlagInv'
  BY <1>4, OutsideStays
<1> QED BY <1>1, <1>2, <1>3, <1>4, SubmitStays, DeathStays DEF ScenarioNext

(* FlagHasRun: a flag whose owner is alive is that of a run under way, unless the end of
   a run left it (stuck), or a run of the same name overlapped (late). *)
THEOREM FlagHasRunHolds == ScenarioSpec => []FlagHasRun
<1>1. ScenarioInit => FlagInv
  <2> SUFFICES ASSUME ScenarioInit PROVE FlagInv
    OBVIOUS
  <2>1. site = None /\ \A r \in Runs : run[r].pc = "idle"
    BY DEF ScenarioInit, Fresh
  <2> QED BY <2>1 DEF FlagInv
<1>2. ScnInv /\ FlagInv /\ [ScenarioNext]_scenariovars => FlagInv'
  BY FlagKeeps, ScenarioAssumption
<1>3. ScnInv /\ FlagInv => FlagHasRun
  <2> SUFFICES ASSUME ScnInv, FlagInv, LiveJob, stuck = {},
                      ~\E q \in late : run[q].name = site.job.name
               PROVE  \E r \in Runs : /\ Live(r) /\ site.job.pid = PidOf(r)
                                      /\ site.job.name = run[r].name
    BY DEF FlagHasRun
  <2>1. HasFlag
    BY DEF HasFlag, LiveJob, job_alive
  <2>2. PICK r \in Runs : /\ run[r].pc \in PastFlag
                          /\ site.job.pid = run[r].pid /\ site.job.name = run[r].name
    BY <2>1 DEF HasFlag, FlagInv, Covered, Carried
  <2>3. Live(r)
    BY <2>2, LiveIs DEF ScnInv, Under
  <2> QED BY <2>2, <2>3 DEF PidOf
<1> QED BY <1>1, <1>2, <1>3, ScnInvariant, PTL DEF ScenarioSpec

----------------------------------------------------------------------------
(***************************************************************************)
(* The plan of a scenario                                                  *)
(*                                                                         *)
(* Both properties of the plan need induction, over the lines of the dry   *)
(* run and over the times of the steps.  The library's induction theorems  *)
(* take the property as an operator; Induction takes the set of numbers    *)
(* that have it, and rests on the order of Nat being well-founded.         *)
(*                                                                         *)
(* Argument for DryRunSuffices.  Before each line the spec of a run is the *)
(* one the dry run had there (Before), so the merge of a step, and of the  *)
(* first on phase of a repeat, is one the dry run made.  The off phase     *)
(* leaves OffSpec whatever was there (OffIs), and an override that merged  *)
(* into anything merges into OffSpec (MergeAgain): the later rounds, which *)
(* the dry run leaves out, cannot fail.                                    *)
(***************************************************************************)

\* The order of the natural numbers as a set of pairs.
LEMMA LessWellFounded == IsWellFoundedOn({p \in Nat \X Nat : p[1] < p[2]}, Nat)
BY NatLessThanWellFounded, Zenon DEF OpToRel

\* A set of natural numbers has a smallest one.
LEMMA Smallest ==
  ASSUME NEW T, T \subseteq Nat, T # {}
  PROVE  \E x \in T : \A y \in T : x <= y
<1>1. PICK R : R = {p \in Nat \X Nat : p[1] < p[2]}
  OBVIOUS
<1>2. IsWellFoundedOn(R, Nat)
  BY <1>1, LessWellFounded
<1>3. PICK x \in T : \A y \in T : ~ (<<y, x>> \in R)
  BY <1>2, WFMin
<1>4. ASSUME NEW y \in T PROVE x <= y
  <2>1. x \in Nat /\ y \in Nat
    OBVIOUS
  <2>2. ~(<<y, x>> \in R)
    BY <1>3
  <2>3. y < x => <<y, x>> \in R
    BY <1>1, <2>1
  <2> QED BY <2>1, <2>2, <2>3
<1> QED BY <1>4

\* Induction, with the set of the numbers that have the property in place of it.
LEMMA Induction ==
  ASSUME NEW S, 0 \in S, \A n \in Nat : n \in S => n + 1 \in S
  PROVE  \A n \in Nat : n \in S
<1> SUFFICES ASSUME Nat \ S # {} PROVE FALSE
  OBVIOUS
<1>1. PICK x \in Nat \ S : \A y \in Nat \ S : x <= y
  BY Smallest
<1>2. x - 1 \in Nat /\ x - 1 \in S
  BY <1>1
<1> QED BY <1>1, <1>2

\* A step of the dry run from a spec that is there.
DryNext(s, line) == IF s = Error THEN Error ELSE DryLine(s, line)

\* DryRun is the function its recursion describes: it is built up line by line.
LEMMA DryRunIs ==
  ASSUME NEW plan, Len(plan.lines) \in Nat, NEW c, c = DryRun(plan)
  PROVE  /\ DOMAIN c = 0..Len(plan.lines)
         /\ c[0] = merge_step(DefaultSpec, first_override(plan))
         /\ \A i \in 1..Len(plan.lines) : c[i] = DryNext(c[i-1], plan.lines[i])
<1>1. PICK n, first, lines : /\ n = Len(plan.lines) /\ lines = plan.lines
                             /\ first = merge_step(DefaultSpec, first_override(plan))
  OBVIOUS
<1> DEFINE Upto(k, d) == d = [i \in 0..k |-> IF i = 0 THEN first ELSE DryNext(d[i-1], lines[i])]
           S == {k \in Nat : \E d : Upto(k, d)}
<1>2. 0 \in S
  <2>1. PICK d : d = [i \in 0..0 |-> first]
    OBVIOUS
  <2>2. Upto(0, d)
    BY <2>1
  <2> QED BY <2>2
<1>3. ASSUME NEW k \in Nat, k \in S PROVE k + 1 \in S
  <2>1. PICK d : Upto(k, d)
    BY <1>3
  <2>2. PICK e : e = [i \in 0..k+1 |-> IF i = k + 1 THEN DryNext(d[k], lines[k+1]) ELSE d[i]]
    OBVIOUS
  <2>3. /\ DOMAIN e = 0..k+1 /\ e[k+1] = DryNext(d[k], lines[k+1])
        /\ \A i \in 0..k : e[i] = d[i]
    BY <2>2
  <2>d. PICK dr : dr = [i \in 0..k |-> IF i = 0 THEN first ELSE DryNext(d[i-1], lines[i])]
    OBVIOUS
  <2>4. \A i \in 0..k : d[i] = IF i = 0 THEN first ELSE DryNext(d[i-1], lines[i])
    BY <2>1, <2>d
  <2>5. \A i \in 0..k+1 : e[i] = IF i = 0 THEN first ELSE DryNext(e[i-1], lines[i])
    <3> SUFFICES ASSUME NEW i \in 0..k+1
                 PROVE  e[i] = IF i = 0 THEN first ELSE DryNext(e[i-1], lines[i])
      OBVIOUS
    <3>1. CASE i = 0
      BY <2>3, <2>4, <3>1
    <3>2. CASE i # 0
      <4>1. i - 1 \in 0..k /\ (i # k + 1 => i \in 0..k) /\ (i = k + 1 => i - 1 = k)
        BY <3>2
      <4>2. e[i-1] = d[i-1]
        BY <2>3, <4>1
      <4> QED BY <2>3, <2>4, <3>2, <4>1, <4>2
    <3> QED BY <3>1, <3>2
  <2>6. PICK g : g = [i \in 0..k+1 |-> IF i = 0 THEN first ELSE DryNext(e[i-1], lines[i])]
    OBVIOUS
  <2>7. e = g
    <3>1. \A i \in 0..k+1 : e[i] = g[i]
      BY <2>5, <2>6
    <3>2. e = [i \in 0..k+1 |-> e[i]]
      BY <2>2
    <3>3. g = [i \in 0..k+1 |-> g[i]]
      BY <2>6
    <3>4. [i \in 0..k+1 |-> e[i]] = [i \in 0..k+1 |-> g[i]]
      BY <3>1
    <3> QED BY <3>2, <3>3, <3>4
  <2>8. Upto(k + 1, e)
    BY <2>6, <2>7
  <2> QED BY <2>8
<1>4. n \in S
  <2> HIDE DEF S
  <2> QED BY <1>1, <1>2, <1>3, Induction
<1>5. PICK d : Upto(n, d)
  BY <1>4
<1>6. c = CHOOSE f : f = [i \in 0..n |->
                IF i = 0 THEN first
                ELSE IF f[i-1] = Error THEN Error ELSE DryLine(f[i-1], lines[i])]
  BY <1>1, Zenon DEF DryRun
<1>7. Upto(n, c)
  BY <1>5, <1>6 DEF DryNext
<1> QED BY <1>1, <1>7

\* What a step may set, and what the off phase of a repeat leaves.
Overrides == [rtt : Int \cup {None}, loss : Nat \cup {None}, ge : BOOLEAN]
OffSpec == [rtt |-> 0, loss |-> <<"simple", 0>>]

\* What an accepted document makes of its steps and its repeat.
IsPlan(p, d) ==
  LET n == Len(d.steps) IN
  /\ d \in Docs /\ n \in Nat /\ (n > 0 \/ d.repeat # None)
  /\ DOMAIN p.lines = 1..Len(p.lines)
  /\ \A i \in 1..n : /\ p.lines[i].kind = "step" /\ p.lines[i].at = d.steps[i].at
                     /\ p.lines[i].ov \in Overrides
                     /\ d.steps[i].at \in Int
                     /\ i > 1 => d.steps[i].at > d.steps[i-1].at
  /\ d.repeat = None => Len(p.lines) = n
  /\ d.repeat # None => LET l == p.lines[n+1] IN
       /\ Len(p.lines) = n + 1 /\ l.kind = "repeat" /\ l.ov \in Overrides
       /\ l.rounds \in Nat /\ l.on \in Nat /\ l.off \in Nat
       /\ p.total \in Int /\ p.total >= l.rounds * (l.on + l.off)
  /\ d.repeat = None => p.total = d.steps[n].at + TAIL_SECS
  /\ p.baseline \in Int

\* The flags of a set mapping are an override.
LEMMA OverrideIs ==
  ASSUME NEW s \in Settings PROVE override_from(s) \in Overrides
BY DEF Settings, Overrides, override_from

\* The elements of a sequence.
LEMMA Elements ==
  ASSUME NEW S, NEW s \in Seq(S)
  PROVE  /\ Len(s) \in Nat /\ DOMAIN s = 1..Len(s)
         /\ \A i \in 1..Len(s) : s[i] \in S
OBVIOUS

\* A sequence with one more element.
LEMMA OneMore ==
  ASSUME NEW S, NEW s \in Seq(S), NEW x \in S, NEW t, t = s \o <<x>>
  PROVE  /\ t \in Seq(S) /\ Len(t) = Len(s) + 1
         /\ \A i \in 1..Len(s) : t[i] = s[i]
         /\ t[Len(s) + 1] = x
OBVIOUS

\* The longest of three times.
LEMMA MaxOfThree ==
  ASSUME NEW x \in Int, NEW y \in Int, NEW z \in Int, NEW m, m = Max({x, y, z})
  PROVE  m \in Int /\ m >= z
<1>1. \E k \in {x, y, z} : \A j \in {x, y, z} : k >= j
  <2>1. CASE x >= y /\ x >= z
    BY <2>1
  <2>2. CASE y >= x /\ y >= z
    BY <2>2
  <2>3. CASE z >= x /\ z >= y
    BY <2>3
  <2> QED BY <2>1, <2>2, <2>3
<1>2. m \in {x, y, z} /\ \A j \in {x, y, z} : m >= j
  BY <1>1 DEF Max
<1> QED BY <1>2

\* parse_plan_doc: what it accepts is a plan of the document.
LEMMA ParseIs ==
  ASSUME NEW d \in Docs, NEW p, p = parse_plan_doc(d), p # Error
  PROVE  IsPlan(p, d)
<1>1. PICK n, r, last, tail, long, step, rep :
        /\ n = Len(d.steps) /\ r = d.repeat
        /\ last = IF n = 0 THEN -1 ELSE d.steps[n].at
        /\ tail = IF n = 0 THEN 0 ELSE last + TAIL_SECS
        /\ long = IF r = None THEN tail ELSE Max({tail, last, r.rounds * (r.on + r.off)})
        /\ step = [i \in 1..n |-> [kind |-> "step", at |-> d.steps[i].at,
                                   ov |-> override_from(d.steps[i].set)]]
        /\ rep = IF r = None THEN << >>
                 ELSE << [kind |-> "repeat", rounds |-> r.rounds, on |-> r.on,
                          off |-> r.off, ov |-> override_from(r.set)] >>
  OBVIOUS
<1>2. /\ n > 0 \/ r # None
      /\ \A i \in 1..n : i > 1 => d.steps[i].at > d.steps[i-1].at
      /\ r # None => r.rounds > 0 /\ r.on >= 5 /\ r.off >= 5
      /\ p = [lines |-> step \o rep, total |-> long, clear |-> d.clear,
              baseline |-> IF d.baseline = None THEN long ELSE d.baseline]
  BY <1>1 DEF parse_plan_doc
<1>3. /\ n \in Nat
      /\ \A i \in 1..n : d.steps[i].at \in Int /\ d.steps[i].set \in Settings
      /\ r # None => r.rounds \in Int /\ r.on \in Int /\ r.off \in Int /\ r.set \in Settings
      /\ d.baseline # None => d.baseline \in Nat
  <2>1. /\ d.steps \in Seq([at : Int, set : Settings]) /\ d.baseline \in {None} \cup Nat
        /\ r \in {None} \cup [rounds : Int, on : Int, off : Int, set : Settings]
    <3>1. PICK A, B, C : /\ A = Seq([at : Int, set : Settings]) /\ B = {None} \cup Nat
                         /\ C = {None} \cup [rounds : Int, on : Int, off : Int, set : Settings]
      OBVIOUS
    <3>2. d \in [steps : A, repeat : C, baseline : B, clear : BOOLEAN]
      BY <3>1, Zenon DEF Docs
    <3>3. d.steps \in A /\ d.baseline \in B /\ d.repeat \in C
      BY <3>2
    <3> QED BY <1>1, <3>1, <3>3, Zenon
  <2>2. n \in Nat /\ \A i \in 1..n : d.steps[i] \in [at : Int, set : Settings]
    BY <1>1, <2>1, Elements, Zenon
  <2>3. \A i \in 1..n : d.steps[i].at \in Int /\ d.steps[i].set \in Settings
    BY <2>2
  <2> QED BY <2>1, <2>2, <2>3
<1>4. PICK lines : lines = step \o rep
  OBVIOUS
<1>5. p.lines = lines /\ p.total = long
      /\ p.baseline = IF d.baseline = None THEN long ELSE d.baseline
  BY <1>2, <1>4
<1>6. last \in Int /\ tail \in Int
  BY <1>1, <1>3 DEF TAIL_SECS
<1>7. r # None => /\ r.rounds * (r.on + r.off) \in Int
                  /\ long \in Int /\ long >= r.rounds * (r.on + r.off)
  <2> SUFFICES ASSUME r # None PROVE /\ r.rounds * (r.on + r.off) \in Int
                                     /\ long \in Int /\ long >= r.rounds * (r.on + r.off)
    OBVIOUS
  <2>1. PICK z : z = r.rounds * (r.on + r.off)
    OBVIOUS
  <2>2. z \in Int
    BY <1>3, <2>1
  <2>3. long = Max({tail, last, z})
    BY <1>1, <2>1
  <2> QED BY <1>6, <2>1, <2>2, <2>3, MaxOfThree
<1>8. long \in Int
  BY <1>1, <1>6, <1>7
<1>9. PICK x : x = [kind |-> "repeat", rounds |-> r.rounds, on |-> r.on,
                    off |-> r.off, ov |-> override_from(r.set)]
  OBVIOUS
<1>10. /\ DOMAIN lines = 1..Len(lines)
       /\ Len(lines) = IF r = None THEN n ELSE n + 1
       /\ \A i \in 1..n : lines[i] = step[i]
       /\ r # None => lines[n+1] = x
  <2>1. PICK S : S = {step[i] : i \in 1..n} \cup {x}
    OBVIOUS
  <2>2. \A i \in 1..n : step[i] \in S
    BY <2>1
  <2>3. step = [i \in 1..n |-> step[i]]
    BY <1>1
  <2>4. step \in Seq(S) /\ Len(step) = n
    BY <1>3, <2>2, <2>3
  <2>5. CASE r = None
    <3>1. lines = step \o << >>
      BY <1>1, <1>4, <2>5
    <3> QED BY <1>3, <2>4, <2>5, <3>1
  <2>6. CASE r # None
    <3>1. lines = step \o <<x>> /\ x \in S
      BY <1>1, <1>4, <1>9, <2>1, <2>6
    <3>2. /\ lines \in Seq(S) /\ Len(lines) = n + 1
          /\ \A i \in 1..n : lines[i] = step[i]
          /\ lines[n+1] = x
      BY <2>4, <3>1, OneMore
    <3>3. DOMAIN lines = 1..Len(lines)
      BY <3>2, Elements
    <3> QED BY <2>6, <3>2, <3>3
  <2> QED BY <2>5, <2>6
<1>a. \A i \in 1..n : /\ lines[i].kind = "step" /\ lines[i].at = d.steps[i].at
                      /\ lines[i].ov = override_from(d.steps[i].set)
  <2> SUFFICES ASSUME NEW i \in 1..n
               PROVE  /\ lines[i].kind = "step" /\ lines[i].at = d.steps[i].at
                      /\ lines[i].ov = override_from(d.steps[i].set)
    OBVIOUS
  <2>1. PICK a, o : a = d.steps[i].at /\ o = override_from(d.steps[i].set)
    OBVIOUS
  <2>2. step[i] = [kind |-> "step", at |-> d.steps[i].at, ov |-> override_from(d.steps[i].set)]
    <3>1. step = [j \in 1..n |-> [kind |-> "step", at |-> d.steps[j].at,
                                  ov |-> override_from(d.steps[j].set)]]
      BY <1>1, Zenon
    <3> QED BY <3>1, Zenon
  <2>3. lines[i] = [kind |-> "step", at |-> a, ov |-> o]
    BY <1>10, <2>1, <2>2, Zenon
  <2> QED BY <2>1, <2>3
<1>11. \A i \in 1..n : lines[i].ov \in Overrides
  BY <1>3, <1>a, OverrideIs
<1>12. r # None => override_from(r.set) \in Overrides
  BY <1>3, OverrideIs
<1>13. r = None => long = d.steps[n].at + TAIL_SECS
  <2>1. r = None => n # 0 /\ long = tail
    <3>1. long = IF r = None THEN tail ELSE Max({tail, last, r.rounds * (r.on + r.off)})
      BY <1>1, Zenon
    <3>2. n > 0 \/ r # None
      BY <1>2
    <3>3. r = None => n # 0
      BY <1>3, <3>2
    <3>4. r = None => long = tail
      BY <3>1, Zenon
    <3> QED BY <3>3, <3>4
  <2>2. n # 0 => tail = d.steps[n].at + TAIL_SECS
    <3>1. /\ last = IF n = 0 THEN -1 ELSE d.steps[n].at
          /\ tail = IF n = 0 THEN 0 ELSE last + TAIL_SECS
      BY <1>1, Zenon
    <3> QED BY <3>1, Zenon
  <2> QED BY <2>1, <2>2
<1>14. r # None => /\ lines[n+1].kind = "repeat" /\ lines[n+1].ov \in Overrides
                   /\ lines[n+1].rounds = r.rounds /\ lines[n+1].on = r.on
                   /\ lines[n+1].off = r.off
                   /\ r.rounds \in Nat /\ r.on \in Nat /\ r.off \in Nat
  BY <1>2, <1>3, <1>9, <1>10, <1>12
<1>15. p.baseline \in Int
  BY <1>3, <1>5, <1>8
<1> QED BY <1>1, <1>2, <1>3, <1>5, <1>7, <1>10, <1>11, <1>a, <1>13, <1>14, <1>15 DEF IsPlan

\* After the off phase nothing of what came before is left.
LEMMA OffIs ==
  ASSUME NEW s PROVE merge_step(s, OffOverride) = OffSpec /\ OffSpec # Error
<1>1. 0 # None /\ OffSpec \in Specs /\ Error \notin Specs
  BY ScenarioAssumption DEF OffSpec, Specs, Losses
<1> QED BY <1>1 DEF merge_step, OffOverride, OffSpec, validate

\* An override that merges into anything merges after an off phase.
LEMMA MergeAgain ==
  ASSUME NEW s, NEW ov \in Overrides, merge_step(s, ov) # Error
  PROVE  merge_step(OffSpec, ov) # Error
<1>1. None \notin Int /\ None \notin Losses /\ Error \notin Specs
  BY ScenarioAssumption
<1>2. PICK pct, loss, rtt :
        /\ pct = IF ov.loss # None THEN ov.loss ELSE 0
        /\ loss = IF ov.ge THEN <<"ge", pct>>
                  ELSE IF ov.loss # None THEN <<"simple", ov.loss>> ELSE <<"simple", 0>>
        /\ rtt = IF ov.rtt # None THEN ov.rtt ELSE 0
  OBVIOUS
<1>3. pct \in Nat /\ rtt \in Int /\ loss \in Losses /\ loss[2] = pct
  BY <1>1, <1>2 DEF Overrides, Losses
<1>4. PICK t : t = [rtt |-> rtt, loss |-> loss]
  OBVIOUS
<1>5. t \in Specs /\ t # Error
  BY <1>1, <1>3, <1>4 DEF Specs
<1>6. merge_step(OffSpec, ov) = IF (ov.ge /\ pct = None) \/ ~validate(t) THEN Error ELSE t
  <2>1. OffSpec.rtt = 0 /\ OffSpec.loss = <<"simple", 0>> /\ <<"simple", 0>>[2] = 0
        /\ <<"simple", 0>> # None
    BY <1>1 DEF OffSpec, Losses
  <2> QED BY <1>1, <1>2, <1>4, <2>1 DEF merge_step
<1>7. validate(t)
  <2>1. rtt <= 2000
    BY <1>1, <1>2 DEF merge_step, validate
  <2>2. pct <= 100
    <3>1. CASE ov.loss = None
      BY <1>2, <3>1
    <3>2. CASE ov.loss # None
      <4>1. ov.loss \in Nat
        BY <3>2 DEF Overrides
      <4>2. PICK l2 : l2 = IF ov.ge THEN <<"ge", ov.loss>> ELSE <<"simple", ov.loss>>
        OBVIOUS
      <4>3. l2[2] = ov.loss /\ l2 # None
        <5>1. l2 \in Losses
          BY <4>1, <4>2 DEF Losses
        <5> QED BY <1>1, <4>2, <5>1
      <4> QED BY <1>2, <3>2, <4>1, <4>2, <4>3 DEF merge_step, validate
    <3> QED BY <3>1, <3>2
  <2> QED BY <1>3, <1>4, <2>1, <2>2 DEF validate
<1> QED BY <1>1, <1>3, <1>5, <1>6, <1>7

\* The plan of run u comes from a document, has passed the dry run, has the line u is at.
Planned(u) == \E l \in Launches : IsPlan(u.plan, l.doc)
Tried(u) == DryRun(u.plan)[Len(u.plan.lines)] # Error
AtLine(u) == u.line \in 1..Len(u.plan.lines)
Kind(u) == u.plan.lines[u.line].kind
\* The run is where the dry run was before this line; or in a round of a repeat.
Before(u) == u.phase = "on" /\ u.cur = DryRun(u.plan)[u.line - 1]
Ready(u) == \/ Before(u)
            \/ Kind(u) = "repeat" /\ (u.phase = "off" \/ (u.phase = "on" /\ u.cur = OffSpec))
\* The places of a run that has a plan; what is known of it at each of them.
Going == {"gate", "fresh", "lock", "apply", "flag", "begin"} \cup Driving
DryOK(u) ==
  /\ u.end # "bad-param"
  /\ u.plan = None \/ Planned(u)
  /\ u.pc \in Going => Planned(u)
  /\ u.pc \in {"gate", "fresh", "lock", "apply"} => u.line = 1 /\ u.phase = "on"
  /\ u.pc \in {"lock", "apply", "flag", "begin"} \cup Driving => Tried(u)
  /\ u.pc \in {"flag", "begin", "baseline", "wait"} => AtLine(u) /\ Before(u)
  /\ u.pc \in {"step", "set"} => AtLine(u) /\ Ready(u)
  /\ u.pc = "phase" => /\ AtLine(u) /\ Kind(u) = "repeat"
                       /\ u.phase = "on" \/ (u.phase = "off" /\ u.cur = OffSpec)
DryInv == \A r \in Runs : DryOK(run[r])

\* The lines of a plan.
LEMMA PlanLines ==
  ASSUME NEW p, NEW d, IsPlan(p, d)
  PROVE  /\ Len(p.lines) \in Nat /\ Len(p.lines) >= 1
         /\ \A i \in 1..Len(p.lines) : /\ p.lines[i].kind \in {"step", "repeat"}
                                       /\ p.lines[i].ov \in Overrides
<1>1. PICK n, m, lines : n = Len(d.steps) /\ m = Len(p.lines) /\ lines = p.lines
  OBVIOUS
<1>2. /\ n \in Nat /\ (n > 0 \/ d.repeat # None)
      /\ \A i \in 1..n : lines[i].kind = "step" /\ lines[i].ov \in Overrides
      /\ d.repeat = None => m = n
      /\ d.repeat # None => m = n + 1 /\ lines[n+1].kind = "repeat" /\ lines[n+1].ov \in Overrides
  BY <1>1 DEF IsPlan
<1> QED BY <1>1, <1>2

\* A dry run that comes to its end has a spec after every line.
LEMMA TriedAll ==
  ASSUME NEW p, NEW n, n = Len(p.lines), n \in Nat, NEW c, c = DryRun(p), c[n] # Error
  PROVE  \A i \in 0..n : c[i] # Error
<1>1. \A i \in 1..n : c[i] = DryNext(c[i-1], p.lines[i])
  BY DryRunIs
<1> DEFINE S == {k \in Nat : k <= n => c[n-k] # Error}
<1>2. 0 \in S
  OBVIOUS
<1>3. ASSUME NEW k \in Nat, k \in S PROVE k + 1 \in S
  <2> SUFFICES ASSUME k + 1 <= n PROVE c[n - (k + 1)] # Error
    OBVIOUS
  <2>1. n - k \in 1..n /\ (n - k) - 1 = n - (k + 1) /\ c[n-k] # Error
    BY <1>3
  <2>2. c[n-k] = DryNext(c[(n-k)-1], p.lines[n-k])
    BY <1>1, <2>1
  <2> QED BY <2>1, <2>2 DEF DryNext
<1>4. \A k \in Nat : k \in S
  <2> HIDE DEF S
  <2> QED BY <1>2, <1>3, Induction
<1>5. ASSUME NEW i \in 0..n PROVE c[i] # Error
  <2>1. n - i \in Nat /\ n - i <= n /\ n - (n - i) = i
    OBVIOUS
  <2> QED BY <1>4, <2>1
<1> QED BY <1>5

\* The merge of a run at its set succeeds, and brings it where the dry run was.
LEMMA SetSucceeds ==
  ASSUME NEW u, Planned(u), Tried(u), AtLine(u), Ready(u), NEW s,
         s = merge_step(u.cur, IF Kind(u) = "repeat" /\ u.phase = "off" THEN OffOverride
                               ELSE u.plan.lines[u.line].ov)
  PROVE  /\ s # Error
         /\ Kind(u) \in {"step", "repeat"}
         /\ Kind(u) = "step" => s = DryRun(u.plan)[u.line]
         /\ Kind(u) = "repeat" => DryRun(u.plan)[u.line] = OffSpec
         /\ Kind(u) = "repeat" /\ u.phase = "off" => s = OffSpec
<1>1. PICK d : IsPlan(u.plan, d)
  BY DEF Planned
<1>2. PICK n, c, i, line : /\ n = Len(u.plan.lines) /\ c = DryRun(u.plan) /\ i = u.line
                           /\ line = u.plan.lines[u.line]
  OBVIOUS
<1>3. /\ n \in Nat /\ i \in 1..n /\ line.kind \in {"step", "repeat"} /\ line.ov \in Overrides
      /\ Kind(u) = line.kind
  BY <1>1, <1>2, PlanLines DEF AtLine, Kind
<1>4. c[i] = DryNext(c[i-1], line) /\ c[i] # Error /\ c[i-1] # Error
  <2>1. c[n] # Error
    BY <1>2 DEF Tried
  <2>2. \A j \in 0..n : c[j] # Error
    BY <1>2, <1>3, <2>1, TriedAll
  <2>3. \A j \in 1..n : c[j] = DryNext(c[j-1], u.plan.lines[j])
    BY <1>2, <1>3, DryRunIs
  <2>4. i - 1 \in 0..n /\ i \in 0..n
    BY <1>3
  <2> QED BY <1>2, <1>3, <2>2, <2>3, <2>4
<1>5. PICK on : on = merge_step(c[i-1], line.ov)
  OBVIOUS
<1>6. c[i] = IF line.kind = "step" \/ on = Error THEN on ELSE merge_step(on, OffOverride)
  BY <1>4, <1>5 DEF DryNext, DryLine
<1>7. on # Error
  BY <1>4, <1>6
<1>8. /\ line.kind = "step" => c[i] = on
      /\ line.kind = "repeat" => c[i] = OffSpec
  BY <1>6, <1>7, OffIs
<1>9. CASE Before(u)
  <2>1. s = on /\ u.phase = "on"
    BY <1>2, <1>3, <1>5, <1>9 DEF Before
  <2> QED BY <1>2, <1>3, <1>7, <1>8, <2>1
<1>10. CASE Kind(u) = "repeat" /\ u.phase = "off"
  <2>1. s = OffSpec /\ OffSpec # Error
    BY <1>10, OffIs
  <2> QED BY <1>2, <1>3, <1>8, <1>10, <2>1
<1>11. CASE Kind(u) = "repeat" /\ u.phase = "on" /\ u.cur = OffSpec
  <2>1. s = merge_step(OffSpec, line.ov)
    BY <1>2, <1>11
  <2>2. s # Error
    BY <1>3, <1>5, <1>7, <2>1, MergeAgain
  <2> QED BY <1>2, <1>3, <1>8, <1>11, <2>2
<1> QED BY <1>9, <1>10, <1>11 DEF Ready

\* The moves of a run that leave its spec and its place in the plan alone.
Follows(p, q) ==
  \/ q \in {"refused", "clear", "uncancel", "unjob", "over", "killed"}
  \/ q = "fresh" /\ p = "gate"
  \/ q = "apply" /\ p = "lock"
  \/ q = "begin" /\ p = "flag"
  \/ q \in {"baseline", "wait"} /\ p \in {"begin", "baseline"}
  \/ q = "step" /\ p = "wait"
  \/ q = "set" /\ p = "step"
Same(u, v) == v.line = u.line /\ v.phase = u.phase /\ v.cur = u.cur /\ v.plan = u.plan

\* Such a move keeps what is known of the run; `lock` is reached by the dry run.
LEMMA FollowsOK ==
  ASSUME NEW u, NEW v, DryOK(u), Same(u, v), v.end # "bad-param",
         \/ Follows(u.pc, v.pc)
         \/ u.pc = "fresh" /\ v.pc = "lock" /\ Tried(u)
  PROVE  DryOK(v)
<1>1. /\ Planned(u) <=> Planned(v)
      /\ Tried(u) <=> Tried(v)
      /\ AtLine(u) <=> AtLine(v)
      /\ Before(u) <=> Before(v)
      /\ u.pc # "phase" => (Before(u) => Ready(v)) /\ (Ready(u) => Ready(v))
  BY DEF Same, Planned, Tried, AtLine, Before, Ready, Kind
<1>2. v.plan = None <=> u.plan = None
  BY DEF Same
<1> QED BY <1>1, <1>2, Zenon DEF DryOK, Follows, Going, Driving, Waiting, Same

\* A run that leaves line i behind, its spec that of the dry run after i.
LEMMA NextLineOK ==
  ASSUME NEW u, NEW v, Planned(u), Tried(u), AtLine(u), v.plan = u.plan,
         v.line = u.line + 1, u.line < Len(u.plan.lines), v.phase = "on", v.pc = "wait",
         v.cur = DryRun(u.plan)[u.line], v.end # "bad-param"
  PROVE  DryOK(v)
<1>1. PICK d : IsPlan(u.plan, d)
  BY DEF Planned
<1>2. Len(u.plan.lines) \in Nat /\ u.line \in 1..Len(u.plan.lines)
  BY <1>1, PlanLines DEF AtLine
<1>3. AtLine(v) /\ (u.line + 1) - 1 = u.line
  BY <1>2 DEF AtLine
<1>4. Before(v) /\ Tried(v) /\ Planned(v)
  BY <1>3 DEF Before, Tried, Planned
<1> QED BY <1>3, <1>4 DEF DryOK

\* A step of one run.
LEMMA OneRunDry ==
  ASSUME ShapeInv, DryInv, NEW r \in Runs, NEW v, run' = [run EXCEPT ![r] = v], DryOK(v)
  PROVE  DryInv'
<1>1. run'[r] = v /\ \A q \in Runs : q # r => run'[q] = run[q]
  BY RunBecomes
<1>2. ASSUME NEW q \in Runs PROVE DryOK(run'[q])
  <2>1. CASE q = r
    BY <1>1, <2>1
  <2>2. CASE q # r
    BY <1>1, <2>2 DEF DryInv
  <2> QED BY <2>1, <2>2
<1>3. DryInv' <=> \A q \in Runs : DryOK(run'[q])
  BY DEF DryInv, DryOK, Planned, Tried, AtLine, Before, Ready, Kind, Going, Driving, Waiting
<1> QED BY <1>2, <1>3

\* Steps that leave the place in the plan alone, aborts included.
LEMMA GoesDry ==
  ASSUME ShapeInv, DryInv, NEW r \in Runs, NEW p, run' = [run EXCEPT ![r].pc = p],
         \/ Follows(run[r].pc, p)
         \/ run[r].pc = "fresh" /\ p = "lock" /\ Tried(run[r])
  PROVE  DryInv'
<1>1. PICK u, v : u = run[r] /\ v = [u EXCEPT !.pc = p]
  OBVIOUS
<1>2. DOMAIN u = Fields /\ DryOK(u)
  BY <1>1 DEF ShapeInv, DryInv
<1>3. v.pc = p /\ Same(u, v) /\ v.end = u.end
  BY <1>1, <1>2 DEF Same, Fields
<1>4. DryOK(v)
  <2>1. v.end # "bad-param"
    BY <1>2, <1>3 DEF DryOK
  <2> QED BY <1>1, <1>2, <1>3, <2>1, FollowsOK
<1>5. run' = [run EXCEPT ![r] = v]
  BY <1>1
<1> QED BY <1>4, <1>5, OneRunDry

\* An abort with any reason but a bad parameter.
LEMMA AbortDry ==
  ASSUME ShapeInv, DryInv, NEW r \in Runs, NEW how, run' = End(r, how), how # "bad-param"
  PROVE  DryInv'
<1>1. PICK u, v : u = run[r] /\ v = [u EXCEPT !.pc = "clear", !.end = how]
  OBVIOUS
<1>2. DOMAIN u = Fields /\ DryOK(u)
  BY <1>1 DEF ShapeInv, DryInv
<1>3. v.pc = "clear" /\ Same(u, v) /\ v.end = how
  BY <1>1, <1>2 DEF Same, Fields
<1>4. DryOK(v)
  <2>1. Follows(u.pc, v.pc) /\ v.end # "bad-param"
    BY <1>3 DEF Follows
  <2> QED BY <1>2, <1>3, <2>1, FollowsOK
<1>5. run' = [run EXCEPT ![r] = v]
  BY <1>1 DEF End
<1> QED BY <1>4, <1>5, OneRunDry

\* Nobody but the run itself.
LEMMA RunsSameDry == ASSUME DryInv, run' = run PROVE DryInv'
BY DEF DryInv, DryOK, Planned, Tried, AtLine, Before, Ready, Kind, Going, Driving, Waiting

\* A launch: a refused document leaves no plan.
LEMMA SubmitDry ==
  ASSUME ShapeInv, DryInv, NEW r \in Runs, NEW l \in Launches, Submit(r, l) PROVE DryInv'
<1>1. PICK plan : plan = parse_plan_doc(l.doc)
  OBVIOUS
<1>2. PICK v : /\ run' = [run EXCEPT ![r] = v]
               /\ \/ plan = Error /\ v = [Fresh EXCEPT !.pc = "refused"]
                  \/ /\ plan # Error
                     /\ v = [Fresh EXCEPT !.pc = "gate", !.name = l.name, !.keep = l.keep,
                                          !.pid = IF l.cli THEN r ELSE ServeProcess, !.plan = plan]
  BY <1>1 DEF Submit
<1>3. /\ v.end = None /\ v.line = 1 /\ v.phase = "on" 
      /\ \/ v.pc = "refused" /\ v.plan = None
         \/ v.pc = "gate" /\ v.plan = plan /\ plan # Error
  BY <1>2 DEF Fresh
<1>4. v.pc = "gate" => Planned(v)
  <2>1. l.doc \in Docs
    BY ScenarioAssumption
  <2> QED BY <1>1, <1>3, <2>1, ParseIs DEF Planned
<1>5. None # "bad-param"
  BY ScenarioAssumption DEF ProcessesApart
<1>6. DryOK(v)
  BY <1>3, <1>4, <1>5 DEF DryOK, Going, Driving, Waiting
<1> QED BY <1>2, <1>6, OneRunDry

\* The first apply installs what the dry run started from.
LEMMA ApplyDry ==
  ASSUME ShapeInv, DryInv, NEW r \in Runs, ApplyFirst(r) PROVE DryInv'
<1>1. PICK u, s : u = run[r] /\ s = merge_step(DefaultSpec, first_override(u.plan))
  OBVIOUS
<1>2. u.pc = "apply" /\ DOMAIN u = Fields /\ DryOK(u)
  BY <1>1 DEF ShapeInv, DryInv, ApplyFirst
<1>3. CASE run' = [run EXCEPT ![r].pc = "refused"]
  BY <1>3, GoesDry DEF Follows
<1>4. CASE run' = [run EXCEPT ![r].pc = "flag", ![r].cur = s]
  <2>1. PICK v : v = [u EXCEPT !.pc = "flag", !.cur = s]
    OBVIOUS
  <2>2. /\ v.pc = "flag" /\ v.cur = s /\ v.end = u.end /\ v.line = u.line
        /\ v.phase = u.phase /\ v.plan = u.plan
    BY <1>2, <2>1 DEF Fields
  <2>3. Planned(u) /\ Tried(u) /\ u.line = 1 /\ u.phase = "on" /\ u.end # "bad-param"
    BY <1>2 DEF DryOK, Going
  <2>4. PICK d : IsPlan(u.plan, d)
    BY <2>3 DEF Planned
  <2>5. Len(u.plan.lines) \in Nat /\ Len(u.plan.lines) >= 1
    BY <2>4, PlanLines
  <2>6. PICK c : c = DryRun(u.plan)
    OBVIOUS
  <2>7. c[0] = s
    BY <1>1, <2>5, <2>6, DryRunIs
  <2>8. AtLine(v) /\ Before(v)
    BY <2>2, <2>3, <2>5, <2>6, <2>7 DEF AtLine, Before
  <2>9. Planned(v) /\ Tried(v)
    BY <2>2, <2>3 DEF Planned, Tried
  <2>10. DryOK(v)
    BY <2>2, <2>3, <2>8, <2>9 DEF DryOK
  <2>11. run' = [run EXCEPT ![r] = v]
    BY <1>1, <1>4, <2>1
  <2> QED BY <2>10, <2>11, OneRunDry
<1> QED BY <1>1, <1>3, <1>4 DEF ApplyFirst, Reaches

\* What Advance makes of a run, in terms of its line, phase and spec.
LEMMA AdvanceIs ==
  ASSUME ShapeInv, NEW r \in Runs, NEW u, u = run[r], NEW v, v = Advance(r)
  PROVE  /\ DOMAIN v = Fields /\ v.plan = u.plan /\ v.cur = u.cur
         /\ v.end = u.end \/ v.end = "done"
         /\ \/ u.pc = "phase" /\ v.phase = "off" /\ v.pc = "step" /\ v.line = u.line
               /\ u.phase = "on"
            \/ u.pc = "phase" /\ u.phase # "on" /\ v.phase = "on" /\ v.pc = "step"
               /\ v.line = u.line
            \/ ~(u.pc = "phase" /\ u.phase = "on") /\ u.line < Len(u.plan.lines)
               /\ v.line = u.line + 1 /\ v.pc = "wait" /\ v.phase = "on"
            \/ v.pc \in {"dwell", "clear"}
<1>1. DOMAIN u = Fields
  BY DEF ShapeInv
<1> QED BY <1>1 DEF Advance, Line, Fields

\* Ends of a wait and of a step: the next phase, round or line.
LEMMA AdvanceDry ==
  ASSUME ShapeInv, EndInv, DryInv, NEW r \in Runs, NEW u, u = run[r],
         u.pc \in {"phase", "dwell"}, NEW v, v = Advance(r)
  PROVE  DryOK(v)
<1>1. /\ v.plan = u.plan /\ v.cur = u.cur
      /\ v.end = u.end \/ v.end = "done"
      /\ \/ u.pc = "phase" /\ v.phase = "off" /\ v.pc = "step" /\ v.line = u.line
            /\ u.phase = "on"
         \/ u.pc = "phase" /\ u.phase # "on" /\ v.phase = "on" /\ v.pc = "step"
            /\ v.line = u.line
         \/ ~(u.pc = "phase" /\ u.phase = "on") /\ u.line < Len(u.plan.lines)
            /\ v.line = u.line + 1 /\ v.pc = "wait" /\ v.phase = "on"
         \/ v.pc \in {"dwell", "clear"}
  BY AdvanceIs
<1>2. DryOK(u) /\ v.end # "bad-param" /\ Planned(u) /\ Tried(u)
  BY <1>1 DEF DryInv, DryOK, Going, Driving, Waiting
<1>3. Planned(v) /\ Tried(v)
  BY <1>1, <1>2 DEF Planned, Tried
<1>4. CASE v.pc \in {"dwell", "clear"}
  BY <1>2, <1>3, <1>4 DEF DryOK
<1>5. u.pc = "phase" => /\ AtLine(u) /\ Kind(u) = "repeat"
                        /\ u.phase = "on" \/ (u.phase = "off" /\ u.cur = OffSpec)
  BY <1>2 DEF DryOK
<1>6. CASE v.pc = "step"
  <2>1. AtLine(v) /\ Kind(v) = "repeat"
    BY <1>1, <1>5, <1>6 DEF AtLine, Kind
  <2>2. Ready(v)
    BY <1>1, <1>5, <1>6, <2>1 DEF Ready
  <2> QED BY <1>2, <1>3, <1>6, <2>1, <2>2 DEF DryOK
<1>7. CASE v.pc = "wait"
  <2>1. u.pc = "phase"
    BY <1>1, <1>7 DEF EndInv
  <2>2. AtLine(u) /\ Kind(u) = "repeat" /\ u.phase = "off" /\ u.cur = OffSpec
    BY <1>1, <1>5, <1>7, <2>1
  <2>3. Ready(u)
    BY <2>2 DEF Ready
  <2>4. PICK s : s = merge_step(u.cur, IF Kind(u) = "repeat" /\ u.phase = "off"
                                       THEN OffOverride ELSE u.plan.lines[u.line].ov)
    OBVIOUS
  <2>5. DryRun(u.plan)[u.line] = OffSpec
    BY <1>2, <2>2, <2>3, <2>4, SetSucceeds
  <2> QED BY <1>1, <1>2, <1>7, <2>1, <2>2, <2>5, NextLineOK
<1> QED BY <1>1, <1>4, <1>6, <1>7

\* A set: the merge cannot fail, and the next line starts where the dry run did.
LEMMA SetDry ==
  ASSUME ShapeInv, DryInv, NEW r \in Runs, StepSets(r) PROVE DryInv'
<1>1. PICK u, s : u = run[r] /\ s = merge_step(u.cur, Override(r))
  OBVIOUS
<1>2. u.pc = "set" /\ DOMAIN u = Fields /\ DryOK(u)
  BY <1>1 DEF ShapeInv, DryInv, StepSets
<1>3. Planned(u) /\ Tried(u) /\ AtLine(u) /\ Ready(u) /\ u.end # "bad-param"
  BY <1>2 DEF DryOK, Going, Driving, Waiting
<1>4. /\ Line(r) = u.plan.lines[u.line] /\ Kind(u) = Line(r).kind
      /\ Override(r) = IF Kind(u) = "repeat" /\ u.phase = "off" THEN OffOverride
                       ELSE u.plan.lines[u.line].ov
  BY <1>1 DEF Override, Line, Kind
<1>5. /\ s # Error /\ Kind(u) \in {"step", "repeat"}
      /\ Kind(u) = "step" => s = DryRun(u.plan)[u.line]
      /\ Kind(u) = "repeat" /\ u.phase = "off" => s = OffSpec
  BY <1>1, <1>3, <1>4, SetSucceeds
<1>6. CASE run' = End(r, "step-failed")
  BY <1>6, AbortDry
<1>7. CASE Kind(u) = "repeat" /\ run' = [run EXCEPT ![r] = [u EXCEPT !.cur = s, !.prior = None, !.pc = "phase"]]
  <2>1. PICK v : v = [u EXCEPT !.cur = s, !.prior = None, !.pc = "phase"]
    OBVIOUS
  <2>2. /\ v.pc = "phase" /\ v.cur = s /\ v.end = u.end /\ v.line = u.line
        /\ v.phase = u.phase /\ v.plan = u.plan
    BY <1>2, <2>1 DEF Fields
  <2>3. Planned(v) /\ Tried(v) /\ AtLine(v) /\ Kind(v) = "repeat" /\ v.end # "bad-param"
    BY <1>3, <1>7, <2>2 DEF Planned, Tried, AtLine, Kind
  <2>4. u.phase \in {"on", "off"}
    BY <1>3 DEF Ready, Before
  <2>5. DryOK(v)
    BY <1>5, <1>7, <2>2, <2>3, <2>4 DEF DryOK
  <2> QED BY <1>7, <2>1, <2>5, OneRunDry
<1>8. CASE Kind(u) = "step" /\ run' = [run EXCEPT ![r] = [Advance(r) EXCEPT !.cur = s, !.prior = None]]
  <2>1. PICK w, v : w = Advance(r) /\ v = [w EXCEPT !.cur = s, !.prior = None]
    OBVIOUS
  <2>2. /\ DOMAIN w = Fields /\ w.plan = u.plan
        /\ w.end = u.end \/ w.end = "done"
        /\ \/ /\ u.line < Len(u.plan.lines)
              /\ w.line = u.line + 1 /\ w.pc = "wait" /\ w.phase = "on"
           \/ w.pc \in {"dwell", "clear"}
    BY <1>1, <1>2, <2>1, AdvanceIs
  <2>3. /\ v.pc = w.pc /\ v.cur = s /\ v.end = w.end /\ v.line = w.line
        /\ v.phase = w.phase /\ v.plan = u.plan
    BY <2>1, <2>2 DEF Fields
  <2>4. CASE v.pc \in {"dwell", "clear"}
    <3>1. Planned(v) /\ Tried(v) /\ v.end # "bad-param"
      BY <1>3, <2>2, <2>3 DEF Planned, Tried
    <3>2. DryOK(v)
      BY <2>4, <3>1 DEF DryOK
    <3> QED BY <1>8, <2>1, <3>2, OneRunDry
  <2>5. CASE v.pc = "wait"
    <3>1. DryOK(v)
      BY <1>3, <1>5, <1>8, <2>2, <2>3, <2>5, NextLineOK
    <3> QED BY <1>8, <2>1, <3>1, OneRunDry
  <2> QED BY <2>2, <2>3, <2>4, <2>5
<1>9. \/ run' = End(r, "step-failed")
      \/ run' = [run EXCEPT ![r] =
                  LET x == [run[r] EXCEPT !.cur = s, !.prior = None]
                  IN  IF Line(r).kind = "repeat" THEN [x EXCEPT !.pc = "phase"]
                      ELSE [Advance(r) EXCEPT !.cur = s, !.prior = None]]
  BY <1>1, <1>5, Zenon DEF StepSets
<1>10. CASE run' # End(r, "step-failed")
  <2>1. CASE Kind(u) = "repeat"
    <3>1. [[u EXCEPT !.cur = s, !.prior = None] EXCEPT !.pc = "phase"]
             = [u EXCEPT !.cur = s, !.prior = None, !.pc = "phase"]
      BY <1>2 DEF Fields
    <3> QED BY <1>1, <1>4, <1>7, <1>9, <1>10, <2>1, <3>1
  <2>2. CASE Kind(u) = "step"
    BY <1>1, <1>4, <1>8, <1>9, <1>10, <2>2
  <2> QED BY <1>5, <2>1, <2>2
<1> QED BY <1>6, <1>10

\* The end of a wait.
LEMMA ElapseDry ==
  ASSUME ShapeInv, EndInv, DryInv, NEW r \in Runs, Elapse(r) PROVE DryInv'
<1>1. /\ run[r].pc \in Waiting
      /\ \/ run[r].pc = "baseline" /\ run' = [run EXCEPT ![r].pc = "wait"]
         \/ run[r].pc = "wait" /\ run' = [run EXCEPT ![r].pc = "step"]
         \/ run[r].pc \in {"phase", "dwell"} /\ run' = [run EXCEPT ![r] = Advance(r)]
  BY DEF Elapse, Waiting
<1>2. CASE run[r].pc \in {"phase", "dwell"} /\ run' = [run EXCEPT ![r] = Advance(r)]
  <2>1. PICK u, v : u = run[r] /\ v = Advance(r)
    OBVIOUS
  <2>2. DryOK(v)
    BY <1>2, <2>1, AdvanceDry
  <2> QED BY <1>2, <2>1, <2>2, OneRunDry
<1>3. CASE run[r].pc = "baseline" /\ run' = [run EXCEPT ![r].pc = "wait"]
  BY <1>3, GoesDry DEF Follows
<1>4. CASE run[r].pc = "wait" /\ run' = [run EXCEPT ![r].pc = "step"]
  BY <1>4, GoesDry DEF Follows
<1> QED BY <1>1, <1>2, <1>3, <1>4

\* The lock and the flag of a step.
LEMMA StepLocksDry ==
  ASSUME ShapeInv, DryInv, NEW r \in Runs, StepLocks(r) PROVE DryInv'
<1>1. CASE run' = End(r, "lock-busy") \/ run' = End(r, "user")
  BY <1>1, AbortDry
<1>2. ASSUME NEW j, run[r].pc = "step",
             run' = [run EXCEPT ![r].pc = "set", ![r].prior = j]
      PROVE  DryInv'
  <2>1. PICK u, v : u = run[r] /\ v = [u EXCEPT !.pc = "set", !.prior = j]
    OBVIOUS
  <2>2. DOMAIN u = Fields /\ DryOK(u)
    BY <2>1 DEF ShapeInv, DryInv
  <2>3. v.pc = "set" /\ Same(u, v) /\ v.end = u.end
    BY <2>1, <2>2 DEF Same, Fields
  <2>4. Follows(u.pc, v.pc) /\ v.end # "bad-param"
    BY <1>2, <2>1, <2>2, <2>3 DEF Follows, DryOK
  <2>5. DryOK(v)
    BY <2>2, <2>3, <2>4, FollowsOK
  <2>6. run' = [run EXCEPT ![r] = v]
    BY <1>2, <2>1
  <2> QED BY <2>5, <2>6, OneRunDry
<1> QED BY <1>1, <1>2 DEF StepLocks

\* The start of a run up to its lock, its flag and its begin, and its end.
LEMMA MovesDry ==
  ASSUME ShapeInv, DryInv, NEW r \in Runs,
         \/ Gate(r) \/ DropCancel(r) \/ TakeLock(r) \/ WriteFlag(r) \/ Begin(r)
         \/ EndClear(r) \/ EndUncancel(r) \/ EndUnjob(r)
  PROVE  DryInv'
<1>1. PICK p : /\ run' = [run EXCEPT ![r].pc = p]
               /\ \/ Follows(run[r].pc, p)
                  \/ run[r].pc = "fresh" /\ p = "lock" /\ validate_full_plan(run[r].plan)
  <2>1. CASE DropCancel(r)
    BY <2>1 DEF DropCancel, Reaches, Follows
  <2>2. CASE Begin(r)
    BY <2>2 DEF Begin, Reaches, Follows
  <2>3. CASE Gate(r) \/ TakeLock(r) \/ WriteFlag(r)
    BY <2>3 DEF Gate, TakeLock, WriteFlag, Reaches, Follows
  <2>4. CASE EndClear(r) \/ EndUncancel(r) \/ EndUnjob(r)
    BY <2>4 DEF EndClear, EndUncancel, EndUnjob, Reaches, Follows
  <2> QED BY <2>1, <2>2, <2>3, <2>4
<1> QED BY <1>1, GoesDry DEF Tried, validate_full_plan

\* A death, of serve with its runs or of one CLI run.
LEMMA DeathDry ==
  ASSUME ShapeInv, DryInv, NEW p,
         run' = [r \in Runs |-> IF Live(r) /\ PidOf(r) = p
                                THEN [run[r] EXCEPT !.pc = "killed"] ELSE run[r]]
  PROVE  DryInv'
<1>1. ASSUME NEW r \in Runs PROVE DryOK(run'[r])
  <2>1. PICK u, v : u = run[r] /\ v = [u EXCEPT !.pc = "killed"]
    OBVIOUS
  <2>2. DOMAIN u = Fields /\ DryOK(u)
    BY <2>1 DEF ShapeInv, DryInv
  <2>3. v.pc = "killed" /\ Same(u, v) /\ v.end = u.end
    BY <2>1, <2>2 DEF Same, Fields
  <2>4. Follows(u.pc, v.pc) /\ v.end # "bad-param"
    BY <2>2, <2>3 DEF Follows, DryOK
  <2>5. DryOK(v)
    BY <2>2, <2>3, <2>4, FollowsOK
  <2>6. run'[r] = u \/ run'[r] = v
    BY <2>1
  <2> QED BY <2>2, <2>5, <2>6
<1>2. DryInv' <=> \A q \in Runs : DryOK(run'[q])
  BY DEF DryInv, DryOK, Planned, Tried, AtLine, Before, Ready, Kind, Going, Driving, Waiting
<1> QED BY <1>1, <1>2

\* Every step keeps DryInv.
LEMMA DryKeeps ==
  ASSUME ShapeInv, EndInv, DryInv, [ScenarioNext]_scenariovars PROVE DryInv'
<1>1. CASE UNCHANGED scenariovars
  BY <1>1, RunsSameDry DEF scenariovars
<1>2. ASSUME NEW r \in Runs, RunStep(r) PROVE DryInv'
  <2>1. CASE Checkpoint(r)
    BY <2>1, AbortDry DEF Checkpoint
  <2> QED BY <1>2, <2>1, MovesDry, ApplyDry, ElapseDry, StepLocksDry, SetDry DEF RunStep
<1>3. CASE Sweep \/ Stop \/ ShutdownStop \/ ShutdownAwait \/ ShutdownClear
  BY <1>3, RunsSameDry DEF Sweep, Stop, ShutdownStop, ShutdownAwait, ShutdownClear
<1>4. ASSUME NEW w \in Writers,
             WriterLock(w) \/ WriterWrites(w) \/ \E k \in Kinds : WriterGate(w, k)
      PROVE  DryInv'
  BY <1>4, RunsSameDry DEF WriterLock, WriterWrites, WriterGate
<1>5. ASSUME NEW p \in Runs \cup {ServeProcess}, Kill(p) PROVE DryInv'
  BY <1>5, DeathDry DEF Kill
<1>6. CASE ShutdownExit
  BY <1>6, DeathDry DEF ShutdownExit
<1> QED BY <1>1, <1>2, <1>3, <1>4, <1>5, <1>6, SubmitDry DEF ScenarioNext, Shutdown

\* Times that grow from each step to the next are at most the last one.
LEMMA LastIsLatest ==
  ASSUME NEW n \in Nat, NEW at, \A i \in 1..n : at[i] \in Int,
         \A i \in 1..n : i > 1 => at[i] > at[i-1]
  PROVE  \A i \in 1..n : at[i] <= at[n]
<1> DEFINE S == {k \in Nat : k < n => at[n-k] <= at[n]}
<1>2. 0 \in S
  <2>1. n - 0 = n /\ (0 < n => n \in 1..n)
    OBVIOUS
  <2>2. 0 < n => at[n] <= at[n]
    BY <2>1
  <2> QED BY <2>1, <2>2
<1>3. ASSUME NEW k \in Nat, k \in S PROVE k + 1 \in S
  <2> SUFFICES ASSUME k + 1 < n PROVE at[n - (k + 1)] <= at[n]
    OBVIOUS
  <2>1. /\ n - k \in 1..n /\ n - k > 1 /\ (n - k) - 1 = n - (k + 1) /\ n - (k + 1) \in 1..n
        /\ n \in 1..n
    OBVIOUS
  <2>2. at[n-k] <= at[n]
    BY <1>3, <2>1
  <2>3. at[n-k] > at[n - (k + 1)] /\ at[n-k] \in Int /\ at[n - (k + 1)] \in Int /\ at[n] \in Int
    BY <2>1
  <2> QED BY <2>2, <2>3
<1>4. \A k \in Nat : k \in S
  <2> HIDE DEF S
  <2> QED BY <1>2, <1>3, Induction
<1>5. ASSUME NEW i \in 1..n PROVE at[i] <= at[n]
  <2>1. n - i \in Nat /\ n - i < n /\ n - (n - i) = i
    OBVIOUS
  <2> QED BY <1>4, <2>1
<1> QED BY <1>5

\* A plan of rounds only: they fit into the total and the margin.
LEMMA RoundsFit ==
  ASSUME NEW p, NEW d, IsPlan(p, d), d.repeat # None, StepTimes(p) = {},
         2 * Last(p.lines).rounds * SetCost <= COVERING_MARGIN_SECS
  PROVE  RunLength(p) <= Covering(p)
<1>1. PICK n, l, k, on, off :
        /\ n = Len(d.steps) /\ l = p.lines[n+1] /\ k = l.rounds /\ on = l.on /\ off = l.off
  OBVIOUS
<1>2. /\ Len(p.lines) = n + 1 /\ l.kind = "repeat" /\ k \in Nat /\ on \in Nat /\ off \in Nat
      /\ p.total \in Int /\ p.total >= k * (on + off) /\ p.baseline \in Int
  BY <1>1 DEF IsPlan
<1>3. Last(p.lines) = l
  BY <1>1, <1>2 DEF Last
<1>4. 2 * k <= 90
  BY <1>1, <1>2, <1>3 DEF SetCost, COVERING_MARGIN_SECS
<1>5. Rounds(p) = k * (on + off + 2 * 1)
  BY <1>1, <1>2, <1>3 DEF Rounds, SetCost
<1>6. k * (on + off + 2 * 1) = k * (on + off) + 2 * k
  <2>1. PICK m : m = on + off /\ m \in Int
    BY <1>2
  <2>2. k * (m + 2) = k * m + 2 * k
    BY <1>2, <2>1
  <2> QED BY <2>1, <2>2
<1>7. ~Recovers(p)
  <2>1. ~\E x \in Range(p.lines) : x.kind = "step"
    BY DEF StepTimes
  <2> QED BY <2>1 DEF Recovers
<1>8. RunLength(p) = p.baseline + 0 + Rounds(p) + 0
  BY <1>7 DEF RunLength
<1>9. PICK z : z = k * (on + off) /\ z \in Int
  BY <1>2
<1>10. Rounds(p) = z + 2 * k
  BY <1>5, <1>6, <1>9
<1> QED BY <1>2, <1>4, <1>8, <1>9, <1>10 DEF Covering, COVERING_MARGIN_SECS

\* A plan of steps only: the tail and the margin hold the last set and the dwell.
LEMMA StepsFit ==
  ASSUME NEW p, NEW d, IsPlan(p, d), d.repeat = None
  PROVE  RunLength(p) <= Covering(p)
<1>1. PICK n, lines, at : /\ n = Len(d.steps) /\ lines = p.lines
                          /\ at = [i \in 1..n |-> d.steps[i].at]
  OBVIOUS
<1>2. /\ n \in Nat /\ n > 0 /\ Len(lines) = n
      /\ \A i \in 1..n : lines[i].kind = "step" /\ lines[i].at = d.steps[i].at
      /\ p.total = d.steps[n].at + 15 /\ p.baseline \in Int
  BY <1>1 DEF IsPlan, TAIL_SECS
<1>3. \A i \in 1..n : at[i] \in Int /\ at[i] <= at[n] /\ lines[i].at = at[i]
  <2>1. \A i \in 1..n : d.steps[i].at \in Int /\ (i > 1 => d.steps[i].at > d.steps[i-1].at)
    BY <1>1 DEF IsPlan
  <2>2. \A i \in 1..n : at[i] = d.steps[i].at
    BY <1>1
  <2>3. \A i \in 1..n : i > 1 => at[i-1] = d.steps[i-1].at
    BY <1>2, <2>2
  <2>4. /\ \A i \in 1..n : at[i] \in Int
        /\ \A i \in 1..n : i > 1 => at[i] > at[i-1]
    BY <2>1, <2>2, <2>3
  <2>5. \A i \in 1..n : at[i] <= at[n]
    BY <1>2, <2>4, LastIsLatest
  <2> QED BY <1>2, <2>2, <2>4, <2>5
<1>4. Rounds(p) = 0
  <2>1. Last(p.lines) = lines[n] /\ lines[n].kind = "step"
    BY <1>1, <1>2 DEF Last
  <2> QED BY <2>1 DEF Rounds
<1>5. PICK T : T = StepTimes(p)
  OBVIOUS
<1>6. \A t \in T : \E i \in DOMAIN lines : t = lines[i].at
  BY <1>1, <1>5 DEF StepTimes, Range
<1>7. at[n] \in T /\ \A t \in T : t \in Int /\ t <= at[n]
  <2>1. DOMAIN lines = 1..n
    BY <1>1, <1>2 DEF IsPlan
  <2>2. n \in DOMAIN lines /\ lines[n].kind = "step" /\ lines[n].at = at[n]
    BY <1>2, <1>3, <2>1
  <2>3. at[n] \in T
    BY <1>1, <1>5, <2>2 DEF StepTimes, Range
  <2> QED BY <1>3, <1>6, <2>1, <2>3
<1>8. Max(T) = at[n] /\ at[n] \in Int
  BY <1>7 DEF Max
<1>9. RunLength(p) = p.baseline + (at[n] + 1) + 0 + (IF Recovers(p) THEN 25 ELSE 0)
  <2>1. T # {}
    BY <1>7
  <2> QED BY <1>4, <1>5, <1>8, <2>1 DEF RunLength, SetCost, RECOVERY_DWELL_SECS
<1>10. Covering(p) = p.baseline + (at[n] + 15) + 90
  BY <1>1, <1>2, <1>3 DEF Covering, COVERING_MARGIN_SECS
<1> QED BY <1>2, <1>8, <1>9, <1>10

(* The inductive invariant of a plan's progress: every run under way has a plan its
   document parses to, has passed the dry run of start_blocking, and has before each
   line the spec the dry run had there. *)
THEOREM DryInvariant == ScenarioSpec => []DryInv
<1>1. ScenarioInit => DryInv
  <2> SUFFICES ASSUME ScenarioInit, NEW r \in Runs PROVE DryOK(run[r])
    BY DEF DryInv
  <2>1. run[r].pc = "idle" /\ run[r].end = None /\ run[r].plan = None
    BY DEF ScenarioInit, Fresh
  <2>2. None # "bad-param"
    BY ScenarioAssumption DEF ProcessesApart
  <2> QED BY <2>1, <2>2 DEF DryOK, Going, Driving, Waiting
<1>2. ScnInv /\ DryInv /\ [ScenarioNext]_scenariovars => DryInv'
  BY DryKeeps DEF ScnInv
<1> QED BY <1>1, <1>2, ScnInvariant, PTL DEF ScenarioSpec

(* DryRunSuffices: a plan that passed validate_full_plan never fails on the merge of
   step_sync, in no round of a repeat and whatever was on the site before. *)
THEOREM DryRunSufficesHolds == ScenarioSpec => []DryRunSuffices
<1>1. DryInv => DryRunSuffices
  BY DEF DryInv, DryOK, DryRunSuffices
<1> QED BY <1>1, DryInvariant, PTL

(* FuseCoversPlan: the lifetime the first apply gives the site (Covering) is not
   shorter than the run, for every accepted plan of steps only, and every one of
   rounds only whose sets fit into the margin. *)
THEOREM FuseCoversPlanHolds == ScenarioSpec => []FuseCoversPlan
<1>1. DryInv => FuseCoversPlan
  <2> SUFFICES ASSUME DryInv, NEW r \in Runs, NEW p, p = run[r].plan, p # None, NEW l,
                      l = Last(p.lines),
                      l.kind = "repeat" => /\ StepTimes(p) = {}
                                           /\ 2 * l.rounds * SetCost <= COVERING_MARGIN_SECS
               PROVE  RunLength(p) <= Covering(p)
    BY DEF FuseCoversPlan
  <2>1. PICK d : IsPlan(p, d)
    BY DEF DryInv, DryOK, Planned
  <2>2. d.repeat # None => l.kind = "repeat"
    BY <2>1 DEF IsPlan, Last
  <2> QED BY <2>1, <2>2, RoundsFit, StepsFit
<1> QED BY <1>1, DryInvariant, PTL
============================================================================
