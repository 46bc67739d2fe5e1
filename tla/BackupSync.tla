----------------------------- MODULE BackupSync -----------------------------
(***************************************************************************)
(* One desktop installation downloading snapshots (desktop/src/sync.js)    *)
(* against the server of BackupServer. A run of runSync moves from one     *)
(* await to the next; "Sync now" and the interval timer of main.js start   *)
(* runs independently of each other, and the app may die anywhere.         *)
(*                                                                         *)
(* Failed downloads, a revoked device, an unreachable server and a file    *)
(* system that refuses look alike to runSync: SyncFails covers them at     *)
(* every await. A directory is removed file by file, and a failure or the  *)
(* app's death may leave part of it. The state file is written whole, by   *)
(* runs and by setSyncInterval, of which one call is under way at a time.  *)
(***************************************************************************)
EXTENDS BackupServer

CONSTANTS
    Desktop,        \* this installation's device
    Syncs,          \* runs of runSync that may be under way at once
    Parts,          \* COMPONENTS, in download order 1 .. Parts
    AppMayDie       \* whether the app can be killed

ASSUME DesktopAssumption == Desktop \in Devices
ASSUME PartsAssumption == Parts \in Nat \ {0}

VARIABLES
    final,      \* the encrypted parts in "<id>/", Absent without the directory
    staging,    \* the same for "<id>.partial/"
    saved,      \* the snapshots the state file calls completed
    setting,    \* the same in the state a call of setSyncInterval has loaded
    run         \* the runs of runSync

syncVars == <<final, staging, saved, setting, run>>
allVars == <<vars, syncVars>>

Absent == {0}   \* no directory; {} is an empty one
All    == 1 .. Parts
Dirs   == {Absent} \cup SUBSET All
NoRun  == [pc |-> "idle", snap |-> None, state |-> {}, next |-> 1]
NoCall == {None}
RunPcs == {"idle", "loaded", "noted", "manifest", "staging", "download", "replace", "rename",
           "ack", "acking", "save"}
----------------------------------------------------------------------------
SyncInit ==
    /\ Init
    /\ final = [s \in Snaps |-> Absent]
    /\ staging = [s \in Snaps |-> Absent]
    /\ saved = {}
    /\ setting = NoCall
    /\ run = [y \in Syncs |-> NoRun]

\* A removal takes one file at a time, and the directory when it is empty.
OneLess(dir) == IF dir \in {Absent, {}} THEN {Absent} ELSE {dir \ {part} : part \in dir}

\* Fault: the run starts from the default state.
LoadDefault(y) ==
    /\ run[y].pc = "idle"
    /\ device[Desktop] # "none"
    /\ run' = [run EXCEPT ![y].pc = "loaded", ![y].state = {}]
    /\ UNCHANGED <<vars, final, staging, saved, setting>>

\* runSync reads the state file.
Load(y) ==
    /\ run[y].pc = "idle"
    /\ device[Desktop] # "none"
    /\ run' = [run EXCEPT ![y].pc = "loaded", ![y].state = saved]
    /\ UNCHANGED <<vars, final, staging, saved, setting>>

\* It writes the file back with the time it started; a write that fails ends it.
Note(y) ==
    /\ run[y].pc = "loaded"
    /\ \/ saved' = run[y].state /\ run' = [run EXCEPT ![y].pc = "noted"]
       \/ UNCHANGED saved /\ run' = [run EXCEPT ![y] = NoRun]
    /\ UNCHANGED <<vars, final, staging, setting>>

\* It lists, and picks the latest ready snapshot it has not completed.
Pick(y) ==
    /\ run[y].pc = "noted"
    /\ \E latest \in Snaps \cup {None} :
           /\ IsLatestReady(latest)
           /\ run' = [run EXCEPT ![y] =
                IF latest \in {None} \cup @.state THEN [@ EXCEPT !.pc = "save"]
                ELSE [@ EXCEPT !.pc = "manifest", !.snap = latest]]
    /\ UNCHANGED <<vars, final, staging, saved, setting>>

\* get_manifest, which reads the manifest of a ready row.
GetManifest(y) ==
    LET s == run[y].snap IN
    /\ run[y].pc = "manifest"
    /\ row[s] = "ready" /\ store[s] = "whole"
    /\ run' = [run EXCEPT ![y].pc = "staging"]
    /\ UNCHANGED <<vars, final, staging, saved, setting>>

\* The old staging directory goes, an empty one comes. In one step: what a removal that
\* fails leaves of the old one, only the next removal meets.
Stage(y) ==
    LET s == run[y].snap IN
    /\ run[y].pc = "staging"
    /\ staging' = [staging EXCEPT ![s] = {}]
    /\ run' = [run EXCEPT ![y].pc = "download"]
    /\ UNCHANGED <<vars, final, saved, setting>>

\* Fault: the directory is published before the last part is down.
DownloadOneLess(y) ==
    LET s == run[y].snap IN
    /\ run[y].pc = "download"
    /\ device[Desktop] = "active" /\ row[s] = "ready" /\ store[s] = "whole"
    /\ staging[s] # Absent
    /\ staging' = [staging EXCEPT ![s] = @ \cup {run[y].next}]
    /\ run' = [run EXCEPT ![y].pc = IF run[y].next + 1 >= Parts THEN "replace" ELSE @,
                          ![y].next = @ + 1]
    /\ UNCHANGED <<vars, final, saved, setting>>

\* One component: URL, verified download, encryption into the staging
\* directory.
Download(y) ==
    LET s == run[y].snap IN
    /\ run[y].pc = "download"
    /\ device[Desktop] = "active" /\ row[s] = "ready" /\ store[s] = "whole"
    /\ staging[s] # Absent
    /\ staging' = [staging EXCEPT ![s] = @ \cup {run[y].next}]
    /\ run' = [run EXCEPT ![y].pc = IF run[y].next = Parts THEN "replace" ELSE @,
                          ![y].next = @ + 1]
    /\ UNCHANGED <<vars, final, saved, setting>>

\* The directory under the final name goes.
RemoveFinal(y) ==
    LET s == run[y].snap IN
    /\ run[y].pc = "replace"
    /\ \E left \in OneLess(final[s]) :
           /\ final' = [final EXCEPT ![s] = left]
           /\ run' = [run EXCEPT ![y].pc = IF left = Absent THEN "rename" ELSE @]
    /\ UNCHANGED <<vars, staging, saved, setting>>

\* The staging directory takes its final name, whatever is in it by now.
Rename(y) ==
    LET s == run[y].snap IN
    /\ run[y].pc = "rename"
    /\ staging[s] # Absent /\ final[s] \in {Absent, {}}
    /\ final' = [final EXCEPT ![s] = staging[s]]
    /\ staging' = [staging EXCEPT ![s] = Absent]
    /\ run' = [run EXCEPT ![y].pc = "ack"]
    /\ UNCHANGED <<vars, saved, setting>>

\* ack_download at the server, and its answer.
AckDownload(y) ==
    /\ run[y].pc = "ack"
    /\ Ack(run[y].snap, Desktop)
    /\ run' = [run EXCEPT ![y].pc = "acking"]
    /\ UNCHANGED <<final, staging, saved, setting>>

AckAnswered(y) ==
    /\ run[y].pc = "acking"
    /\ run' = [run EXCEPT ![y].pc = "save"]
    /\ UNCHANGED <<vars, final, staging, saved, setting>>

\* Fault: having nothing to download is noted too.
RemembersNothing(y) ==
    run[y].state \cup (IF run[y].pc = "save" THEN {run[y].snap} ELSE {})
\* What the run writes to the state file: it adds its snapshot at the end.
Remembers(y) ==
    (run[y].state \cup (IF run[y].pc = "save" THEN {run[y].snap} ELSE {})) \ {None}

SaveState(y) ==
    /\ run[y].pc = "save"
    /\ saved' = Remembers(y)
    /\ run' = [run EXCEPT ![y] = NoRun]
    /\ UNCHANGED <<vars, final, staging, setting>>

\* An await throws: runSync saves its state, unless that fails as well.
SyncFails(y) ==
    /\ run[y].pc \notin {"idle", "loaded"}
    /\ saved' \in {saved, Remembers(y)}
    /\ run' = [run EXCEPT ![y] = NoRun]
    /\ UNCHANGED <<vars, final, staging, setting>>

\* setSyncInterval loads the state file.
LoadInterval ==
    /\ setting = NoCall
    /\ setting' = saved
    /\ UNCHANGED <<vars, final, staging, saved, run>>

\* It writes the file back with the new interval, or fails to.
SaveInterval ==
    /\ setting # NoCall
    /\ saved' \in {saved, setting}
    /\ setting' = NoCall
    /\ UNCHANGED <<vars, final, staging, run>>

AppDies ==
    /\ AppMayDie
    /\ setting # NoCall \/ \E y \in Syncs : run[y].pc # "idle"
    /\ run' = [y \in Syncs |-> NoRun]
    /\ setting' = NoCall
    /\ UNCHANGED <<vars, final, staging, saved>>

Sync(y) ==
    \/ Load(y) \/ Note(y) \/ Pick(y) \/ GetManifest(y) \/ Stage(y) \/ Download(y)
    \/ RemoveFinal(y) \/ Rename(y) \/ AckDownload(y) \/ AckAnswered(y)
    \/ SaveState(y) \/ SyncFails(y)

SyncNext ==
    \/ ServerNext /\ UNCHANGED syncVars
    \/ \E y \in Syncs : Sync(y)
    \/ LoadInterval \/ SaveInterval
    \/ AppDies

SyncSpec == SyncInit /\ [][SyncNext]_allVars

----------------------------------------------------------------------------
SyncTypeOK ==
    /\ TypeOK
    /\ final \in [Snaps -> Dirs]
    /\ staging \in [Snaps -> Dirs]
    /\ saved \subseteq Snaps
    /\ setting \in {NoCall} \cup SUBSET Snaps
    /\ run \in [Syncs -> [pc : RunPcs, snap : Snaps \cup {None},
                          state : SUBSET Snaps, next : 1 .. Parts + 1]]

\* Nothing unfinished passes for a backup (sync.js): a directory takes its final name
\* complete or not at all, the server hears of a copy only while its directory is
\* complete, and so is every directory the state file calls completed, whatever fails
\* and wherever the app dies. What is under a final name may lose files, to the removal
\* by the next run; the state file does not call it completed then.
CompleteWhenClaimed ==
    [][\A s \in Snaps :
         /\ final'[s] \in (SUBSET final[s]) \cup {Absent, All}
         /\ <<s, Desktop>> \in held' \ held => final[s] = All
         /\ s \in saved' => final'[s] = All]_allVars

\* No step of a run makes the state file forget a completed snapshot, however the run
\* ends and whoever else writes the file (runSync's catch block: prior entries stay).
RunsForgetNothing ==
    [][(\E y \in Syncs : run'[y] # run[y]) => saved \subseteq saved']_allVars

\* A snapshot whose objects the server has deleted is complete on the disk
\* (backup_retention.py: never "every copy of this data is now gone").
SomeCopyRemains ==
    \A s \in Snaps :
        row[s] = "pruned" \/ (row[s] = "ready" /\ store[s] # "whole")
            => final[s] = All
============================================================================
