-------------------------- MODULE BackupSyncProofs --------------------------
(***************************************************************************)
(* Theorems about BackupSync: the types of the desktop's side with any     *)
(* number of overlapping runs of runSync, and, when no two runs overlap,   *)
(* that what it calls complete is complete and that no run forgets it.     *)
(***************************************************************************)
EXTENDS BackupSync, BackupProofs

\* No two runs of runSync overlap.
OneRun == \A y, z \in Syncs : y = z

\* A run past its choice has a snapshot, and counts parts from 1.
Choosing == {"idle", "loaded", "noted"}
RunsInOrder ==
    \A y \in Syncs :
        /\ run[y].pc \in Choosing => run[y].snap = None
        /\ run[y].pc \notin Choosing \cup {"save"} => run[y].snap \in Snaps
        /\ run[y].pc \in Choosing \cup {"manifest", "staging"} => run[y].next = 1
        /\ run[y].pc = "download" => run[y].next <= Parts

TInv == IInv /\ SyncTypeOK /\ RunsInOrder

\* A run under way has the state file's entries in memory, its snapshot is not
\* among them, and the directories are as far as the run says.
RunMatchesDisk ==
    \A y \in Syncs :
        LET r == run[y] IN
        /\ r.pc # "idle" => saved \subseteq r.state
        /\ r.pc # "idle" => \A s \in r.state : final[s] = All
        /\ r.snap \notin r.state
        /\ r.pc = "download" => staging[r.snap] = 1 .. r.next - 1
        /\ r.pc \in {"replace", "rename"} => staging[r.snap] = All
        /\ r.pc \in {"ack", "acking", "save"} /\ r.snap # None => final[r.snap] = All

\* What the state file calls completed is complete.
SavedIsWhole == \A s \in saved : final[s] = All

\* What setSyncInterval will write back is known to the file and to the run.
SettingIsKnown ==
    setting # NoCall =>
        setting \subseteq saved /\ \A y \in Syncs : run[y].pc # "idle" => setting \subseteq run[y].state

DInv == TInv /\ RunMatchesDisk /\ SavedIsWhole /\ SettingIsKnown

Runs == [pc : RunPcs, snap : Snaps \cup {None}, state : SUBSET Snaps, next : 1 .. Parts + 1]

----------------------------------------------------------------------------
LEMMA NoRunIsRun == NoRun \in Runs
  BY PartsAssumption DEF NoRun, Runs, RunPcs

\* The updates the steps make to a run's record.
LEMMA RunUpdates ==
  ASSUME NEW r \in Runs, NEW c \in RunPcs
  PROVE  /\ [r EXCEPT !.pc = c] \in Runs
         /\ \A S \in SUBSET Snaps : [r EXCEPT !.pc = c, !.state = S] \in Runs
         /\ \A s \in Snaps \cup {None} : [r EXCEPT !.pc = c, !.snap = s] \in Runs
         /\ \A n \in 1 .. Parts + 1 : [r EXCEPT !.pc = c, !.next = n] \in Runs
  BY DEF Runs

\* Whatever the desktop does is a step of the server, an acknowledgement, or
\* nothing to the server.
LEMMA SyncStepIsServerStep == TInv /\ [SyncNext]_allVars => [Next]_vars
<1> SUFFICES ASSUME TInv, [SyncNext]_allVars PROVE [Next]_vars
  OBVIOUS
<1>1. CASE ServerNext
  BY <1>1 DEF Next
<1>2. ASSUME NEW y \in Syncs, AckDownload(y) PROVE Next
  <2>1. Ack(run[y].snap, Desktop)
    BY <1>2 DEF AckDownload
  <2>2. run[y].snap \in Snaps
    BY <1>2 DEF AckDownload, TInv, RunsInOrder, Choosing
  <2> QED
    BY <2>1, <2>2, DesktopAssumption DEF Next
<1>3. ASSUME NEW y \in Syncs, Sync(y), ~AckDownload(y)
      PROVE UNCHANGED vars
  BY <1>3 DEF Sync, Load, Note, Pick, GetManifest, Stage, Download, RemoveFinal, Rename,
     AckAnswered, SaveState, SyncFails
<1>4. CASE LoadInterval \/ SaveInterval \/ AppDies \/ UNCHANGED allVars
  BY <1>4 DEF LoadInterval, SaveInterval, AppDies, allVars
<1> QED
  BY <1>1, <1>2, <1>3, <1>4 DEF SyncNext

LEMMA InitTInv == SyncInit => TInv
<1> SUFFICES ASSUME SyncInit PROVE TInv
  OBVIOUS
<1>1. IInv
  BY InitIInv DEF SyncInit
<1>2. SyncTypeOK
  BY <1>1, NoRunIsRun DEF SyncInit, IInv, SyncTypeOK, Dirs, Runs
<1>3. RunsInOrder
  BY DEF SyncInit, RunsInOrder, Choosing, NoRun
<1> QED
  BY <1>1, <1>2, <1>3 DEF TInv

\* Each step of a run writes a record of the right type and leaves it in order.
LEMMA NextTInv == TInv /\ [SyncNext]_allVars => TInv'
<1> SUFFICES ASSUME TInv, [SyncNext]_allVars PROVE TInv'
  OBVIOUS
<1> DEFINE Disk == /\ final \in [Snaps -> Dirs]
                   /\ staging \in [Snaps -> Dirs]
                   /\ saved \subseteq Snaps
                   /\ setting \in {NoCall} \cup SUBSET Snaps
                   /\ run \in [Syncs -> Runs]
<1>0. IInv' /\ TypeOK'
  <2>1. IInv /\ [Next]_vars
    BY SyncStepIsServerStep DEF TInv
  <2> QED
    BY <2>1, NextIInv, NextTypeOK
<1>1. Disk /\ RunsInOrder /\ \A y \in Syncs : run[y] \in Runs
  BY DEF TInv, SyncTypeOK, Runs
\* One run moves on; the others stay as they are.
<1>2. ASSUME NEW y \in Syncs, NEW q \in Runs,
             run' = [run EXCEPT ![y] = q],
             q.pc \in Choosing => q.snap = None,
             q.pc \notin Choosing \cup {"save"} => q.snap \in Snaps,
             q.pc \in Choosing \cup {"manifest", "staging"} => q.next = 1,
             q.pc = "download" => q.next <= Parts
      PROVE  run' \in [Syncs -> Runs] /\ RunsInOrder'
  BY <1>1, <1>2 DEF RunsInOrder
\* A run that ends.
<1>E. ASSUME NEW y \in Syncs, run' = [run EXCEPT ![y] = NoRun]
      PROVE  run' \in [Syncs -> Runs] /\ RunsInOrder'
  BY <1>2, <1>E, NoRunIsRun DEF NoRun, Choosing
<1>3. ASSUME NEW y \in Syncs, Load(y) PROVE Disk' /\ RunsInOrder'
  <2> DEFINE q == [run[y] EXCEPT !.pc = "loaded", !.state = saved]
  <2>1. run' = [run EXCEPT ![y] = q]
    BY <1>3 DEF Load
  <2>2. q \in Runs
    <3>1. "loaded" \in RunPcs /\ saved \in SUBSET Snaps
      BY <1>1 DEF RunPcs
    <3> QED
      BY <1>1, <3>1, RunUpdates
  <2>3. q.pc = "loaded" /\ q.next = 1 /\ q.snap = None
    BY <1>1, <1>3 DEF Load, Runs, RunsInOrder, Choosing
  <2> QED
    BY <1>1, <1>2, <1>3, <2>1, <2>2, <2>3 DEF Load, Choosing
\* The steps that only move the run's place.
<1>5. ASSUME NEW y \in Syncs, NEW c \in RunPcs \ {"idle", "loaded"},
             run[y].pc # "idle",
             run' = [run EXCEPT ![y].pc = c],
             c = "noted" => run[y].pc = "loaded",
             c \notin {"noted", "save"} => run[y].pc \notin Choosing \cup {"save"},
             c = "download" => run[y].pc = "staging",
             c \in {"manifest", "staging"} => run[y].pc = "manifest"
      PROVE  run' \in [Syncs -> Runs] /\ RunsInOrder'
  <2> DEFINE q == [run[y] EXCEPT !.pc = c]
  <2>1. run' = [run EXCEPT ![y] = q]
    BY <1>5
  <2>2. q \in Runs
    BY <1>1, RunUpdates
  <2>3. q.pc = c /\ q.snap = run[y].snap /\ q.next = run[y].next
    BY <1>1 DEF Runs
  <2>4. /\ c = "noted" => q.snap = None /\ q.next = 1
        /\ c \notin {"noted", "save"} => q.snap \in Snaps
        /\ c \in {"manifest", "staging", "download"} => q.next = 1
    BY <1>1, <1>5, <2>3 DEF RunsInOrder, Choosing
  <2>5. /\ q.pc \in Choosing => q.snap = None
        /\ q.pc \notin Choosing \cup {"save"} => q.snap \in Snaps
        /\ q.pc \in Choosing \cup {"manifest", "staging"} => q.next = 1
        /\ q.pc = "download" => q.next <= Parts
    BY <2>3, <2>4, PartsAssumption DEF Choosing
  <2> QED
    BY <1>2, <2>1, <2>2, <2>5
<1>4. ASSUME NEW y \in Syncs, Note(y) PROVE Disk' /\ RunsInOrder'
  <2>1. ASSUME run' = [run EXCEPT ![y].pc = "noted"]
        PROVE  run' \in [Syncs -> Runs] /\ RunsInOrder'
    BY <1>4, <1>5, <2>1 DEF Note, RunPcs
  <2>2. ASSUME run' = [run EXCEPT ![y] = NoRun]
        PROVE  run' \in [Syncs -> Runs] /\ RunsInOrder'
    BY <1>E, <2>2
  <2>3. saved' \subseteq Snaps
    BY <1>1, <1>4 DEF Note, Runs
  <2> QED
    BY <1>1, <1>4, <2>1, <2>2, <2>3 DEF Note
<1>6. ASSUME NEW y \in Syncs, Pick(y) PROVE Disk' /\ RunsInOrder'
  <2>1. PICK s \in Snaps \cup {None} :
           run' = [run EXCEPT ![y] =
                IF s \in {None} \cup run[y].state THEN [run[y] EXCEPT !.pc = "save"]
                ELSE [run[y] EXCEPT !.pc = "manifest", !.snap = s]]
    BY <1>6 DEF Pick
  <2>2. UNCHANGED <<final, staging, saved, setting>> /\ run[y].pc = "noted"
    BY <1>6 DEF Pick
  <2>3. CASE s \in {None} \cup run[y].state
    <3>1. run' = [run EXCEPT ![y].pc = "save"]
      BY <1>1, <2>1, <2>3
    <3> QED
      BY <1>1, <1>5, <2>2, <3>1 DEF RunPcs
  <2>4. CASE s \notin {None} \cup run[y].state
    <3> DEFINE q == [run[y] EXCEPT !.pc = "manifest", !.snap = s]
    <3>1. q \in Runs
      <4>1. "manifest" \in RunPcs
        BY DEF RunPcs
      <4> QED
        BY <1>1, <4>1, RunUpdates
    <3>2. q.pc = "manifest" /\ q.snap \in Snaps /\ q.next = 1
      BY <1>1, <2>2, <2>4 DEF Runs, RunsInOrder, Choosing
    <3> QED
      BY <1>1, <1>2, <2>1, <2>2, <2>4, <3>1, <3>2 DEF Choosing
  <2> QED
    BY <2>3, <2>4
<1>7. ASSUME NEW y \in Syncs, GetManifest(y) \/ Stage(y) PROVE Disk' /\ RunsInOrder'
  <2>1. run' \in [Syncs -> Runs] /\ RunsInOrder'
    BY <1>5, <1>7 DEF GetManifest, Stage, RunPcs, Choosing
  <2>2. staging' \in [Snaps -> Dirs] /\ UNCHANGED <<final, saved, setting>>
    BY <1>1, <1>7 DEF GetManifest, Stage, Dirs
  <2> QED
    BY <1>1, <2>1, <2>2
<1>8. ASSUME NEW y \in Syncs, Download(y) PROVE Disk' /\ RunsInOrder'
  <2> DEFINE r == run[y]
             c == IF r.next = Parts THEN "replace" ELSE r.pc
             q == [r EXCEPT !.pc = c, !.next = r.next + 1]
  <2>1. run' = [run EXCEPT ![y] = q]
    BY <1>1, <1>8 DEF Download, Runs
  <2>2. r \in Runs /\ r.pc = "download" /\ r.snap \in Snaps
        /\ r.next \in 1 .. Parts
    BY <1>1, <1>8, PartsAssumption DEF Download, RunsInOrder, Runs, Choosing
  <2>3. q \in Runs
    <3>1. c \in RunPcs /\ r.next + 1 \in 1 .. Parts + 1
      BY <2>2, PartsAssumption DEF RunPcs
    <3> QED
      BY <2>2, <3>1, RunUpdates
  <2>4. q.pc \in {"replace", "download"} /\ q.snap \in Snaps
        /\ (q.pc = "download" => q.next <= Parts)
    BY <2>2, PartsAssumption DEF Runs
  <2>5. staging' \in [Snaps -> Dirs]
    <3>1. staging[r.snap] \in SUBSET All
      BY <1>1, <1>8, <2>2 DEF Download, Dirs
    <3> QED
      BY <1>1, <1>8, <2>2, <3>1 DEF Download, Dirs, All
  <2> QED
    BY <1>1, <1>2, <1>8, <2>1, <2>3, <2>4, <2>5 DEF Download, Choosing
<1>9. ASSUME NEW y \in Syncs, RemoveFinal(y) PROVE Disk' /\ RunsInOrder'
  <2>1. run[y].snap \in Snaps /\ run[y].pc = "replace"
    BY <1>1, <1>9 DEF RemoveFinal, RunsInOrder, Choosing
  <2>2. PICK left \in OneLess(final[run[y].snap]) :
           /\ final' = [final EXCEPT ![run[y].snap] = left]
           /\ run' = [run EXCEPT ![y].pc = IF left = Absent THEN "rename" ELSE @]
    BY <1>9 DEF RemoveFinal
  <2>3. left \in Dirs
    BY <1>1, <2>1 DEF OneLess, Dirs
  <2>4. \E c \in {"rename", "replace"} : run' = [run EXCEPT ![y].pc = c]
    BY <1>1, <2>1, <2>2
  <2>5. run' \in [Syncs -> Runs] /\ RunsInOrder'
    BY <1>5, <2>1, <2>4 DEF RunPcs, Choosing
  <2> QED
    BY <1>1, <1>9, <2>1, <2>2, <2>3, <2>5 DEF RemoveFinal
<1>10. ASSUME NEW y \in Syncs, Rename(y) PROVE Disk' /\ RunsInOrder'
  <2>1. run' \in [Syncs -> Runs] /\ RunsInOrder'
    BY <1>5, <1>10 DEF Rename, RunPcs, Choosing
  <2>2. run[y].snap \in Snaps
    BY <1>1, <1>10 DEF Rename, RunsInOrder, Choosing
  <2>3. final' \in [Snaps -> Dirs] /\ staging' \in [Snaps -> Dirs]
    BY <1>1, <1>10, <2>2 DEF Rename, Dirs
  <2> QED
    BY <1>1, <1>10, <2>1, <2>3 DEF Rename
<1>11. ASSUME NEW y \in Syncs, AckDownload(y) \/ AckAnswered(y) PROVE Disk' /\ RunsInOrder'
  <2>1. run' \in [Syncs -> Runs] /\ RunsInOrder'
    BY <1>5, <1>11 DEF AckDownload, AckAnswered, RunPcs, Choosing
  <2> QED
    BY <1>1, <1>11, <2>1 DEF AckDownload, AckAnswered
<1>12. ASSUME NEW y \in Syncs, SaveState(y) \/ SyncFails(y) PROVE Disk' /\ RunsInOrder'
  <2>1. run' = [run EXCEPT ![y] = NoRun] /\ UNCHANGED <<final, staging, setting>>
    BY <1>12 DEF SaveState, SyncFails
  <2>2. Remembers(y) \subseteq Snaps
    BY <1>1 DEF Remembers, Runs
  <2>3. saved' \subseteq Snaps
    BY <1>1, <1>12, <2>2 DEF SaveState, SyncFails
  <2> QED
    BY <1>1, <1>E, <2>1, <2>3
<1>13. ASSUME AppDies PROVE Disk' /\ RunsInOrder'
  <2>1. run' = [y \in Syncs |-> NoRun] /\ setting' = NoCall /\ UNCHANGED <<final, staging, saved>>
    BY <1>13 DEF AppDies
  <2>2. run' \in [Syncs -> Runs]
    BY <2>1, NoRunIsRun
  <2>3. RunsInOrder'
    BY <2>1 DEF RunsInOrder, Choosing, NoRun
  <2> QED
    BY <1>1, <2>1, <2>2, <2>3
<1>14. ASSUME LoadInterval \/ SaveInterval PROVE Disk' /\ RunsInOrder'
  BY <1>1, <1>14 DEF LoadInterval, SaveInterval, RunsInOrder
<1>15. ASSUME UNCHANGED syncVars PROVE Disk' /\ RunsInOrder'
  BY <1>1, <1>15 DEF syncVars, RunsInOrder
<1>16. Disk' /\ RunsInOrder'
  BY <1>3, <1>4, <1>6, <1>7, <1>8, <1>9, <1>10, <1>11, <1>12, <1>13, <1>14, <1>15
  DEF SyncNext, Sync, allVars
<1> QED
  BY <1>0, <1>16 DEF TInv, SyncTypeOK, Runs

----------------------------------------------------------------------------
\* With one run at a time what it replaces is its own unfinished work: the
\* directory it publishes holds every part, and no completed one is touched.
LEMMA NextDInv ==
  ASSUME OneRun
  PROVE  DInv /\ [SyncNext]_allVars => DInv'
<1> SUFFICES ASSUME DInv, [SyncNext]_allVars PROVE DInv'
  OBVIOUS
<1> DEFINE Rest == RunMatchesDisk' /\ SavedIsWhole' /\ SettingIsKnown'
<1>0. TInv /\ TInv' /\ RunMatchesDisk /\ SavedIsWhole /\ SettingIsKnown
  BY NextTInv DEF DInv
<1>1. /\ \A y \in Syncs : run[y] \in Runs
      /\ run \in [Syncs -> Runs] /\ run' \in [Syncs -> Runs]
      /\ final \in [Snaps -> Dirs] /\ staging \in [Snaps -> Dirs]
      /\ saved \subseteq Snaps
      /\ RunsInOrder
  BY <1>0 DEF TInv, SyncTypeOK, Runs
\* The step of the only run.
<1>2. ASSUME NEW y \in Syncs PROVE \A z \in Syncs : z = y
  BY DEF OneRun
<1>3. ASSUME NEW y \in Syncs, Load(y) PROVE Rest
  <2>1. /\ run'[y].pc = "loaded" /\ run'[y].snap = None /\ run'[y].state = saved
        /\ UNCHANGED <<final, staging, saved, setting>>
    BY <1>1, <1>3 DEF Load, RunsInOrder, Choosing, Runs
  <2>2. RunMatchesDisk'
    <3>1. None \notin saved
      BY <1>1 DEF None, Snaps
    <3> QED
      BY <1>0, <1>2, <2>1, <3>1 DEF RunMatchesDisk, SavedIsWhole
  <2> QED
    BY <1>0, <1>2, <2>1, <2>2 DEF SavedIsWhole, SettingIsKnown
<1>4. ASSUME NEW y \in Syncs, Note(y) PROVE Rest
  <2>1. /\ run[y].pc = "loaded" /\ run[y].snap = None
        /\ saved \subseteq run[y].state /\ UNCHANGED <<final, staging, setting>>
    BY <1>0, <1>1, <1>4 DEF Note, RunsInOrder, Choosing, RunMatchesDisk
  <2>2. ASSUME saved' = run[y].state, run' = [run EXCEPT ![y].pc = "noted"]
        PROVE  Rest
    <3>1. run'[y].pc = "noted" /\ run'[y].snap = None /\ run'[y].state = run[y].state
      BY <1>1, <2>1, <2>2 DEF Runs
    <3> QED
      BY <1>0, <1>2, <2>1, <2>2, <3>1 DEF RunMatchesDisk, SavedIsWhole, SettingIsKnown
  <2>3. ASSUME saved' = saved, run' = [run EXCEPT ![y] = NoRun]
        PROVE  Rest
    <3>1. run'[y].pc = "idle" /\ run'[y].snap = None /\ run'[y].state = {}
      BY <1>1, <2>3 DEF NoRun
    <3> QED
      BY <1>0, <1>2, <2>1, <2>3, <3>1 DEF RunMatchesDisk, SavedIsWhole, SettingIsKnown
  <2> QED
    BY <1>4, <2>2, <2>3 DEF Note
<1>5. ASSUME NEW y \in Syncs, Pick(y) PROVE Rest
  <2>1. PICK s \in Snaps \cup {None} :
           run' = [run EXCEPT ![y] =
                IF s \in {None} \cup run[y].state THEN [run[y] EXCEPT !.pc = "save"]
                ELSE [run[y] EXCEPT !.pc = "manifest", !.snap = s]]
    BY <1>5 DEF Pick
  <2>2. /\ run[y].pc = "noted" /\ run[y].snap = None
        /\ UNCHANGED <<final, staging, saved, setting>>
    BY <1>1, <1>5 DEF Pick, RunsInOrder, Choosing
  <2>3. /\ run'[y].state = run[y].state
        /\ \/ run'[y].pc = "save" /\ run'[y].snap = None
           \/ run'[y].pc = "manifest" /\ run'[y].snap \notin run[y].state
    BY <1>1, <2>1, <2>2 DEF Runs
  <2>4. RunMatchesDisk'
    BY <1>0, <1>2, <2>2, <2>3 DEF RunMatchesDisk
  <2> QED
    BY <1>0, <1>2, <2>2, <2>3, <2>4 DEF SavedIsWhole, SettingIsKnown
\* A step that only moves the run along and leaves what its state calls completed.
<1>6. ASSUME NEW y \in Syncs, RunMatchesDisk',
             run[y].pc # "idle", run'[y].pc # "idle", run'[y].state = run[y].state,
             UNCHANGED <<saved, setting>>
      PROVE  Rest
  <2>1. saved \subseteq run[y].state
    BY <1>0, <1>6 DEF RunMatchesDisk
  <2>2. SavedIsWhole'
    BY <1>6, <2>1 DEF RunMatchesDisk, SavedIsWhole
  <2>3. SettingIsKnown'
    BY <1>0, <1>2, <1>6 DEF SettingIsKnown
  <2> QED
    BY <1>6, <2>2, <2>3
<1>7. ASSUME NEW y \in Syncs, GetManifest(y) \/ AckDownload(y) \/ AckAnswered(y) PROVE Rest
  <2>1. /\ run[y].pc \in {"manifest", "ack", "acking"}
        /\ run'[y].pc \in {"staging", "acking", "save"}
        /\ run'[y].pc \in {"acking", "save"} => run[y].pc \in {"ack", "acking"}
        /\ run'[y].snap = run[y].snap /\ run'[y].state = run[y].state
        /\ UNCHANGED <<final, staging, saved, setting>>
    BY <1>1, <1>7 DEF GetManifest, AckDownload, AckAnswered, Runs
  <2>2. RunMatchesDisk'
    BY <1>0, <1>2, <2>1 DEF RunMatchesDisk
  <2> QED
    BY <1>6, <2>1, <2>2
<1>8. ASSUME NEW y \in Syncs, Stage(y) PROVE Rest
  <2>1. /\ run[y].pc = "staging" /\ run[y].snap \in Snaps
        /\ run'[y].pc = "download" /\ run'[y].snap = run[y].snap
        /\ run'[y].state = run[y].state /\ run'[y].next = 1
        /\ staging'[run[y].snap] = {}
        /\ UNCHANGED <<final, saved, setting>>
    BY <1>1, <1>8 DEF Stage, RunsInOrder, Choosing, Runs
  <2>2. staging'[run'[y].snap] = 1 .. run'[y].next - 1
    BY <2>1
  <2>3. saved \subseteq run[y].state /\ (\A s \in run[y].state : final[s] = All)
        /\ run[y].snap \notin run[y].state
    BY <1>0, <2>1 DEF RunMatchesDisk
  <2>4. RunMatchesDisk'
    BY <1>2, <2>1, <2>2, <2>3 DEF RunMatchesDisk
  <2> QED
    BY <1>6, <2>1, <2>4
<1>9. ASSUME NEW y \in Syncs, Download(y) PROVE Rest
  <2>1. /\ run[y].pc = "download" /\ run[y].snap \in Snaps
        /\ run[y].next \in 1 .. Parts
        /\ staging[run[y].snap] = 1 .. run[y].next - 1
    BY <1>0, <1>1, <1>9, PartsAssumption
    DEF Download, RunsInOrder, Choosing, RunMatchesDisk, Runs
  <2>2. /\ run'[y].pc = IF run[y].next = Parts THEN "replace" ELSE "download"
        /\ run'[y].snap = run[y].snap /\ run'[y].state = run[y].state
        /\ run'[y].next = run[y].next + 1
        /\ staging'[run[y].snap] = staging[run[y].snap] \cup {run[y].next}
        /\ UNCHANGED <<final, saved, setting>>
    BY <1>1, <1>9, <2>1 DEF Download, Runs
  <2>3. staging'[run[y].snap] = 1 .. run[y].next
    BY <2>1, <2>2, PartsAssumption
  <2>4. run'[y].next - 1 = run[y].next
    BY <2>1, <2>2
  <2>5. run'[y].pc = "download" => staging'[run'[y].snap] = 1 .. run'[y].next - 1
    BY <2>2, <2>3, <2>4
  <2>6. run'[y].pc = "replace" => staging'[run'[y].snap] = All
    BY <2>2, <2>3 DEF All
  <2>7. RunMatchesDisk'
    BY <1>0, <1>2, <2>1, <2>2, <2>5, <2>6 DEF RunMatchesDisk
  <2> QED
    BY <1>6, <2>1, <2>2, <2>7
<1>10. ASSUME NEW y \in Syncs, RemoveFinal(y) PROVE Rest
  <2>1. PICK left \in OneLess(final[run[y].snap]) :
           /\ final' = [final EXCEPT ![run[y].snap] = left]
           /\ run' = [run EXCEPT ![y].pc = IF left = Absent THEN "rename" ELSE @]
    BY <1>10 DEF RemoveFinal
  <2>2. /\ run[y].pc = "replace" /\ run'[y].pc \in {"replace", "rename"}
        /\ run'[y].snap = run[y].snap /\ run'[y].state = run[y].state
        /\ run[y].snap \notin run[y].state
        /\ UNCHANGED <<staging, saved, setting>>
    BY <1>0, <1>1, <1>10, <2>1 DEF RemoveFinal, RunMatchesDisk, Runs
  <2>3. \A s \in run[y].state : final'[s] = All
    BY <1>0, <1>1, <2>1, <2>2 DEF RunMatchesDisk, Runs
  <2>4. RunMatchesDisk'
    BY <1>0, <1>2, <2>2, <2>3 DEF RunMatchesDisk
  <2> QED
    BY <1>6, <2>2, <2>4
<1>11. ASSUME NEW y \in Syncs, Rename(y) PROVE Rest
  <2>1. /\ run[y].pc = "rename" /\ run'[y].pc = "ack" /\ run'[y].snap = run[y].snap
        /\ run'[y].state = run[y].state
        /\ UNCHANGED <<saved, setting>>
    BY <1>1, <1>11 DEF Rename, Runs
  <2>2. run[y].snap \in Snaps /\ staging[run[y].snap] = All
    BY <1>0, <1>1, <2>1 DEF RunsInOrder, Choosing, RunMatchesDisk
  <2>3. final' = [final EXCEPT ![run[y].snap] = All]
    BY <1>11, <2>2 DEF Rename
  <2>4. final'[run[y].snap] = All /\ \A s \in run[y].state : final'[s] = All
    BY <1>0, <1>1, <2>1, <2>2, <2>3 DEF RunMatchesDisk, Runs
  <2>5. RunMatchesDisk'
    BY <1>0, <1>2, <2>1, <2>4 DEF RunMatchesDisk
  <2> QED
    BY <1>6, <2>1, <2>5
\* The end of a run writes what was known and the snapshot it published.
<1>12. ASSUME NEW y \in Syncs, SaveState(y) \/ SyncFails(y) PROVE Rest
  <2>1. /\ run[y].pc # "idle" /\ run'[y].pc = "idle"
        /\ run'[y].snap = None /\ run'[y].state = {}
        /\ saved' \in {saved, Remembers(y)}
        /\ UNCHANGED <<final, staging, setting>>
    BY <1>1, <1>12 DEF SaveState, SyncFails, NoRun
  <2>2. \A s \in Remembers(y) : final[s] = All
    BY <1>0, <2>1 DEF Remembers, RunMatchesDisk
  <2>3. setting # NoCall => setting \subseteq saved /\ setting \subseteq run[y].state
    BY <1>0, <2>1 DEF SettingIsKnown
  <2>4. run[y].state \subseteq Remembers(y)
    BY <1>1 DEF Remembers, Runs, None, Snaps
  <2>5. RunMatchesDisk'
    BY <1>2, <2>1 DEF RunMatchesDisk
  <2>6. SavedIsWhole'
    BY <1>0, <2>1, <2>2 DEF SavedIsWhole
  <2>7. SettingIsKnown'
    BY <1>2, <2>1, <2>3, <2>4 DEF SettingIsKnown
  <2> QED
    BY <2>5, <2>6, <2>7
<1>13. ASSUME LoadInterval PROVE Rest
  BY <1>0, <1>13 DEF LoadInterval, RunMatchesDisk, SavedIsWhole, SettingIsKnown
<1>14. ASSUME SaveInterval PROVE Rest
  <2>1. setting \subseteq saved /\ saved' \subseteq saved
    BY <1>0, <1>14 DEF SaveInterval, SettingIsKnown
  <2> QED
    BY <1>0, <1>14, <2>1 DEF SaveInterval, RunMatchesDisk, SavedIsWhole, SettingIsKnown
<1>15. ASSUME AppDies PROVE Rest
  BY <1>0, <1>15 DEF AppDies, RunMatchesDisk, SavedIsWhole, SettingIsKnown, NoRun
<1>16. ASSUME UNCHANGED syncVars PROVE Rest
  BY <1>0, <1>16 DEF syncVars, RunMatchesDisk, SavedIsWhole, SettingIsKnown
<1>17. Rest
  BY <1>3, <1>4, <1>5, <1>7, <1>8, <1>9, <1>10, <1>11, <1>12, <1>13, <1>14, <1>15, <1>16
  DEF SyncNext, Sync, allVars
<1> QED
  BY <1>0, <1>17 DEF DInv

LEMMA InitDInv == SyncInit => DInv
<1> SUFFICES ASSUME SyncInit PROVE DInv
  OBVIOUS
<1>1. RunMatchesDisk /\ SavedIsWhole /\ SettingIsKnown
  BY DEF SyncInit, RunMatchesDisk, SavedIsWhole, SettingIsKnown, NoRun
<1> QED
  BY <1>1, InitTInv DEF DInv

\* The server forgets confirmations but hears of none by itself.
LEMMA ServerHearsNothing == ServerNext => held' \subseteq held
<1> SUFFICES ASSUME ServerNext PROVE held' \subseteq held
  OBVIOUS
<1>1. ASSUME NEW w \in Workers PROVE Begin(w) \/ Build(w) \/ Die(w) => UNCHANGED held
  BY DEF Begin, Build, Insert, Upload, Finish, BuildFails, Die
<1>2. ASSUME NEW w \in Workers PROVE Retain(w) => held' \subseteq held
  BY DEF Retain, RetainRead, Consider, DeleteObjects, DeleteObjectsFails, DeleteRow, RetainCommit
<1> QED
  BY <1>1, <1>2 DEF ServerNext, GrowOld, DocumentsGrow, Register, Revoke

\* What a step makes the desktop claim is so.
LEMMA ClaimsAreTrue ==
  ASSUME OneRun, DInv, DInv', [SyncNext]_allVars, NEW s \in Snaps
  PROVE  /\ final'[s] \in (SUBSET final[s]) \cup {Absent, All}
         /\ <<s, Desktop>> \in held' \ held => final[s] = All
         /\ s \in saved' => final'[s] = All
<1>1. TInv /\ RunMatchesDisk /\ SavedIsWhole'
  BY DEF DInv
<1>2. final \in [Snaps -> Dirs] /\ RunsInOrder
  BY <1>1 DEF TInv, SyncTypeOK
\* A final directory is emptied file by file, or is the finished staging directory.
<1>3. final'[s] \in (SUBSET final[s]) \cup {Absent, All}
  <2>1. ASSUME NEW y \in Syncs, RemoveFinal(y) PROVE final'[s] \in (SUBSET final[s]) \cup {Absent, All}
    <3>1. PICK left \in OneLess(final[run[y].snap]) : final' = [final EXCEPT ![run[y].snap] = left]
      BY <2>1 DEF RemoveFinal
    <3>2. left = Absent \/ left \subseteq final[run[y].snap]
      BY <3>1 DEF OneLess
    <3> QED
      <4>1. final'[s] = IF s = run[y].snap THEN left ELSE final[s]
        BY <1>2, <3>1
      <4>2. final'[s] = Absent \/ final'[s] \subseteq final[s]
        BY <3>2, <4>1
      <4> QED
        BY <4>2
  <2>2. ASSUME NEW y \in Syncs, Rename(y) PROVE final'[s] \in (SUBSET final[s]) \cup {Absent, All}
    <3>1. run[y].snap \in Snaps /\ staging[run[y].snap] = All
      BY <1>1, <1>2, <2>2 DEF Rename, RunMatchesDisk, RunsInOrder, Choosing
    <3> QED
      <4>1. final' = [final EXCEPT ![run[y].snap] = All]
        BY <2>2, <3>1 DEF Rename
      <4>2. final'[s] = All \/ final'[s] = final[s]
        BY <1>2, <4>1
      <4> QED
        BY <4>2
  <2>3. CASE UNCHANGED final
    BY <2>3
  <2>4. \/ UNCHANGED final
        \/ \E y \in Syncs : RemoveFinal(y) \/ Rename(y)
    BY DEF SyncNext, syncVars, allVars, Sync, Load, Note, Pick, GetManifest, Stage, Download,
       AckDownload, AckAnswered, SaveState, SyncFails, LoadInterval, SaveInterval, AppDies
  <2> QED
    BY <2>1, <2>2, <2>3, <2>4
\* The server hears of a copy from the run that has just published it.
<1>4. <<s, Desktop>> \in held' \ held => final[s] = All
  <2>1. ASSUME NEW y \in Syncs, AckDownload(y), <<s, Desktop>> \in held' \ held
        PROVE  final[s] = All
    <3>1. s = run[y].snap
      BY <2>1 DEF AckDownload, Ack
    <3>2. run[y].pc = "ack" /\ run[y].snap # None
      BY <2>1, <3>1 DEF AckDownload, None, Snaps
    <3> QED
      BY <1>1, <3>1, <3>2 DEF RunMatchesDisk
  <2>2. \/ held' \subseteq held
        \/ \E y \in Syncs : AckDownload(y)
    BY ServerHearsNothing DEF SyncNext, allVars, vars, Sync, Load, Note, Pick, GetManifest, Stage,
       Download, RemoveFinal, Rename, AckAnswered, SaveState, SyncFails, LoadInterval, SaveInterval,
       AppDies
  <2> QED
    BY <2>1, <2>2
<1> QED
  BY <1>1, <1>3, <1>4 DEF SavedIsWhole

\* A run writes back every entry it found in the file.
LEMMA RunsKeepEntries ==
  ASSUME OneRun, DInv, [SyncNext]_allVars, NEW y \in Syncs, run'[y] # run[y]
  PROVE  saved \subseteq saved'
<1>1. TInv /\ RunMatchesDisk
  BY DEF DInv
<1>2. run \in [Syncs -> Runs] /\ saved \subseteq Snaps
  BY <1>1 DEF TInv, SyncTypeOK, Runs
<1>3. ASSUME NEW z \in Syncs, Note(z) PROVE saved \subseteq saved'
  BY <1>1, <1>3 DEF Note, RunMatchesDisk
<1>4. ASSUME NEW z \in Syncs, SaveState(z) \/ SyncFails(z) PROVE saved \subseteq saved'
  <2>1. saved \subseteq run[z].state /\ saved' \in {saved, Remembers(z)}
    BY <1>1, <1>4 DEF SaveState, SyncFails, RunMatchesDisk
  <2>2. run[z].state \subseteq Remembers(z)
    BY <1>2 DEF Remembers, Runs, None, Snaps
  <2> QED
    BY <2>1, <2>2
<1>5. \/ UNCHANGED saved
      \/ \E z \in Syncs : Note(z) \/ SaveState(z) \/ SyncFails(z)
  BY DEF SyncNext, syncVars, allVars, Sync, Load, Pick, GetManifest, Stage, Download, RemoveFinal,
     Rename, AckDownload, AckAnswered, LoadInterval, SaveInterval, AppDies
<1> QED
  BY <1>3, <1>4, <1>5

----------------------------------------------------------------------------
\* With a desktop around it the server is still the server of BackupServer:
\* every theorem about Spec holds of SyncSpec.
THEOREM SyncImplementsServer == SyncSpec => Spec
<1>1. SyncInit => Init
  BY DEF SyncInit
<1> QED
  BY <1>1, InitTInv, NextTInv, SyncStepIsServerStep, PTL DEF SyncSpec, Spec

\* The desktop's state keeps its types however many runs of runSync overlap.
THEOREM SyncTypeCorrect == SyncSpec => []SyncTypeOK
<1>1. TInv => SyncTypeOK
  BY DEF TInv
<1> QED
  BY <1>1, InitTInv, NextTInv, PTL DEF SyncSpec

\* When no two runs overlap, nothing unfinished passes for a backup (sync.js): not a
\* directory that takes its final name, nor what the server is told, nor what the state
\* file calls completed, wherever a run failed, a directory was left half removed or the
\* app died.
THEOREM ClaimedIsComplete == ASSUME OneRun PROVE SyncSpec => CompleteWhenClaimed
<1> DEFINE Claims == \A s \in Snaps :
         /\ final'[s] \in (SUBSET final[s]) \cup {Absent, All}
         /\ <<s, Desktop>> \in held' \ held => final[s] = All
         /\ s \in saved' => final'[s] = All
<1>1. DInv /\ [SyncNext]_allVars => DInv'
  BY NextDInv
<1>2. DInv /\ DInv' /\ [SyncNext]_allVars => [Claims]_allVars
  BY ClaimsAreTrue
<1> QED
  BY <1>1, <1>2, InitDInv, PTL DEF SyncSpec, CompleteWhenClaimed

\* When no two runs overlap, no run forgets a completed snapshot, setSyncInterval's
\* write in the middle of it included (runSync's catch block).
THEOREM RunsRemember == ASSUME OneRun PROVE SyncSpec => RunsForgetNothing
<1> DEFINE Kept == (\E y \in Syncs : run'[y] # run[y]) => saved \subseteq saved'
<1>1. DInv /\ [SyncNext]_allVars => DInv'
  BY NextDInv
<1>2. DInv /\ [SyncNext]_allVars => [Kept]_allVars
  BY RunsKeepEntries
<1> QED
  BY <1>1, <1>2, InitDInv, PTL DEF SyncSpec, RunsForgetNothing
=============================================================================
