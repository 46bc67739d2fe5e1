---------------------------- MODULE BackupProofs ----------------------------
(***************************************************************************)
(* Theorems about BackupServer for every number of snapshots, workers,     *)
(* devices and every retention window: its types, that objects are deleted *)
(* only from snapshots a device has confirmed, that the newest snapshots   *)
(* stay whole, and that the last good backup is never taken.               *)
(***************************************************************************)
EXTENDS BackupServer, FiniteSetTheorems, WellFoundedInduction, TLAPS

Confirmed(s) == \E d \in Devices : <<s, d>> \in held
Listed == {"ready", "pruned"}

\* A builder works on a row of its own that nobody has seen ready.
BuildersApart ==
    /\ \A w \in Workers : job[w].pc \in {"pending", "building"} =>
           job[w].snap \in Snaps /\ row[job[w].snap] \in Unfinished \cup {"failed"}
    /\ \A v, w \in Workers :
           job[v].pc \in {"pending", "building"} /\ job[w].pc \in {"pending", "building"}
             /\ job[v].snap = job[w].snap => v = w

\* A retention works on rows that were ready when it read them.
RetentionsOnListed ==
    \A w \in Workers : \A s \in job[w].todo \cup job[w].gone : row[s] \in Listed

\* The snapshot a retention is about to delete has been confirmed, unless
\* another retention has pruned it meanwhile.
DeletesConfirmed ==
    \A w \in Workers : job[w].pc \in {"deleting", "unlinking"} =>
        /\ job[w].snap \in Snaps
        /\ row[job[w].snap] \in Listed
        /\ row[job[w].snap] = "ready" => Confirmed(job[w].snap)

IInv == /\ TypeOK /\ BuildersApart /\ RetentionsOnListed /\ DeletesConfirmed
        /\ OnlyConfirmedIsPruned

----------------------------------------------------------------------------
LEMMA IdleIsJob == Idle \in Jobs
  BY DEF Idle, Jobs, Pcs

\* The updates the steps make to a worker's record.
LEMMA JobUpdates ==
  ASSUME NEW j \in Jobs, NEW c \in Pcs, NEW s \in Snaps \cup {None},
         NEW p \in Snaps \cup {None}, NEW T \in SUBSET Snaps
  PROVE  /\ [j EXCEPT !.pc = c] \in Jobs
         /\ [j EXCEPT !.todo = T] \in Jobs
         /\ [j EXCEPT !.pc = c, !.snap = s] \in Jobs
         /\ [j EXCEPT !.pc = c, !.parent = p] \in Jobs
         /\ [j EXCEPT !.pc = c, !.snap = s, !.todo = T] \in Jobs
         /\ [j EXCEPT !.pc = c, !.snap = s, !.gone = T] \in Jobs
         /\ j.todo \subseteq Snaps /\ j.gone \subseteq Snaps
         /\ j.snap \in Snaps \cup {None} /\ j.parent \in Snaps \cup {None}
  BY DEF Jobs

LEMMA InitIInv == Init => IInv
<1> SUFFICES ASSUME Init PROVE IInv
  OBVIOUS
<1>1. TypeOK
  BY IdleIsJob DEF Init, TypeOK, RowStatus
<1>2. \A w \in Workers : job[w].pc = "idle" /\ job[w].todo = {} /\ job[w].gone = {}
  BY DEF Init, Idle
<1>3. BuildersApart /\ RetentionsOnListed /\ DeletesConfirmed
  BY <1>2 DEF BuildersApart, RetentionsOnListed, DeletesConfirmed
<1>4. OnlyConfirmedIsPruned
  BY DEF Init, OnlyConfirmedIsPruned, Ready
<1> QED
  BY <1>1, <1>3, <1>4 DEF IInv

\* The step of a worker writes a record of the right type.
LEMMA NextTypeOK == IInv /\ [Next]_vars => TypeOK'
<1> SUFFICES ASSUME IInv, TypeOK, [Next]_vars PROVE TypeOK'
  BY DEF IInv
<1> USE DEF TypeOK, RowStatus, Unfinished
<1>0. \A w \in Workers : job[w] \in Jobs
  OBVIOUS
<1>1. ASSUME NEW w \in Workers, Begin(w) PROVE TypeOK'
  BY <1>0, <1>1 DEF Begin, Demoted, Jobs, Pcs
<1>2. ASSUME NEW w \in Workers, Insert(w) PROVE TypeOK'
  <2>1. PICK s \in Snaps :
           /\ row' = [row EXCEPT ![s] = "pending"]
           /\ job' = [job EXCEPT ![w] = [job[w] EXCEPT !.pc = "pending", !.snap = s]]
    BY <1>2 DEF Insert, Unstarted
  <2>2. [job[w] EXCEPT !.pc = "pending", !.snap = s] \in Jobs
    BY <1>0, JobUpdates DEF Pcs
  <2> QED
    BY <1>2, <2>1, <2>2 DEF Insert
<1>3. ASSUME NEW w \in Workers, Upload(w) PROVE TypeOK'
  <2>1. PICK p \in Snaps \cup {None} :
           job' = [job EXCEPT ![w] = [job[w] EXCEPT !.pc = "building", !.parent = p]]
    BY <1>3 DEF Upload
  <2>2. [job[w] EXCEPT !.pc = "building", !.parent = p] \in Jobs
    BY <1>0, JobUpdates DEF Pcs
  <2> QED
    BY <1>3, <2>1, <2>2 DEF Upload
<1>4. ASSUME NEW w \in Workers, Finish(w) \/ BuildFails(w) PROVE TypeOK'
  <2>1. [Idle EXCEPT !.pc = "built"] \in Jobs
    BY IdleIsJob DEF Jobs, Pcs
  <2>2. job' \in [Workers -> Jobs]
    BY <1>4, <2>1, IdleIsJob DEF Finish, BuildFails
  <2> QED
    BY <1>4, <2>2 DEF Finish, BuildFails
<1>5. ASSUME NEW w \in Workers, RetainRead(w) PROVE TypeOK'
  <2>1. Candidates(Ready) \subseteq Snaps
    BY DEF Candidates, Ready
  <2>2. [Idle EXCEPT !.pc = "choosing", !.todo = Candidates(Ready)] \in Jobs
    BY <2>1, IdleIsJob DEF Jobs, Pcs
  <2> QED
    BY <1>5, <2>2, IdleIsJob DEF RetainRead
<1>6. ASSUME NEW w \in Workers, Consider(w) PROVE TypeOK'
  <2>1. PICK s \in job[w].todo :
           job' = [job EXCEPT ![w] =
                IF OffsiteCopy(s)
                THEN [job[w] EXCEPT !.pc = "deleting", !.snap = s, !.todo = job[w].todo \ {s}]
                ELSE [job[w] EXCEPT !.todo = job[w].todo \ {s}]]
    BY <1>6 DEF Consider
  <2>2. s \in Snaps /\ job[w].todo \ {s} \subseteq Snaps
    BY <1>0, JobUpdates DEF Jobs
  <2>3. /\ [job[w] EXCEPT !.pc = "deleting", !.snap = s, !.todo = job[w].todo \ {s}] \in Jobs
        /\ [job[w] EXCEPT !.todo = job[w].todo \ {s}] \in Jobs
    <3>1. /\ "deleting" \in Pcs /\ s \in Snaps \cup {None}
          /\ job[w].todo \ {s} \in SUBSET Snaps
      BY <2>2 DEF Pcs
    <3> HIDE DEF TypeOK
    <3> DEFINE T == job[w].todo \ {s}
    <3>2. T \in SUBSET Snaps
      BY <3>1
    <3> HIDE DEF T
    <3>3. [job[w] EXCEPT !.pc = "deleting", !.snap = s, !.todo = T] \in Jobs
      BY <1>0, <3>1, <3>2, JobUpdates
    <3>4. [job[w] EXCEPT !.todo = T] \in Jobs
      BY <1>0, <3>1, <3>2, JobUpdates
    <3> QED
      BY <3>3, <3>4 DEF T
  <2> QED
    BY <1>6, <2>1, <2>3 DEF Consider
<1>7. ASSUME NEW w \in Workers, DeleteObjects(w) \/ DeleteObjectsFails(w) PROVE TypeOK'
  <2>1. /\ [job[w] EXCEPT !.pc = "unlinking"] \in Jobs
        /\ [job[w] EXCEPT !.pc = "choosing", !.snap = None] \in Jobs
    BY <1>0, JobUpdates DEF Pcs
  <2>2. CASE DeleteObjects(w)
    BY <2>1, <2>2 DEF DeleteObjects
  <2>3. CASE DeleteObjectsFails(w)
    <3>1. PICK left \in {store[job[w].snap], "partial"} :
             store' = [store EXCEPT ![job[w].snap] = left]
      BY <2>3 DEF DeleteObjectsFails
    <3>2. job[w].snap \in Snaps
      BY <2>3 DEF DeleteObjectsFails, IInv, DeletesConfirmed
    <3>3. store' \in [Snaps -> {"none", "partial", "whole"}]
      BY <3>1, <3>2
    <3> QED
      BY <2>1, <2>3, <3>3 DEF DeleteObjectsFails
  <2> QED
    BY <1>7, <2>2, <2>3
<1>8. ASSUME NEW w \in Workers, DeleteRow(w) PROVE TypeOK'
  <2>1. CASE row[job[w].snap] = "ready"
    <3>1. job[w].snap \in Snaps
      BY <1>8 DEF DeleteRow, IInv, DeletesConfirmed
    <3>2. [job[w] EXCEPT !.pc = "choosing", !.snap = None,
                         !.gone = job[w].gone \cup {job[w].snap}] \in Jobs
      <4>1. /\ "choosing" \in Pcs /\ None \in Snaps \cup {None}
            /\ job[w].gone \cup {job[w].snap} \in SUBSET Snaps
        BY <1>0, <3>1 DEF Pcs, Jobs
      <4> HIDE DEF TypeOK
      <4> QED
        BY <1>0, <4>1, JobUpdates
    <3> QED
      BY <1>8, <2>1, <3>2 DEF DeleteRow
  <2>2. CASE row[job[w].snap] # "ready"
    BY <1>8, <2>2, IdleIsJob DEF DeleteRow
  <2> QED
    BY <2>1, <2>2
<1>9. ASSUME NEW w \in Workers, RetainCommit(w) \/ Die(w) PROVE TypeOK'
  BY <1>9, IdleIsJob DEF RetainCommit, Die, Deleting
<1>10. CASE DocumentsGrow \/ (\E s \in Snaps : GrowOld(s)) \/ UNCHANGED vars
  BY <1>10 DEF DocumentsGrow, GrowOld, vars
<1>11. ASSUME NEW d \in Devices, Register(d) \/ Revoke(d) PROVE TypeOK'
  BY <1>11 DEF Register, Revoke
<1>12. ASSUME NEW s \in Snaps, NEW d \in Devices, Ack(s, d) PROVE TypeOK'
  BY <1>12 DEF Ack
<1> QED
  BY <1>1, <1>2, <1>3, <1>4, <1>5, <1>6, <1>7, <1>8, <1>9, <1>10, <1>11, <1>12
  DEF Next, ServerNext, Build, Retain

----------------------------------------------------------------------------
\* The rest of the invariant, action by action.
LEMMA NextIInv == IInv /\ [Next]_vars => IInv'
<1> SUFFICES ASSUME IInv, [Next]_vars PROVE IInv'
  OBVIOUS
<1>0. TypeOK /\ TypeOK'
  BY NextTypeOK DEF IInv
<1> DEFINE Rest == /\ BuildersApart /\ RetentionsOnListed /\ DeletesConfirmed
                   /\ OnlyConfirmedIsPruned
<1> USE <1>0 DEF IInv, TypeOK
<1>1. ASSUME NEW w \in Workers, Begin(w) PROVE Rest'
  <2>1. /\ job'[w].pc \in {"idle", "locked"}
        /\ job'[w].todo = job[w].todo /\ job'[w].gone = job[w].gone
        /\ \A v \in Workers \ {w} : job'[v] = job[v]
        /\ UNCHANGED <<store, held>>
    BY <1>1 DEF Begin, Jobs
  <2>2. \A s \in Snaps : row'[s] = row[s] \/ (row[s] \in Unfinished /\ row'[s] = "failed")
    BY <1>1 DEF Begin, Demoted
  <2>3. BuildersApart'
    BY <2>1, <2>2 DEF BuildersApart, Unfinished
  <2>4. RetentionsOnListed'
    BY <2>1, <2>2 DEF RetentionsOnListed, Listed, Unfinished, Jobs
  <2>5. DeletesConfirmed'
    <3> SUFFICES ASSUME NEW v \in Workers, job'[v].pc \in {"deleting", "unlinking"}
                 PROVE  (/\ job[v].snap \in Snaps
                         /\ row[job[v].snap] \in Listed
                         /\ row[job[v].snap] = "ready" => Confirmed(job[v].snap))'
      BY DEF DeletesConfirmed
    <3>1. job'[v] = job[v]
      BY <2>1, <2>2
    <3>2. /\ job[v].snap \in Snaps /\ row[job[v].snap] \in Listed
          /\ row[job[v].snap] = "ready" => Confirmed(job[v].snap)
      BY <3>1 DEF DeletesConfirmed
    <3>3. row'[job[v].snap] = row[job[v].snap]
      BY <3>2, <2>1, <2>2 DEF Listed, Unfinished
    <3>4. Confirmed(job[v].snap) => Confirmed(job[v].snap)'
      BY <3>1, <2>1, <2>2 DEF Confirmed
    <3> QED
      BY <3>1, <3>2, <3>3, <3>4
  <2>6. OnlyConfirmedIsPruned'
    BY <2>1, <2>2 DEF OnlyConfirmedIsPruned, Confirmed, Ready
  <2> QED
    BY <2>3, <2>4, <2>5, <2>6
<1>2. ASSUME NEW w \in Workers, Insert(w) PROVE Rest'
  <2>1. PICK s \in Snaps :
           /\ row[s] = "none"
           /\ row' = [row EXCEPT ![s] = "pending"]
           /\ job' = [job EXCEPT ![w] = [job[w] EXCEPT !.pc = "pending", !.snap = s]]
    BY <1>2 DEF Insert, Unstarted
  <2>2. /\ job'[w].pc = "pending" /\ job'[w].snap = s
        /\ job'[w].todo = job[w].todo /\ job'[w].gone = job[w].gone
        /\ \A v \in Workers \ {w} : job'[v] = job[v]
        /\ UNCHANGED <<store, held>>
    BY <1>2, <2>1 DEF Insert, Jobs
  <2>3. BuildersApart'
    BY <2>1, <2>2 DEF BuildersApart, Unfinished
  <2>4. RetentionsOnListed'
    BY <2>1, <2>2 DEF RetentionsOnListed, Listed, Jobs
  <2>5. DeletesConfirmed'
    BY <2>1, <2>2, ZenonT(60) DEF DeletesConfirmed, Confirmed, Listed
  <2>6. OnlyConfirmedIsPruned'
    BY <2>1, <2>2 DEF OnlyConfirmedIsPruned, Ready
  <2> QED
    BY <2>3, <2>4, <2>5, <2>6
<1>3. ASSUME NEW w \in Workers, Upload(w) PROVE Rest'
  <2>1. PICK p \in Snaps \cup {None} :
           job' = [job EXCEPT ![w] = [job[w] EXCEPT !.pc = "building", !.parent = p]]
    BY <1>3 DEF Upload
  <2>2. /\ job'[w].pc = "building" /\ job'[w].snap = job[w].snap
        /\ job'[w].todo = job[w].todo /\ job'[w].gone = job[w].gone
        /\ \A v \in Workers \ {w} : job'[v] = job[v]
        /\ UNCHANGED held
    BY <1>3, <2>1 DEF Upload, Jobs
  <2>3. /\ job[w].snap \in Snaps /\ row[job[w].snap] \notin Listed
        /\ row' = [row EXCEPT ![job[w].snap] = "uploading"]
        /\ store' = [store EXCEPT ![job[w].snap] = "partial"]
        /\ job[w].pc = "pending"
    BY <1>3 DEF Upload, BuildersApart, Listed, Unfinished
  <2>4. BuildersApart'
    BY <2>2, <2>3 DEF BuildersApart, Unfinished
  <2>5. RetentionsOnListed'
    BY <2>2, <2>3 DEF RetentionsOnListed, Listed, Jobs
  <2>6. DeletesConfirmed'
    <3> SUFFICES ASSUME NEW v \in Workers, job'[v].pc \in {"deleting", "unlinking"}
                 PROVE  (/\ job[v].snap \in Snaps
                         /\ row[job[v].snap] \in Listed
                         /\ row[job[v].snap] = "ready" => Confirmed(job[v].snap))'
      BY DEF DeletesConfirmed
    <3>1. job'[v] = job[v]
      BY <2>2, <2>3
    <3>2. /\ job[v].snap \in Snaps /\ row[job[v].snap] \in Listed
          /\ row[job[v].snap] = "ready" => Confirmed(job[v].snap)
      BY <3>1 DEF DeletesConfirmed
    <3>3. row'[job[v].snap] = row[job[v].snap]
      BY <3>2, <2>2, <2>3 DEF Listed
    <3>4. Confirmed(job[v].snap) => Confirmed(job[v].snap)'
      BY <3>1, <2>2, <2>3 DEF Confirmed
    <3> QED
      BY <3>1, <3>2, <3>3, <3>4
  <2>7. OnlyConfirmedIsPruned'
    BY <2>2, <2>3 DEF OnlyConfirmedIsPruned, Ready
  <2> QED
    BY <2>4, <2>5, <2>6, <2>7
<1>4. ASSUME NEW w \in Workers, Finish(w) \/ BuildFails(w) PROVE Rest'
  <2>1. /\ job'[w].pc \in {"idle", "built"} /\ job'[w].todo = {} /\ job'[w].gone = {}
        /\ \A v \in Workers \ {w} : job'[v] = job[v]
        /\ UNCHANGED held
    BY <1>4 DEF Finish, BuildFails, Idle
  <2>2. /\ job[w].pc \in {"pending", "building"}
        /\ job[w].snap \in Snaps /\ row[job[w].snap] \notin Listed
    BY <1>4 DEF Finish, BuildFails, BuildersApart, Listed, Unfinished
  <2>3. \/ /\ row' = [row EXCEPT ![job[w].snap] = "failed"]
           /\ UNCHANGED store
        \/ /\ row' = [row EXCEPT ![job[w].snap] = "ready"]
           /\ store' = [store EXCEPT ![job[w].snap] = "whole"]
    BY <1>4 DEF Finish, BuildFails
  <2>4. BuildersApart'
    BY <2>1, <2>2, <2>3 DEF BuildersApart
  <2>5. RetentionsOnListed'
    BY <2>1, <2>2, <2>3 DEF RetentionsOnListed, Listed, Jobs
  <2>6. DeletesConfirmed'
    <3> SUFFICES ASSUME NEW v \in Workers, job'[v].pc \in {"deleting", "unlinking"}
                 PROVE  (/\ job[v].snap \in Snaps
                         /\ row[job[v].snap] \in Listed
                         /\ row[job[v].snap] = "ready" => Confirmed(job[v].snap))'
      BY DEF DeletesConfirmed
    <3>1. job'[v] = job[v]
      BY <2>1, <2>2, <2>3
    <3>2. /\ job[v].snap \in Snaps /\ row[job[v].snap] \in Listed
          /\ row[job[v].snap] = "ready" => Confirmed(job[v].snap)
      BY <3>1 DEF DeletesConfirmed
    <3>3. row'[job[v].snap] = row[job[v].snap]
      BY <3>2, <2>1, <2>2, <2>3 DEF Listed
    <3>4. Confirmed(job[v].snap) => Confirmed(job[v].snap)'
      BY <3>1, <2>1, <2>2, <2>3 DEF Confirmed
    <3> QED
      BY <3>1, <3>2, <3>3, <3>4
  <2>7. OnlyConfirmedIsPruned'
    BY <2>1, <2>2, <2>3 DEF OnlyConfirmedIsPruned, Ready
  <2> QED
    BY <2>4, <2>5, <2>6, <2>7
<1>5. ASSUME NEW w \in Workers, RetainRead(w) PROVE Rest'
  <2>1. /\ job'[w].pc \in {"idle", "choosing"}
        /\ job'[w].todo \subseteq Ready /\ job'[w].gone = {}
        /\ \A v \in Workers \ {w} : job'[v] = job[v]
        /\ UNCHANGED <<row, store, held>>
    BY <1>5 DEF RetainRead, Idle, Candidates
  <2>2. BuildersApart'
    BY <2>1 DEF BuildersApart
  <2>3. RetentionsOnListed'
    BY <2>1 DEF RetentionsOnListed, Listed, Ready, Jobs
  <2>4. DeletesConfirmed'
    BY <2>1 DEF DeletesConfirmed, Confirmed, Listed
  <2>5. OnlyConfirmedIsPruned'
    BY <2>1 DEF OnlyConfirmedIsPruned, Confirmed, Ready
  <2> QED
    BY <2>2, <2>3, <2>4, <2>5
<1>6. ASSUME NEW w \in Workers, Consider(w) PROVE Rest'
  <2>1. PICK s \in job[w].todo :
           job' = [job EXCEPT ![w] =
                IF OffsiteCopy(s)
                THEN [job[w] EXCEPT !.pc = "deleting", !.snap = s, !.todo = job[w].todo \ {s}]
                ELSE [job[w] EXCEPT !.todo = job[w].todo \ {s}]]
    BY <1>6 DEF Consider
  <2>2. /\ job'[w].pc \in {"choosing", "deleting"}
        /\ job'[w].pc = "deleting" => job'[w].snap = s /\ Confirmed(s)
        /\ job'[w].todo \subseteq job[w].todo /\ job'[w].gone = job[w].gone
        /\ \A v \in Workers \ {w} : job'[v] = job[v]
        /\ UNCHANGED <<row, store, held>>
    <3>1. job[w].pc = "choosing" /\ UNCHANGED <<row, store, held>>
      BY <1>6 DEF Consider
    <3>2. CASE OffsiteCopy(s)
      <4>1. Confirmed(s)
        BY <3>2 DEF OffsiteCopy, Confirmed
      <4> QED
        BY <2>1, <3>1, <3>2, <4>1 DEF Jobs
    <3>3. CASE ~OffsiteCopy(s)
      BY <2>1, <3>1, <3>3 DEF Jobs
    <3> QED
      BY <3>2, <3>3
  <2>3. s \in Snaps /\ row[s] \in Listed
    BY DEF RetentionsOnListed, Jobs
  <2>4. BuildersApart'
    BY <2>2, <2>3 DEF BuildersApart
  <2>5. RetentionsOnListed'
    BY <2>2, <2>3 DEF RetentionsOnListed, Listed, Ready, Jobs
  <2>6. DeletesConfirmed'
    <3> SUFFICES ASSUME NEW v \in Workers, job'[v].pc \in {"deleting", "unlinking"}
                 PROVE  /\ job'[v].snap \in Snaps /\ row'[job'[v].snap] \in Listed
                        /\ row'[job'[v].snap] = "ready" => Confirmed(job[v].snap)'
      BY DEF DeletesConfirmed
    <3>1. \A t \in Snaps : Confirmed(t)' <=> Confirmed(t)
      BY <2>2 DEF Confirmed
    <3>2. CASE v = w
      BY <2>2, <2>3, <3>1, <3>2
    <3>3. CASE v # w
      <4>1. job'[v] = job[v] /\ row' = row
        BY <2>2, <3>3
      <4> QED
        BY <3>1, <4>1 DEF DeletesConfirmed
    <3> QED
      BY <3>2, <3>3
  <2>7. OnlyConfirmedIsPruned'
    BY <2>2, <2>3 DEF OnlyConfirmedIsPruned, Confirmed, Ready
  <2> QED
    BY <2>4, <2>5, <2>6, <2>7
<1>7. ASSUME NEW w \in Workers, DeleteObjects(w) \/ DeleteObjectsFails(w) PROVE Rest'
  <2>1. /\ job'[w].pc \in {"unlinking", "choosing"}
        /\ job'[w].pc = "unlinking" => job'[w].snap = job[w].snap
        /\ job'[w].todo = job[w].todo /\ job'[w].gone = job[w].gone
        /\ \A v \in Workers \ {w} : job'[v] = job[v]
        /\ UNCHANGED <<row, held>>
    <3>1. CASE DeleteObjects(w)
      BY <3>1 DEF DeleteObjects, Jobs
    <3>2. CASE DeleteObjectsFails(w)
      BY <3>2 DEF DeleteObjectsFails, Jobs
    <3> QED
      BY <1>7, <3>1, <3>2
  <2>2. /\ job[w].pc = "deleting" /\ job[w].snap \in Snaps
        /\ row[job[w].snap] = "ready" => Confirmed(job[w].snap)
        /\ \A s \in Snaps \ {job[w].snap} : store'[s] = store[s]
    BY <1>7 DEF DeleteObjects, DeleteObjectsFails, DeletesConfirmed
  <2>3. BuildersApart'
    BY <2>1, <2>2 DEF BuildersApart
  <2>4. RetentionsOnListed'
    BY <2>1, <2>2 DEF RetentionsOnListed, Listed, Ready, Jobs
  <2>5. DeletesConfirmed'
    BY <2>1, <2>2, ZenonT(60) DEF DeletesConfirmed, Confirmed, Listed
  <2>6. OnlyConfirmedIsPruned'
    BY <2>1, <2>2 DEF OnlyConfirmedIsPruned, Confirmed, Ready
  <2> QED
    BY <2>3, <2>4, <2>5, <2>6
<1>8. ASSUME NEW w \in Workers, DeleteRow(w) PROVE Rest'
  <2>1. /\ job'[w].pc \in {"idle", "choosing"}
        /\ job'[w].todo \subseteq job[w].todo
        /\ job'[w].gone \subseteq job[w].gone \cup {job[w].snap}
        /\ \A v \in Workers \ {w} : job'[v] = job[v]
        /\ UNCHANGED <<row, store, held>>
    BY <1>8 DEF DeleteRow, Idle, Jobs
  <2>2. row[job[w].snap] \in Listed
    BY <1>8 DEF DeleteRow, DeletesConfirmed
  <2>3. BuildersApart'
    BY <2>1, <2>2 DEF BuildersApart
  <2>4. RetentionsOnListed'
    BY <2>1, <2>2 DEF RetentionsOnListed, Listed, Ready, Jobs
  <2>5. DeletesConfirmed'
    BY <2>1, <2>2, ZenonT(60) DEF DeletesConfirmed, Confirmed, Listed
  <2>6. OnlyConfirmedIsPruned'
    BY <2>1, <2>2 DEF OnlyConfirmedIsPruned, Confirmed, Ready
  <2> QED
    BY <2>3, <2>4, <2>5, <2>6
<1>9. ASSUME NEW w \in Workers, RetainCommit(w) PROVE Rest'
  <2>1. /\ job'[w].pc = "idle" /\ job'[w].todo = {} /\ job'[w].gone = {}
        /\ \A v \in Workers \ {w} : job'[v] = job[v]
        /\ row' = [s \in Snaps |-> IF s \in job[w].gone THEN "pruned" ELSE row[s]]
        /\ held' = {h \in held : h[1] \notin job[w].gone}
        /\ UNCHANGED store
    BY <1>9 DEF RetainCommit, Deleting, Idle
  <2>2. \A s \in job[w].gone : s \in Snaps /\ row[s] \in Listed
    BY DEF RetentionsOnListed, Jobs
  <2>3. \A s \in Snaps : row'[s] = "ready" =>
           row[s] = "ready" /\ (Confirmed(s) => Confirmed(s)')
    BY <2>1 DEF Confirmed
  <2>4. BuildersApart'
    BY <2>1, <2>2 DEF BuildersApart, Listed, Unfinished
  <2>5. RetentionsOnListed'
    BY <2>1, <2>2 DEF RetentionsOnListed, Listed, Jobs
  <2>6. DeletesConfirmed'
    BY <2>1, <2>2, <2>3 DEF DeletesConfirmed, Listed
  <2>7. OnlyConfirmedIsPruned'
    BY <2>1, <2>3 DEF OnlyConfirmedIsPruned, Ready, Confirmed
  <2> QED
    BY <2>4, <2>5, <2>6, <2>7
<1>10. ASSUME NEW w \in Workers, Die(w) PROVE Rest'
  <2>1. /\ job'[w].pc = "idle" /\ job'[w].todo = {} /\ job'[w].gone = {}
        /\ \A v \in Workers \ {w} : job'[v] = job[v]
        /\ UNCHANGED <<row, store, held>>
    BY <1>10 DEF Die, Idle
  <2>2. BuildersApart'
    BY <2>1 DEF BuildersApart
  <2>3. RetentionsOnListed'
    BY <2>1 DEF RetentionsOnListed, Listed, Ready, Jobs
  <2>4. DeletesConfirmed'
    BY <2>1 DEF DeletesConfirmed, Confirmed, Listed
  <2>5. OnlyConfirmedIsPruned'
    BY <2>1 DEF OnlyConfirmedIsPruned, Confirmed, Ready
  <2> QED
    BY <2>2, <2>3, <2>4, <2>5
<1>11. CASE \/ DocumentsGrow \/ (\E s \in Snaps : GrowOld(s)) \/ UNCHANGED vars
            \/ \E d \in Devices : Register(d) \/ Revoke(d)
  BY <1>11 DEF DocumentsGrow, GrowOld, Register, Revoke, vars, BuildersApart,
     RetentionsOnListed, DeletesConfirmed, OnlyConfirmedIsPruned, Confirmed, Ready
<1>12. ASSUME NEW s \in Snaps, NEW d \in Devices, Ack(s, d) PROVE Rest'
  BY <1>12 DEF Ack, BuildersApart, RetentionsOnListed, DeletesConfirmed,
     OnlyConfirmedIsPruned, Confirmed, Ready
<1>13. Rest'
  BY <1>1, <1>2, <1>3, <1>4, <1>5, <1>6, <1>7, <1>8, <1>9, <1>10, <1>11, <1>12
  DEF Next, ServerNext, Build, Retain
<1> QED
  BY <1>13

----------------------------------------------------------------------------
\* Every reachable state satisfies the invariant.
THEOREM InvariantHolds == Spec => []IInv
  BY InitIInv, NextIInv, PTL DEF Spec

\* Every variable keeps its type: no row has a status outside the check
\* constraint of backup_snapshots, no worker an impossible program counter.
THEOREM ServerTypeCorrect == Spec => []TypeOK
<1>1. IInv => TypeOK
  BY DEF IInv
<1> QED
  BY <1>1, InvariantHolds, PTL

\* However many workers build, prune, overlap and die: objects are deleted
\* only from a snapshot whose download some device confirmed.
THEOREM PruningIsConfirmed == Spec => []OnlyConfirmedIsPruned
<1>1. IInv => OnlyConfirmedIsPruned
  BY DEF IInv
<1> QED
  BY <1>1, InvariantHolds, PTL

----------------------------------------------------------------------------
(***************************************************************************)
(* The retention window.  The argument counts.  A ready snapshot is doomed *)
(* once its objects are not whole or some retention has it in hand; a      *)
(* ready snapshot nobody has touched is a keeper.  Every doomed snapshot   *)
(* has at least Keep keepers above it, and no step turns a keeper into a   *)
(* doomed snapshot except a retention's read, which leaves Keep of them    *)
(* above whatever it takes.                                                *)
(***************************************************************************)

\* The snapshots a worker's retention still means to delete or has deleted.
Hand(j) == j.todo \cup j.gone
           \cup (IF j.pc \in {"deleting", "unlinking"} THEN {j.snap} ELSE {})
InHand(s) == \E w \in Workers : s \in Hand(job[w])

Doomed  == {s \in Ready : store[s] # "whole" \/ InHand(s)}
Keepers == Ready \ Doomed

Above(S, s) == {t \in S : t > s}

\* The invariant that makes WindowIsWhole inductive.
DoomedHaveKeepers == \A s \in Doomed : Cardinality(Above(Keepers, s)) >= Keep

----------------------------------------------------------------------------
LEMMA SnapsFinite == \A S \in SUBSET Snaps : IsFiniteSet(S) /\ Cardinality(S) \in Nat
<1>1. IsFiniteSet(Snaps)
  BY MaxSnapAssumption, FS_Interval DEF Snaps
<1>2. ASSUME NEW S \in SUBSET Snaps PROVE IsFiniteSet(S) /\ Cardinality(S) \in Nat
  <2>1. IsFiniteSet(S)
    BY <1>1, FS_Subset
  <2> QED
    BY <2>1, FS_CardinalityType
<1> QED
  BY <1>2

\* A larger set has at least as many snapshots above s.
LEMMA AboveMonotone ==
  ASSUME NEW A \in SUBSET Snaps, NEW B \in SUBSET Snaps, A \subseteq B, NEW s \in Snaps
  PROVE  Cardinality(Above(A, s)) <= Cardinality(Above(B, s))
<1>1. Above(B, s) \in SUBSET Snaps /\ Above(A, s) \in SUBSET Above(B, s)
  BY DEF Above
<1>2. IsFiniteSet(Above(B, s))
  BY <1>1, SnapsFinite
<1> QED
  BY <1>1, <1>2, FS_Subset

\* A non-empty set of snapshots has a latest one: the one with the least set
\* above it.
LEMMA LatestExists ==
  ASSUME NEW S \in SUBSET Snaps, S # {}
  PROVE  \E c \in S : \A t \in S : t <= c
<1> DEFINE D == {Above(S, t) : t \in S}
<1>1. D \subseteq FiniteSubsetsOf(Snaps) /\ D # {}
  BY SnapsFinite DEF Above, FiniteSubsetsOf
<1>2. PICK x \in D : \A y \in D : ~(<<y, x>> \in StrictSubsetOrdering(Snaps))
  <2> HIDE DEF D
  <2> QED
    BY <1>1, FS_StrictSubsetOrderingWellFounded, WFMin
<1>3. PICK c \in S : x = Above(S, c)
  OBVIOUS
<1>4. ASSUME NEW t \in S, t > c PROVE FALSE
  <2>0. \A u \in S : u \in Int /\ u \in Snaps
    BY MaxSnapAssumption DEF Snaps
  <2>1. \A u \in S : u > t => u > c
    BY <1>4, <2>0
  <2>2. /\ Above(S, t) \subseteq Above(S, c)
        /\ Above(S, t) \subseteq Snaps /\ Above(S, c) \subseteq Snaps
        /\ t \in Above(S, c) /\ t \notin Above(S, t)
    <3>1. t > c /\ ~(t > t)
      BY <1>4, <2>0
    <3> QED
      BY <2>0, <2>1, <3>1 DEF Above
  <2>3. <<Above(S, t), Above(S, c)>> \in StrictSubsetOrdering(Snaps)
    BY <2>2 DEF StrictSubsetOrdering
  <2> QED
    BY <1>2, <1>3, <2>3
<1>5. \A t \in S : t <= c
  BY <1>4, MaxSnapAssumption DEF Snaps
<1> QED
  BY <1>5

\* The snapshots above a candidate that are in the window number Keep.
LEMMA CandidateHasWindowAbove ==
  ASSUME NEW R \in SUBSET Snaps, NEW s \in Candidates(R)
  PROVE  Cardinality(Above(Newest(R), s)) >= Keep
<1>1. Candidates(R) \in SUBSET Snaps /\ s \in R /\ s \in Snaps
  BY DEF Candidates
<1>2. PICK c \in Candidates(R) : \A t \in Candidates(R) : t <= c
  BY <1>1, LatestExists
<1>3. c \in Snaps /\ s <= c /\ Cardinality(Above(R, c)) >= Keep
  <2>1. Above(R, c) = {t \in R : t > c}
    BY DEF Above
  <2>2. c \in R /\ ~(Cardinality({t \in R : t > c}) < Keep)
    BY DEF Candidates, Newest
  <2>3. Cardinality(Above(R, c)) \in Nat
    BY SnapsFinite DEF Above
  <2> QED
    BY <1>2, <2>1, <2>2, <2>3, KeepAssumption
<1>4. Above(R, c) \subseteq Above(Newest(R), s)
  <2> SUFFICES ASSUME NEW t \in R, t > c PROVE t \in Newest(R) /\ t > s
    BY DEF Above
  <2>1. t \notin Candidates(R)
    BY <1>2, <1>3 DEF Snaps
  <2> QED
    BY <1>1, <1>3, <2>1 DEF Candidates, Snaps
<1>5. Above(Newest(R), s) \in SUBSET Snaps
  BY DEF Above, Newest
<1>6. Cardinality(Above(R, c)) <= Cardinality(Above(Newest(R), s))
  BY <1>4, <1>5, SnapsFinite, FS_Subset
<1> QED
  BY <1>3, <1>4, <1>5, <1>6, SnapsFinite, KeepAssumption

----------------------------------------------------------------------------
\* What every step but a retention's read does: a row that becomes ready is
\* whole and in nobody's hands, and of the ready rows only the doomed lose
\* their status or their objects or come into somebody's hands.
SparesKeepers ==
    /\ \A s \in Snaps : row'[s] = "ready" /\ row[s] # "ready" =>
           store'[s] = "whole" /\ ~InHand(s)'
    /\ \A s \in Ready : row'[s] # "ready" \/ store'[s] # "whole" => s \in Doomed
    /\ \A s \in Ready : InHand(s)' => InHand(s)

LEMMA HandsOnListed ==
  ASSUME IInv, NEW w \in Workers
  PROVE  \A s \in Hand(job[w]) : s \in Snaps /\ row[s] \in Listed
<1>1. job[w].todo \subseteq Snaps /\ job[w].gone \subseteq Snaps
  BY DEF IInv, TypeOK, Jobs
<1> QED
  BY <1>1 DEF Hand, IInv, RetentionsOnListed, DeletesConfirmed

\* A step that changes no ready row and puts nothing new into w's hands.
LEMMA QuietStep ==
  ASSUME IInv, NEW w \in Workers,
         \A v \in Workers \ {w} : job'[v] = job[v],
         Hand(job'[w]) \subseteq Hand(job[w]),
         \A s \in Snaps : row'[s] = "ready" <=> row[s] = "ready",
         \A s \in Ready : store'[s] = store[s]
  PROVE  SparesKeepers
<1>1. \A s \in Snaps : InHand(s)' => InHand(s)
  BY DEF InHand
<1> QED
  BY <1>1 DEF SparesKeepers, Doomed, Ready

LEMMA StepEffects ==
  ASSUME IInv, [Next]_vars
  PROVE  SparesKeepers \/ \E w \in Workers : RetainRead(w)
<1> USE DEF IInv, TypeOK
<1>0. \A w \in Workers : job[w] \in Jobs
  OBVIOUS
<1>1. ASSUME NEW w \in Workers, Begin(w) PROVE SparesKeepers
  <2>1. /\ \A v \in Workers \ {w} : job'[v] = job[v]
        /\ job'[w].todo = job[w].todo /\ job'[w].gone = job[w].gone
        /\ job'[w].pc \in {"idle", "locked"}
    BY <1>1 DEF Begin, Jobs
  <2>2. Hand(job'[w]) \subseteq Hand(job[w])
    BY <2>1 DEF Hand
  <2>3. \A s \in Snaps : row'[s] = "ready" <=> row[s] = "ready"
    BY <1>1 DEF Begin, Demoted, Unfinished
  <2>4. \A s \in Ready : store'[s] = store[s]
    BY <1>1 DEF Begin
  <2> QED
    BY <2>1, <2>2, <2>3, <2>4, QuietStep
<1>2. ASSUME NEW w \in Workers, Insert(w) PROVE SparesKeepers
  <2>1. PICK s \in Snaps :
           /\ row[s] = "none"
           /\ row' = [row EXCEPT ![s] = "pending"]
           /\ job' = [job EXCEPT ![w] = [job[w] EXCEPT !.pc = "pending", !.snap = s]]
    BY <1>2 DEF Insert, Unstarted
  <2>2. /\ \A v \in Workers \ {w} : job'[v] = job[v]
        /\ job'[w].todo = job[w].todo /\ job'[w].gone = job[w].gone
        /\ job'[w].pc = "pending"
    BY <2>1 DEF Jobs
  <2>3. Hand(job'[w]) \subseteq Hand(job[w])
    BY <2>2 DEF Hand
  <2>4. \A t \in Snaps : row'[t] = "ready" <=> row[t] = "ready"
    BY <2>1
  <2>5. \A t \in Ready : store'[t] = store[t]
    BY <1>2 DEF Insert
  <2> QED
    BY <2>2, <2>3, <2>4, <2>5, QuietStep
<1>3. ASSUME NEW w \in Workers, Upload(w) PROVE SparesKeepers
  <2>1. PICK p \in Snaps \cup {None} :
           job' = [job EXCEPT ![w] = [job[w] EXCEPT !.pc = "building", !.parent = p]]
    BY <1>3 DEF Upload
  <2>2. /\ \A v \in Workers \ {w} : job'[v] = job[v]
        /\ job'[w].todo = job[w].todo /\ job'[w].gone = job[w].gone
        /\ job'[w].pc = "building"
    BY <2>1 DEF Jobs
  <2>3. /\ job[w].snap \in Snaps /\ row[job[w].snap] # "ready"
        /\ row' = [row EXCEPT ![job[w].snap] = "uploading"]
        /\ store' = [store EXCEPT ![job[w].snap] = "partial"]
    BY <1>3 DEF Upload, BuildersApart, Unfinished
  <2>4. Hand(job'[w]) \subseteq Hand(job[w])
    BY <2>2 DEF Hand
  <2>5. \A t \in Snaps : row'[t] = "ready" <=> row[t] = "ready"
    BY <2>3
  <2>6. \A t \in Ready : store'[t] = store[t]
    BY <2>3 DEF Ready
  <2> QED
    BY <2>2, <2>4, <2>5, <2>6, QuietStep
<1>4. ASSUME NEW w \in Workers, Finish(w) \/ BuildFails(w) PROVE SparesKeepers
  <2>1. /\ \A v \in Workers \ {w} : job'[v] = job[v]
        /\ job'[w].todo = {} /\ job'[w].gone = {} /\ job'[w].pc \in {"idle", "built"}
    BY <1>4 DEF Finish, BuildFails, Idle
  <2>2. PICK b \in Snaps : b = job[w].snap /\ row[b] \notin Listed
    BY <1>4 DEF Finish, BuildFails, BuildersApart, Listed, Unfinished
  <2>3. \/ row' = [row EXCEPT ![b] = "failed"] /\ UNCHANGED store
        \/ /\ row' = [row EXCEPT ![b] = "ready"]
           /\ store' = [store EXCEPT ![b] = "whole"]
    BY <1>4, <2>2 DEF Finish, BuildFails
  <2>4. \A v \in Workers : Hand(job'[v]) \subseteq Hand(job[v])
    BY <2>1 DEF Hand
  <2>5. \A s \in Snaps : (\E v \in Workers : s \in Hand(job'[v])) => InHand(s)
    BY <2>4 DEF InHand
  <2>6. ~InHand(b)
    BY <2>2, HandsOnListed DEF InHand
  <2>7. \A s \in Ready : s # b
    BY <2>2 DEF Ready, Listed
  <2>8. \A s \in Snaps : row'[s] = "ready" /\ row[s] # "ready" => s = b /\ store'[s] = "whole"
    BY <2>2, <2>3
  <2>9. \A s \in Ready : row'[s] = "ready" /\ store'[s] = store[s]
    BY <2>2, <2>3, <2>7 DEF Ready
  <2>10. \A s \in Snaps : InHand(s)' <=> \E v \in Workers : s \in Hand(job'[v])
    BY DEF InHand
  <2> QED
    BY <2>5, <2>6, <2>8, <2>9, <2>10 DEF SparesKeepers, Doomed, Ready
<1>5. ASSUME NEW w \in Workers, Consider(w) PROVE SparesKeepers
  <2>1. PICK s \in job[w].todo :
           job' = [job EXCEPT ![w] =
                IF OffsiteCopy(s)
                THEN [job[w] EXCEPT !.pc = "deleting", !.snap = s, !.todo = job[w].todo \ {s}]
                ELSE [job[w] EXCEPT !.todo = job[w].todo \ {s}]]
    BY <1>5 DEF Consider
  <2>2. \A v \in Workers \ {w} : job'[v] = job[v]
    BY <2>1
  <2>3. Hand(job'[w]) \subseteq Hand(job[w])
    <3>1. CASE OffsiteCopy(s)
      <4>1. /\ job'[w].todo = job[w].todo \ {s} /\ job'[w].gone = job[w].gone
            /\ job'[w].snap = s
        BY <2>1, <3>1 DEF Jobs
      <4> QED
        BY <4>1 DEF Hand
    <3>2. CASE ~OffsiteCopy(s)
      <4>1. /\ job'[w].todo = job[w].todo \ {s} /\ job'[w].gone = job[w].gone
            /\ job'[w].snap = job[w].snap /\ job'[w].pc = job[w].pc
        BY <2>1, <3>2 DEF Jobs
      <4> QED
        BY <4>1 DEF Hand
    <3> QED
      BY <3>1, <3>2
  <2>4. UNCHANGED <<row, store>>
    BY <1>5 DEF Consider
  <2> QED
    BY <2>2, <2>3, <2>4, QuietStep
<1>6. ASSUME NEW w \in Workers, DeleteObjects(w) \/ DeleteObjectsFails(w)
      PROVE  SparesKeepers
  <2>1. /\ \A v \in Workers \ {w} : job'[v] = job[v]
        /\ job'[w].todo = job[w].todo /\ job'[w].gone = job[w].gone
        /\ \/ job'[w].pc = "unlinking" /\ job'[w].snap = job[w].snap
           \/ job'[w].pc = "choosing"
        /\ UNCHANGED row
    <3>1. CASE DeleteObjects(w)
      BY <3>1 DEF DeleteObjects, Jobs
    <3>2. CASE DeleteObjectsFails(w)
      BY <3>2 DEF DeleteObjectsFails, Jobs
    <3> QED
      BY <1>6, <3>1, <3>2
  <2>2. /\ job[w].pc = "deleting"
        /\ \A s \in Snaps \ {job[w].snap} : store'[s] = store[s]
    BY <1>6 DEF DeleteObjects, DeleteObjectsFails
  <2>3. Hand(job'[w]) \subseteq Hand(job[w]) /\ job[w].snap \in Hand(job[w])
    BY <2>1, <2>2 DEF Hand
  <2>4. \A s \in Snaps : InHand(s)' => InHand(s)
    BY <2>1, <2>3 DEF InHand
  <2>5. InHand(job[w].snap)
    BY <2>3 DEF InHand
  <2> QED
    BY <2>1, <2>2, <2>4, <2>5 DEF SparesKeepers, Doomed, Ready
<1>7. ASSUME NEW w \in Workers, DeleteRow(w) PROVE SparesKeepers
  <2>1. /\ \A v \in Workers \ {w} : job'[v] = job[v]
        /\ job'[w].todo \subseteq job[w].todo
        /\ job'[w].gone \subseteq job[w].gone \cup {job[w].snap}
        /\ job'[w].pc \in {"idle", "choosing"}
        /\ job[w].pc = "unlinking"
        /\ UNCHANGED <<row, store>>
    BY <1>7 DEF DeleteRow, Idle, Jobs
  <2>2. Hand(job'[w]) \subseteq Hand(job[w])
    BY <2>1 DEF Hand
  <2> QED
    BY <2>1, <2>2, QuietStep
<1>8. ASSUME NEW w \in Workers, RetainCommit(w) PROVE SparesKeepers
  <2>1. /\ \A v \in Workers \ {w} : job'[v] = job[v]
        /\ job'[w].todo = {} /\ job'[w].gone = {} /\ job'[w].pc = "idle"
        /\ row' = [s \in Snaps |-> IF s \in job[w].gone THEN "pruned" ELSE row[s]]
        /\ UNCHANGED store
    BY <1>8 DEF RetainCommit, Deleting, Idle
  <2>2. \A s \in Snaps : InHand(s)' => InHand(s)
    BY <2>1 DEF InHand, Hand
  <2>3. \A s \in job[w].gone : InHand(s)
    BY DEF InHand, Hand
  <2> QED
    BY <2>1, <2>2, <2>3 DEF SparesKeepers, Doomed, Ready
<1>9. ASSUME NEW w \in Workers, Die(w) PROVE SparesKeepers
  <2>1. /\ \A v \in Workers \ {w} : job'[v] = job[v]
        /\ job'[w].todo = {} /\ job'[w].gone = {} /\ job'[w].pc = "idle"
        /\ UNCHANGED <<row, store>>
    BY <1>9 DEF Die, Idle
  <2>2. Hand(job'[w]) \subseteq Hand(job[w])
    BY <2>1 DEF Hand
  <2> QED
    BY <2>1, <2>2, QuietStep
<1>10. ASSUME UNCHANGED <<row, store, job>> PROVE SparesKeepers
  BY <1>10 DEF SparesKeepers, Doomed, Ready, InHand
<1>11. CASE \/ DocumentsGrow \/ (\E s \in Snaps : GrowOld(s)) \/ UNCHANGED vars
            \/ \E d \in Devices : Register(d) \/ Revoke(d)
            \/ \E s \in Snaps, d \in Devices : Ack(s, d)
  BY <1>10, <1>11 DEF DocumentsGrow, GrowOld, Register, Revoke, Ack, vars
<1> QED
  BY <1>1, <1>2, <1>3, <1>4, <1>5, <1>6, <1>7, <1>8, <1>9, <1>11
  DEF Next, ServerNext, Build, Retain

----------------------------------------------------------------------------
\* Such a step dooms no snapshot it did not find doomed and loses no keeper.
LEMMA KeepersGrow ==
  ASSUME IInv, IInv', DoomedHaveKeepers, SparesKeepers
  PROVE  DoomedHaveKeepers'
<1>1. Doomed' \subseteq Doomed
  BY DEF SparesKeepers, Doomed, Ready
<1>2. Keepers \subseteq Keepers'
  BY DEF SparesKeepers, Keepers, Doomed, Ready
<1>3. Keepers \in SUBSET Snaps /\ Keepers' \in SUBSET Snaps
  BY DEF Keepers, Ready
<1>4. ASSUME NEW s \in Doomed' PROVE Cardinality(Above(Keepers', s)) >= Keep
  <2>1. s \in Doomed /\ s \in Snaps
    BY <1>1 DEF Doomed, Ready
  <2>2. Cardinality(Above(Keepers, s)) >= Keep
    BY <2>1 DEF DoomedHaveKeepers
  <2>3. Cardinality(Above(Keepers, s)) <= Cardinality(Above(Keepers', s))
    BY <1>2, <1>3, <2>1, AboveMonotone
  <2>4. /\ Cardinality(Above(Keepers, s)) \in Nat
        /\ Cardinality(Above(Keepers', s)) \in Nat
    <3>1. Above(Keepers, s) \in SUBSET Snaps /\ Above(Keepers', s) \in SUBSET Snaps
      BY <1>3 DEF Above
    <3> QED
      BY <3>1, SnapsFinite
  <2> QED
    BY <2>2, <2>3, <2>4, KeepAssumption
<1> QED
  BY <1>4 DEF DoomedHaveKeepers, Above

\* The window holds no doomed snapshot: Keep ready ones would be above it.
LEMMA WindowSpared ==
  ASSUME DoomedHaveKeepers, NEW s \in Newest(Ready)
  PROVE  s \notin Doomed
<1>1. /\ Keepers \in SUBSET Snaps /\ Ready \in SUBSET Snaps /\ Keepers \subseteq Ready
      /\ s \in Snaps
  BY DEF Keepers, Ready, Newest
<1>2. Cardinality(Above(Ready, s)) < Keep
  BY DEF Newest, Above
<1>3. Cardinality(Above(Keepers, s)) <= Cardinality(Above(Ready, s))
  BY <1>1, AboveMonotone
<1>4. Cardinality(Above(Keepers, s)) \in Nat /\ Cardinality(Above(Ready, s)) \in Nat
  <2>1. Above(Keepers, s) \in SUBSET Snaps /\ Above(Ready, s) \in SUBSET Snaps
    BY <1>1 DEF Above
  <2> QED
    BY <2>1, SnapsFinite
<1> QED
  BY <1>2, <1>3, <1>4, KeepAssumption DEF DoomedHaveKeepers

\* A retention's read dooms its candidates, and the window stays above them.
LEMMA ReadSparesWindow ==
  ASSUME IInv, IInv', DoomedHaveKeepers, NEW w \in Workers, RetainRead(w)
  PROVE  DoomedHaveKeepers'
<1> USE DEF IInv, TypeOK
<1>1. /\ \A v \in Workers \ {w} : job'[v] = job[v]
      /\ job'[w].gone = {} /\ job'[w].pc \in {"idle", "choosing"}
      /\ job'[w].todo \in {{}, Candidates(Ready)}
      /\ UNCHANGED <<row, store>>
  BY DEF RetainRead, Idle
<1>2. Hand(job'[w]) \subseteq Candidates(Ready)
  BY <1>1 DEF Hand
<1>3. Ready' = Ready
  BY <1>1 DEF Ready
<1>4. Doomed' \subseteq Doomed \cup Candidates(Ready)
  <2>1. \A s \in Snaps : InHand(s)' => InHand(s) \/ s \in Candidates(Ready)
    BY <1>1, <1>2 DEF InHand
  <2> QED
    BY <1>1, <1>3, <2>1 DEF Doomed, Ready
<1>5. Newest(Ready) \in SUBSET Keepers'
  <2>1. \A s \in Newest(Ready) : s \in Ready /\ s \notin Doomed /\ s \notin Candidates(Ready)
    BY WindowSpared DEF Newest, Candidates
  <2> QED
    BY <1>3, <1>4, <2>1 DEF Keepers
<1>6. Keepers' \in SUBSET Snaps /\ Newest(Ready) \in SUBSET Snaps /\ Ready \in SUBSET Snaps
  BY <1>3 DEF Keepers, Ready, Newest
<1>7. ASSUME NEW s \in Doomed' PROVE Cardinality(Above(Keepers', s)) >= Keep
  <2>1. s \in Candidates(Ready)
    <3>1. s \in Ready /\ s \notin Newest(Ready)
      BY <1>3, <1>5 DEF Doomed, Keepers
    <3> QED
      BY <3>1 DEF Candidates
  <2>2. s \in Snaps
    BY <1>6, <2>1 DEF Candidates
  <2>3. Cardinality(Above(Newest(Ready), s)) >= Keep
    BY <1>6, <2>1, CandidateHasWindowAbove
  <2>4. Cardinality(Above(Newest(Ready), s)) <= Cardinality(Above(Keepers', s))
    BY <1>5, <1>6, <2>2, AboveMonotone
  <2>5. /\ Cardinality(Above(Newest(Ready), s)) \in Nat
        /\ Cardinality(Above(Keepers', s)) \in Nat
    <3>1. Above(Newest(Ready), s) \in SUBSET Snaps /\ Above(Keepers', s) \in SUBSET Snaps
      BY <1>6 DEF Above
    <3> QED
      BY <3>1, SnapsFinite
  <2> QED
    BY <2>3, <2>4, <2>5, KeepAssumption
<1> QED
  BY <1>7 DEF DoomedHaveKeepers, Above

----------------------------------------------------------------------------
WInv == IInv /\ DoomedHaveKeepers

LEMMA InitWInv == Init => WInv
<1> SUFFICES ASSUME Init PROVE WInv
  OBVIOUS
<1>1. Doomed = {}
  BY DEF Init, Doomed, Ready
<1> QED
  BY <1>1, InitIInv DEF WInv, DoomedHaveKeepers

LEMMA NextWInv == WInv /\ [Next]_vars => WInv'
<1> SUFFICES ASSUME WInv, [Next]_vars PROVE WInv'
  OBVIOUS
<1>1. IInv /\ IInv' /\ DoomedHaveKeepers
  BY NextIInv DEF WInv
<1>2. CASE SparesKeepers
  BY <1>1, <1>2, KeepersGrow DEF WInv
<1>3. CASE \E w \in Workers : RetainRead(w)
  BY <1>1, <1>3, ReadSparesWindow DEF WInv
<1> QED
  BY <1>1, <1>2, <1>3, StepEffects

\* Every reachable state satisfies the invariant and the counting argument.
THEOREM WindowInvariantHolds == Spec => []WInv
  BY InitWInv, NextWInv, PTL DEF Spec

\* The newest Keep ready snapshots are complete in the bucket, however builds
\* and retentions overlap and wherever a worker dies (run_retention_once).
THEOREM WindowStaysWhole == Spec => []WindowIsWhole
<1>1. WInv => WindowIsWhole
  <2> SUFFICES ASSUME WInv, NEW s \in Newest(Ready) PROVE store[s] = "whole"
    BY DEF WindowIsWhole
  <2>1. s \notin Doomed
    BY WindowSpared DEF WInv
  <2> QED
    BY <2>1 DEF Doomed, Newest
<1> QED
  BY <1>1, WindowInvariantHolds, PTL

\* No step of any worker leaves the bucket without a good backup once it has
\* one (condition 1 of backup_retention.py).
THEOREM LastGoodBackupStays == Spec => GoodBackupRemains
<1>1. WInv /\ [Next]_vars => [Good # {} => Good' # {}]_vars
  <2> SUFFICES ASSUME WInv, [Next]_vars, Good # {} PROVE Good' # {}
    OBVIOUS
  <2>1. Keepers \subseteq Good'
    <3>1. CASE SparesKeepers
      BY <3>1 DEF SparesKeepers, Keepers, Good, Ready
    <3>2. ASSUME NEW w \in Workers, RetainRead(w) PROVE Keepers \subseteq Good'
      BY <3>2 DEF RetainRead, Keepers, Doomed, Good, Ready
    <3> QED
      BY <3>1, <3>2, StepEffects DEF WInv
  <2>2. Keepers # {}
    <3> SUFFICES ASSUME Keepers = {} PROVE FALSE
      OBVIOUS
    <3>1. PICK s \in Ready : s \in Doomed
      BY DEF Good, Keepers
    <3>2. Cardinality(Above(Keepers, s)) >= Keep
      BY <3>1 DEF WInv, DoomedHaveKeepers
    <3>3. Above(Keepers, s) = {}
      BY DEF Above
    <3>4. Cardinality({}) = 0
      BY FS_EmptySet
    <3> QED
      BY <3>2, <3>3, <3>4, KeepAssumption
  <2> QED
    BY <2>1, <2>2
<1> QED
  BY <1>1, WindowInvariantHolds, PTL DEF Spec, GoodBackupRemains
=============================================================================
