---------------------------- MODULE TimersProofs ----------------------------
(***************************************************************************)
(* Timers, for any people, tasks and tabs: one clock runs at a time, and   *)
(* no time is counted twice.                                               *)
(***************************************************************************)
EXTENDS Timers, TLAPS

\* A handler between its read and its flush.
Decided  == {"starting", "stopping"}
Starting == [stage : {"starting"}, task : Tasks, then : Tasks \cup {None}, fresh : BOOLEAN, at : Nat]
Stopping == [stage : {"stopping"}, task : Tasks, then : Tasks \cup {None}, banked : Nat, adds : Nat]

\* No row has been running since a later time.
Timely == \A p \in People, k \in Tasks : Runs(p, k) => rows[p][k].since <= now

\* What a handler will write is of the past, and has been clocked.
DecidedFits ==
    \A t \in Tabs, w \in Ways :
        LET r == req[t][w] IN
        /\ r.stage = "starting" => r.at <= now
        /\ r.stage = "stopping" => r.banked + r.adds <= clocked[PersonOf(t)][r.task]

TInv == TimersTypeOK /\ OneRunningTimer /\ Timely /\ NoTimeIsCountedTwice /\ DecidedFits

\* What the steps have to keep.
Kept == OneRunningTimer /\ Timely /\ NoTimeIsCountedTwice /\ DecidedFits

\* A running row's numbers, and what it is worth.
LEMMA RowIsTime ==
    ASSUME TInv, NEW p \in People, NEW k \in Tasks
    PROVE  /\ now \in Nat /\ clocked[p][k] \in Nat
           /\ rows[p][k] # None => rows[p][k].banked \in Nat
           /\ rows[p][k] # None /\ ~Runs(p, k) => Spent(p, k) = rows[p][k].banked
           /\ Runs(p, k) => /\ rows[p][k].since \in Nat /\ rows[p][k].since <= now
                            /\ Spent(p, k) = rows[p][k].banked + (now - rows[p][k].since)
           /\ rows[p][k] # None => rows[p][k].banked <= Spent(p, k)
           /\ Spent(p, k) \in Nat /\ Spent(p, k) <= clocked[p][k]
<1>1. rows[p][k] \in Row \cup {None} /\ now \in Nat /\ clocked[p][k] \in Nat
  BY TimersAssumption DEF TInv, TimersTypeOK
<1>2. rows[p][k] # None => rows[p][k].banked \in Nat /\ rows[p][k].since \in Nat \cup {None}
  BY <1>1 DEF Row
<1>3. Runs(p, k) => rows[p][k].since \in Nat /\ rows[p][k].since <= now
  BY <1>2 DEF Runs, TInv, Timely
<1>4. /\ rows[p][k] = None => Spent(p, k) = 0
      /\ rows[p][k] # None /\ ~Runs(p, k) => Spent(p, k) = rows[p][k].banked
      /\ Runs(p, k) => Spent(p, k) = rows[p][k].banked + (now - rows[p][k].since)
  BY DEF Spent, Runs
<1>5. Spent(p, k) <= clocked[p][k]
  BY DEF TInv, NoTimeIsCountedTwice
<1>6. QED
  BY <1>1, <1>2, <1>3, <1>4, <1>5 DEF Runs

\* Replacing one request leaves the others alone.
LEMMA OneRequestChanges ==
    ASSUME TimersTypeOK, NEW t \in Tabs, NEW w \in Ways, NEW r \in Requests,
           req' = [req EXCEPT ![t][w] = r]
    PROVE  /\ req' \in [Tabs -> [Ways -> Requests]]
           /\ req'[t][w] = r
           /\ \A u \in Tabs, v \in Ways : u # t \/ v # w => req'[u][v] = req[u][v]
  BY DEF TimersTypeOK

\* A request's stage tells its fields.
LEMMA StageTellsFields ==
    ASSUME TimersTypeOK, NEW t \in Tabs, NEW w \in Ways
    PROVE  /\ At(t, w, "starting") => req[t][w] \in Starting
           /\ At(t, w, "stopping") => req[t][w] \in Stopping
           /\ At(t, w, "sent") => req[t][w].op \in {"start", "stop"} /\ req[t][w].task \in Tasks
                                  /\ req[t][w].then \in Tasks \cup {None}
           /\ At(t, w, "answered") => req[t][w].then \in Tasks \cup {None}
                                      /\ req[t][w].answer \in Tasks \cup {None, Error}
<1>1. req[t][w] \in Requests
  BY DEF TimersTypeOK
<1>2. QED
  BY <1>1 DEF At, Requests, Idle, Starting, Stopping

\* Answering a request makes a request again.
LEMMA AnswerIsRequest ==
    ASSUME TimersTypeOK, NEW t \in Tabs, NEW w \in Ways, NEW answer \in Tasks \cup {None, Error},
           req[t][w].then \in Tasks \cup {None}, Answer(t, w, answer)
    PROVE  \E r \in Requests : r.stage \notin Decided /\ req' = [req EXCEPT ![t][w] = r]
<1>1. PICK r : r = IF t \in open THEN [stage |-> "answered", then |-> req[t][w].then, answer |-> answer]
                   ELSE Idle
  OBVIOUS
<1>2. r \in Requests /\ r.stage \notin Decided
  BY <1>1 DEF Requests, Idle, Decided
<1>3. req' = [req EXCEPT ![t][w] = r]
  BY <1>1 DEF Answer
<1>4. QED
  BY <1>2, <1>3

\* So does sending one.
LEMMA SentIsRequest ==
    ASSUME NEW op \in {"start", "stop"}, NEW k \in Tasks, NEW then \in Tasks \cup {None}
    PROVE  Sent(op, k, then) \in Requests /\ Sent(op, k, then).stage \notin Decided
  BY DEF Sent, Requests, Decided

\* Time passes and is clocked: what has been decided goes on fitting.
LEMMA DecidedStaysFit ==
    ASSUME TInv, TimersTypeOK', now <= now',
           \A p \in People, k \in Tasks : clocked[p][k] <= clocked'[p][k],
           \A t \in Tabs, w \in Ways : req'[t][w] = req[t][w] \/ req'[t][w].stage \notin Decided
    PROVE  DecidedFits'
<1> SUFFICES ASSUME NEW t \in Tabs, NEW w \in Ways
             PROVE  /\ req'[t][w].stage = "starting" => req'[t][w].at <= now'
                    /\ req'[t][w].stage = "stopping" =>
                          req'[t][w].banked + req'[t][w].adds <= clocked'[PersonOf(t)][req'[t][w].task]
  BY DEF DecidedFits
<1>1. CASE req'[t][w].stage \notin Decided
  BY <1>1 DEF Decided
<1>2. CASE req'[t][w] = req[t][w]
  <2>1. /\ req[t][w].stage = "starting" => req[t][w].at <= now
        /\ req[t][w].stage = "stopping" =>
              req[t][w].banked + req[t][w].adds <= clocked[PersonOf(t)][req[t][w].task]
    BY DEF TInv, DecidedFits
  <2>2. PersonOf(t) \in People /\ now \in Nat /\ now' \in Nat
    BY TimersAssumption DEF TInv, TimersTypeOK
  <2>3. CASE req[t][w].stage = "starting"
    <3>1. req[t][w].at \in Nat
      BY <2>3, StageTellsFields DEF TInv, At, Starting
    <3>2. QED
      BY <1>2, <2>1, <2>2, <2>3, <3>1
  <2>4. CASE req[t][w].stage = "stopping"
    <3>1. req[t][w].banked \in Nat /\ req[t][w].adds \in Nat /\ req[t][w].task \in Tasks
      BY <2>4, StageTellsFields DEF TInv, At, Stopping
    <3>2. /\ clocked[PersonOf(t)][req[t][w].task] \in Nat
          /\ clocked'[PersonOf(t)][req[t][w].task] \in Nat
          /\ clocked[PersonOf(t)][req[t][w].task] <= clocked'[PersonOf(t)][req[t][w].task]
      BY <2>2, <3>1 DEF TInv, TimersTypeOK
    <3>3. QED
      BY <1>2, <2>1, <2>4, <3>1, <3>2
  <2>5. QED
    BY <1>2, <2>3, <2>4
<1>3. QED
  BY <1>1, <1>2

\* A step that leaves the clock and the rows alone and decides nothing.
LEMMA QuietStep ==
    ASSUME TInv, TimersTypeOK', UNCHANGED <<now, rows, clocked>>,
           \A t \in Tabs, w \in Ways : req'[t][w] = req[t][w] \/ req'[t][w].stage \notin Decided
    PROVE  Kept'
<1>1. OneRunningTimer' /\ Timely' /\ NoTimeIsCountedTwice'
  BY DEF TInv, OneRunningTimer, Timely, NoTimeIsCountedTwice, Runs, Spent
<1>2. now <= now' /\ \A p \in People, k \in Tasks : clocked[p][k] <= clocked'[p][k]
  BY TimersAssumption DEF TInv, TimersTypeOK
<1>3. QED
  BY <1>1, <1>2, DecidedStaysFit DEF Kept

\* What people do and what the network loses.
LEMMA TabsStep ==
    ASSUME TInv, NEW t \in Tabs,
           \/ \E k \in Tasks : StartWork(t, k)
           \/ StopWork(t) \/ Poll(t) \/ Leave(t) \/ IdleLogout(t) \/ Open(t)
           \/ \E w \in Ways : Lose(t, w)
    PROVE  TimersTypeOK' /\ Kept'
<1>T. TimersTypeOK /\ MaxActs \in Nat /\ PersonOf(t) \in People
  BY TimersAssumption DEF TInv
<1>I. Idle \in Requests /\ Idle.stage \notin Decided
  BY DEF Requests, Idle, Decided
<1>1. CASE UNCHANGED req /\ Open(t)
  <2>1. TimersTypeOK' /\ UNCHANGED <<now, rows, clocked>>
    BY <1>1, <1>T DEF Open, Act, TimersTypeOK
  <2>2. QED
    BY <1>1, <2>1, QuietStep
<1>2. ASSUME NEW w \in Ways, NEW r \in Requests, r.stage \notin Decided,
             req' = [req EXCEPT ![t][w] = r],
             UNCHANGED <<now, assignee, rows, open, shown, clocked>>, acts' \in 0 .. MaxActs
      PROVE  TimersTypeOK' /\ Kept'
  <2>1. \A u \in Tabs, v \in Ways : req'[u][v] = req[u][v] \/ req'[u][v].stage \notin Decided
    BY <1>2, <1>T, OneRequestChanges
  <2>2. TimersTypeOK'
    BY <1>2, <1>T, OneRequestChanges DEF TimersTypeOK
  <2>3. QED
    BY <1>2, <2>1, <2>2, QuietStep
<1>3. ASSUME NEW k \in Tasks, StartWork(t, k)
      PROVE  TimersTypeOK' /\ Kept'
  <2>1. PICK r : r = IF shown[t] = None THEN Sent("start", k, None) ELSE Sent("stop", shown[t], k)
    OBVIOUS
  <2>2. r \in Requests /\ r.stage \notin Decided
    BY <1>T, <2>1, SentIsRequest DEF TimersTypeOK
  <2>3. /\ req' = [req EXCEPT ![t]["click"] = r]
        /\ UNCHANGED <<now, assignee, rows, open, shown, clocked>>
    BY <1>3, <2>1 DEF StartWork
  <2>4. acts' \in 0 .. MaxActs /\ "click" \in Ways
    BY <1>3, <1>T DEF StartWork, Act, TimersTypeOK, Ways
  <2>5. QED
    BY <1>2, <2>2, <2>3, <2>4
<1>4. CASE StopWork(t)
  <2>1. PICK r : r = Sent("stop", shown[t], None)
    OBVIOUS
  <2>2. r \in Requests /\ r.stage \notin Decided
    BY <1>4, <1>T, <2>1, SentIsRequest DEF StopWork, TimersTypeOK
  <2>3. /\ req' = [req EXCEPT ![t]["click"] = r]
        /\ UNCHANGED <<now, assignee, rows, open, shown, clocked>>
    BY <1>4, <2>1 DEF StopWork
  <2>4. acts' \in 0 .. MaxActs /\ "click" \in Ways
    BY <1>4, <1>T DEF StopWork, Act, TimersTypeOK, Ways
  <2>5. QED
    BY <1>2, <2>2, <2>3, <2>4
<1>5. CASE Poll(t)
  <2>1. RunningTask(PersonOf(t)) \in Tasks \cup {None}
    BY DEF RunningTask
  <2>2. PICK r : r = [stage |-> "answered", then |-> None, answer |-> RunningTask(PersonOf(t))]
    OBVIOUS
  <2>3. r \in Requests /\ r.stage \notin Decided
    BY <2>1, <2>2 DEF Requests, Decided
  <2>4. req' = [req EXCEPT ![t]["poll"] = r]
    BY <1>5, <2>2 DEF Poll
  <2>5. QED
    BY <1>2, <1>5, <1>T, <2>3, <2>4 DEF Poll, TimersTypeOK, Ways
<1>6. ASSUME NEW w \in Ways, Lose(t, w)
      PROVE  TimersTypeOK' /\ Kept'
  <2>1. PICK r : r = Idle
    OBVIOUS
  <2>2. /\ r \in Requests /\ r.stage \notin Decided /\ req' = [req EXCEPT ![t][w] = r]
        /\ UNCHANGED <<now, assignee, rows, open, shown, clocked>>
    BY <1>6, <1>I, <2>1 DEF Lose
  <2>3. acts' \in 0 .. MaxActs
    BY <1>6, <1>T DEF Lose, Act, TimersTypeOK
  <2>4. QED
    BY <1>2, <2>2, <2>3
<1>7. CASE Leave(t) \/ IdleLogout(t)
  <2>1. \A w \in Ways : /\ Unheard(req[t][w]) \in Requests
                        /\ Unheard(req[t][w]) = req[t][w] \/ Unheard(req[t][w]).stage \notin Decided
    BY <1>T, <1>I DEF Unheard, TimersTypeOK
  <2>2. \A w \in Ways : /\ Unloaded(t, w) \in Requests
                        /\ Unloaded(t, w) = req[t][w] \/ Unloaded(t, w).stage \notin Decided
    BY <1>T, <2>1, SentIsRequest DEF Unloaded, TimersTypeOK
  <2>3. PICK f \in [Ways -> Requests] :
            /\ \A w \in Ways : f[w] = req[t][w] \/ f[w].stage \notin Decided
            /\ req' = [req EXCEPT ![t] = f]
    <3>1. CASE Leave(t)
      <4>1. PICK f : f = [w \in Ways |-> Unloaded(t, w)]
        OBVIOUS
      <4>2. /\ f \in [Ways -> Requests]
            /\ \A w \in Ways : f[w] = req[t][w] \/ f[w].stage \notin Decided
        BY <2>2, <4>1
      <4>3. req' = [req EXCEPT ![t] = f]
        BY <3>1, <4>1 DEF Leave
      <4>4. QED
        BY <4>2, <4>3
    <3>2. CASE IdleLogout(t)
      <4>1. PICK f : f = [w \in Ways |-> Unheard(req[t][w])]
        OBVIOUS
      <4>2. /\ f \in [Ways -> Requests]
            /\ \A w \in Ways : f[w] = req[t][w] \/ f[w].stage \notin Decided
        BY <2>1, <4>1
      <4>3. req' = [req EXCEPT ![t] = f]
        BY <3>2, <4>1 DEF IdleLogout
      <4>4. QED
        BY <4>2, <4>3
    <3>3. QED
      BY <1>7, <3>1, <3>2
  <2>4. /\ req' \in [Tabs -> [Ways -> Requests]]
        /\ \A u \in Tabs, v \in Ways : req'[u][v] = req[u][v] \/ req'[u][v].stage \notin Decided
    BY <1>T, <2>3 DEF TimersTypeOK
  <2>5. TimersTypeOK' /\ UNCHANGED <<now, rows, clocked>>
    <3>1. Close(t)
      BY <1>7 DEF Leave, IdleLogout
    <3>2. open' \subseteq Tabs /\ shown' \in [Tabs -> Tasks \cup {None}] /\ acts' \in 0 .. MaxActs
      BY <3>1, <1>T DEF Close, Act, TimersTypeOK
    <3>3. UNCHANGED <<now, assignee, rows, clocked>>
      BY <3>1 DEF Close
    <3>4. QED
      BY <3>2, <3>3, <1>T, <2>4 DEF TimersTypeOK
  <2>6. QED
    BY <2>4, <2>5, QuietStep
<1>8. QED
  BY <1>1, <1>3, <1>4, <1>5, <1>6, <1>7 DEF Open

\* A handler answers at once, or decides on what it has read.
LEMMA ReadStep ==
    ASSUME TInv, NEW t \in Tabs, NEW w \in Ways, Read(t, w)
    PROVE  TimersTypeOK' /\ Kept'
<1> DEFINE p == PersonOf(t)
           k == req[t][w].task
<1>T. TimersTypeOK /\ p \in People
  BY TimersAssumption DEF TInv
<1>S. /\ At(t, w, "sent") /\ req[t][w].op \in {"start", "stop"} /\ k \in Tasks
      /\ req[t][w].then \in Tasks \cup {None}
      /\ UNCHANGED <<now, assignee, rows, open, shown, acts, clocked>>
  BY <1>T, StageTellsFields DEF Read
<1>R. /\ now \in Nat /\ clocked[p][k] \in Nat
      /\ \A q \in People, j \in Tasks : clocked[q][j] <= clocked'[q][j]
  BY <1>S, <1>T, RowIsTime DEF TimersTypeOK
\* A new request that fits.
<1>1. ASSUME NEW r \in Requests, req' = [req EXCEPT ![t][w] = r],
             r.stage = "starting" => r.at <= now,
             r.stage = "stopping" => r.banked + r.adds <= clocked[p][r.task]
      PROVE  TimersTypeOK' /\ Kept'
  <2>1. TimersTypeOK'
    BY <1>1, <1>S, <1>T, OneRequestChanges DEF TimersTypeOK
  <2>2. OneRunningTimer' /\ Timely' /\ NoTimeIsCountedTwice'
    BY <1>S DEF TInv, OneRunningTimer, Timely, NoTimeIsCountedTwice, Runs, Spent
  <2>3. req'[t][w] = r /\ \A u \in Tabs, v \in Ways : u # t \/ v # w => req'[u][v] = req[u][v]
    BY <1>1, <1>T DEF TimersTypeOK
  <2>4. ASSUME NEW u \in Tabs, NEW v \in Ways
        PROVE  /\ req'[u][v].stage = "starting" => req'[u][v].at <= now'
               /\ req'[u][v].stage = "stopping" =>
                     req'[u][v].banked + req'[u][v].adds <= clocked'[PersonOf(u)][req'[u][v].task]
    <3>1. CASE u = t /\ v = w
      BY <1>1, <1>S, <2>3, <3>1
    <3>2. CASE u # t \/ v # w
      BY <1>S, <2>3, <3>2 DEF TInv, DecidedFits
    <3>3. QED
      BY <3>1, <3>2
  <2>5. DecidedFits'
    BY <2>4 DEF DecidedFits
  <2>6. QED
    BY <2>1, <2>2, <2>5 DEF Kept
<1>2. ASSUME NEW answer \in Prompt(p, req[t][w].op, k), Answer(t, w, answer)
      PROVE  TimersTypeOK' /\ Kept'
  <2>1. answer \in Tasks \cup {None, Error}
    BY <1>2, <1>S DEF Prompt
  <2>2. PICK r \in Requests : r.stage \notin Decided /\ req' = [req EXCEPT ![t][w] = r]
    BY <1>2, <1>S, <1>T, <2>1, AnswerIsRequest
  <2>3. QED
    BY <1>1, <2>2 DEF Decided
<1>3. ASSUME req' = [req EXCEPT ![t][w] =
                        [stage |-> "starting", task |-> k, then |-> req[t][w].then,
                         fresh |-> rows[p][k] = None, at |-> now]]
      PROVE  TimersTypeOK' /\ Kept'
  <2>1. PICK r : r = [stage |-> "starting", task |-> k, then |-> req[t][w].then,
                      fresh |-> rows[p][k] = None, at |-> now]
    OBVIOUS
  <2>2. r \in Requests /\ r.stage = "starting" /\ r.at <= now
    BY <1>S, <1>R, <2>1 DEF Requests
  <2>3. req' = [req EXCEPT ![t][w] = r]
    BY <1>3, <2>1
  <2>4. QED
    BY <1>1, <2>2, <2>3
<1>4. ASSUME Prompt(p, "stop", k) = {},
             NEW adds \in WholeSeconds(now - rows[p][k].since),
             req' = [req EXCEPT ![t][w] =
                        [stage |-> "stopping", task |-> k, then |-> req[t][w].then,
                         banked |-> rows[p][k].banked, adds |-> adds]]
      PROVE  TimersTypeOK' /\ Kept'
  <2>1. Runs(p, k)
    BY <1>4 DEF Prompt
  <2>2. /\ rows[p][k].banked \in Nat /\ rows[p][k].since \in Nat /\ rows[p][k].since <= now
        /\ rows[p][k].banked + (now - rows[p][k].since) <= clocked[p][k]
    BY <1>S, <1>T, <2>1, RowIsTime DEF Runs
  <2>3. adds \in Nat /\ adds <= now - rows[p][k].since
    <3>1. PICK s : s = rows[p][k].since
      OBVIOUS
    <3>2. s \in Nat /\ s <= now
      BY <2>2, <3>1
    <3>3. adds \in {now - s, now - s - 1} \cap Nat
      BY <1>4, <3>1 DEF WholeSeconds
    <3>4. adds \in Nat /\ adds <= now - s
      BY <1>R, <3>2, <3>3
    <3>5. QED
      BY <3>1, <3>4
  <2>4. PICK r : r = [stage |-> "stopping", task |-> k, then |-> req[t][w].then,
                      banked |-> rows[p][k].banked, adds |-> adds]
    OBVIOUS
  <2>5. r \in Requests /\ r.stage = "stopping"
    BY <1>S, <2>2, <2>3, <2>4 DEF Requests
  <2>6. r.banked + r.adds <= clocked[p][r.task]
    BY <1>R, <2>2, <2>3, <2>4
  <2>7. req' = [req EXCEPT ![t][w] = r]
    BY <1>4, <2>4
  <2>8. QED
    BY <1>1, <2>5, <2>6, <2>7
<1>5. QED
  BY <1>2, <1>3, <1>4 DEF Read

\* A write changes one row, starts no second clock, and leaves the row worth no more
\* than is clocked.
RowChanges(p, k) ==
    /\ UNCHANGED now
    /\ rows' \in [People -> [Tasks -> Row \cup {None}]]
    /\ clocked' \in [People -> [Tasks -> Nat]]
    /\ \A q \in People, j \in Tasks :
          q # p \/ j # k => rows'[q][j] = rows[q][j] /\ clocked'[q][j] = clocked[q][j]
    /\ clocked[p][k] <= clocked'[p][k]
    /\ Runs(p, k)' => (Runs(p, k) \/ ~RunsAnother(p, k)) /\ rows'[p][k].since <= now
    /\ Spent(p, k)' <= clocked'[p][k]

LEMMA RowChangeKeeps ==
    ASSUME TInv, TimersTypeOK', NEW p \in People, NEW k \in Tasks, RowChanges(p, k),
           \A t \in Tabs, w \in Ways : req'[t][w] = req[t][w] \/ req'[t][w].stage \notin Decided
    PROVE  Kept'
<1>1. ASSUME NEW q \in People, NEW j \in Tasks, q # p \/ j # k
      PROVE  /\ Runs(q, j)' <=> Runs(q, j)
             /\ rows'[q][j] = rows[q][j]
             /\ Spent(q, j)' = Spent(q, j) /\ clocked'[q][j] = clocked[q][j]
  BY <1>1 DEF RowChanges, Runs, Spent
<1>2. OneRunningTimer'
  <2>1. ASSUME NEW q \in People, NEW i \in Tasks, NEW j \in Tasks, Runs(q, i)', Runs(q, j)', i # j
        PROVE  FALSE
    <3>1. CASE q # p \/ (i # k /\ j # k)
      BY <1>1, <2>1, <3>1 DEF TInv, OneRunningTimer
    <3>2. CASE q = p /\ (i = k \/ j = k)
      BY <1>1, <2>1, <3>2 DEF TInv, OneRunningTimer, RowChanges, RunsAnother
    <3>3. QED
      BY <3>1, <3>2
  <2>2. QED
    BY <2>1 DEF OneRunningTimer
<1>3. Timely'
  BY <1>1 DEF TInv, Timely, RowChanges
<1>4. NoTimeIsCountedTwice'
  BY <1>1 DEF TInv, NoTimeIsCountedTwice, RowChanges
<1>5. DecidedFits'
  <2>1. \A q \in People, j \in Tasks : clocked[q][j] <= clocked'[q][j]
    BY <1>1, RowIsTime DEF RowChanges
  <2>2. now <= now'
    BY TimersAssumption DEF RowChanges, TInv, TimersTypeOK
  <2>3. QED
    BY <2>1, <2>2, DecidedStaysFit
<1>6. QED
  BY <1>2, <1>3, <1>4, <1>5 DEF Kept

\* What one row holds after a write, and what is clocked then.
LEMMA NewRow ==
    ASSUME TInv, NEW p \in People, NEW k \in Tasks, NEW new \in Row, NEW lag \in Nat,
           rows' = [rows EXCEPT ![p][k] = new],
           clocked' = [clocked EXCEPT ![p][k] = @ + lag],
           UNCHANGED now,
           new.since # None => (Runs(p, k) \/ ~RunsAnother(p, k)) /\ new.since <= now,
           new.banked + (IF new.since = None THEN 0 ELSE now - new.since) <= clocked[p][k] + lag
    PROVE  RowChanges(p, k)
<1>1. clocked[p][k] \in Nat /\ now \in Nat /\ new # None
      /\ new.banked \in Nat /\ new.since \in Nat \cup {None}
  BY RowIsTime, NoneAssumption DEF Row
<1>2. /\ rows' \in [People -> [Tasks -> Row \cup {None}]] /\ rows'[p][k] = new
      /\ clocked' \in [People -> [Tasks -> Nat]] /\ clocked'[p][k] = clocked[p][k] + lag
      /\ \A q \in People, j \in Tasks :
            q # p \/ j # k => rows'[q][j] = rows[q][j] /\ clocked'[q][j] = clocked[q][j]
  BY <1>1 DEF TInv, TimersTypeOK
<1>3. Runs(p, k)' <=> new.since # None
  BY <1>1, <1>2 DEF Runs
<1>4. Spent(p, k)' = new.banked + (IF new.since = None THEN 0 ELSE now - new.since)
  BY <1>1, <1>2, <1>3 DEF Spent, Runs
<1>5. clocked[p][k] <= clocked'[p][k] /\ Spent(p, k)' <= clocked'[p][k]
  BY <1>1, <1>2, <1>4
<1>6. QED
  BY <1>2, <1>3, <1>5 DEF RowChanges

\* A row that stays as it is.
LEMMA SameRow ==
    ASSUME TInv, NEW p \in People, NEW k \in Tasks, UNCHANGED <<now, rows, clocked>>
    PROVE  RowChanges(p, k)
<1>1. clocked[p][k] \in Nat /\ Spent(p, k)' = Spent(p, k) /\ Spent(p, k) <= clocked[p][k]
  BY RowIsTime DEF Spent, Runs
<1>2. Runs(p, k)' => Runs(p, k) /\ rows'[p][k].since <= now
  BY RowIsTime DEF Runs
<1>3. QED
  BY <1>1, <1>2 DEF RowChanges, TInv, TimersTypeOK

\* A start counts from its read.
LEMMA WriteStartChanges ==
    ASSUME TInv, NEW t \in Tabs, NEW w \in Ways, WriteStart(t, w)
    PROVE  RowChanges(PersonOf(t), req[t][w].task)
<1>1. PICK r : r = req[t][w] /\ r \in Starting /\ r.at <= now
  BY StageTellsFields DEF TInv, WriteStart, At, DecidedFits
<1>2. PICK p \in People : p = PersonOf(t)
  BY TimersAssumption
<1>3. PICK k \in Tasks : k = r.task
  BY <1>1 DEF Starting
<1>4. PICK old : old = rows[p][k]
  OBVIOUS
<1>5. now \in Nat /\ r.at \in Nat /\ UNCHANGED now /\ None \notin Nat
  BY <1>1, <1>2, <1>3, RowIsTime, TimersAssumption DEF Starting, WriteStart
<1>6. ASSUME IF r.fresh THEN old = None /\ assignee[k] # Gone ELSE old # None,
             ~RunsAnother(p, k),
             rows' = [rows EXCEPT ![p][k] = [banked |-> IF r.fresh THEN 0 ELSE old.banked, since |-> r.at]],
             clocked' = [clocked EXCEPT ![p][k] = @ + (now - r.at)]
      PROVE  RowChanges(p, k)
  <2>1. PICK new : new = [banked |-> IF r.fresh THEN 0 ELSE old.banked, since |-> r.at]
    OBVIOUS
  <2>2. /\ clocked[p][k] \in Nat /\ Spent(p, k) \in Nat /\ Spent(p, k) <= clocked[p][k]
        /\ old # None => old.banked \in Nat /\ old.banked <= Spent(p, k)
    BY <1>4, RowIsTime
  <2>3. new.banked \in Nat /\ new.banked <= clocked[p][k] /\ new.since = r.at
    BY <1>6, <2>1, <2>2
  <2>4. new \in Row
    BY <1>5, <2>1, <2>3 DEF Row
  <2>5. /\ now - r.at \in Nat /\ new.since # None /\ new.since <= now
        /\ new.banked + (now - new.since) <= clocked[p][k] + (now - r.at)
    BY <1>1, <1>5, <2>2, <2>3
  <2>6. rows' = [rows EXCEPT ![p][k] = new]
    BY <1>6, <2>1
  <2>7. QED
    BY <1>5, <1>6, <2>4, <2>5, <2>6, NewRow
<1>7. ASSUME UNCHANGED <<rows, clocked>> PROVE RowChanges(p, k)
  BY <1>5, <1>7, SameRow
<1>8. RowChanges(p, k)
  BY <1>1, <1>2, <1>3, <1>4, <1>6, <1>7 DEF WriteStart, IndexAllows
<1>9. QED
  BY <1>1, <1>2, <1>3, <1>8

\* A stop writes a total that has been clocked.
LEMMA WriteStopChanges ==
    ASSUME TInv, NEW t \in Tabs, NEW w \in Ways, WriteStop(t, w)
    PROVE  RowChanges(PersonOf(t), req[t][w].task)
<1>1. PICK r : r = req[t][w] /\ r \in Stopping /\ r.banked + r.adds <= clocked[PersonOf(t)][r.task]
  BY StageTellsFields DEF TInv, WriteStop, At, DecidedFits
<1>2. PICK p \in People : p = PersonOf(t)
  BY TimersAssumption
<1>3. PICK k \in Tasks : k = r.task
  BY <1>1 DEF Stopping
<1>4. PICK old : old = rows[p][k]
  OBVIOUS
<1>5. UNCHANGED <<now, clocked>>
  BY DEF WriteStop
<1>6. ASSUME old # None, rows' = [rows EXCEPT ![p][k] = Banks(old, r)]
      PROVE  RowChanges(p, k)
  <2>1. PICK new : new = Banks(old, r)
    OBVIOUS
  <2>2. /\ clocked[p][k] \in Nat /\ Spent(p, k) \in Nat /\ Spent(p, k) <= clocked[p][k]
        /\ old.banked \in Nat /\ old.banked <= Spent(p, k)
    BY <1>4, <1>6, RowIsTime
  <2>3. r.banked \in Nat /\ r.adds \in Nat /\ r.banked + r.adds <= clocked[p][k]
    BY <1>1, <1>2, <1>3 DEF Stopping
  <2>4. /\ new.since = None /\ new.banked \in Nat /\ new.banked <= clocked[p][k]
        /\ new \in Row
    BY <2>1, <2>2, <2>3 DEF Banks, Row
  <2>5. new.banked + 0 <= clocked[p][k] + 0
    BY <2>2, <2>4
  <2>6. clocked' = [clocked EXCEPT ![p][k] = @ + 0]
    BY <1>5, <2>2 DEF TInv, TimersTypeOK
  <2>7. rows' = [rows EXCEPT ![p][k] = new]
    BY <1>6, <2>1
  <2>8. QED
    BY <1>5, <2>4, <2>5, <2>6, <2>7, NewRow
<1>7. ASSUME UNCHANGED rows PROVE RowChanges(p, k)
  BY <1>5, <1>7, SameRow
<1>8. RowChanges(p, k)
  BY <1>1, <1>2, <1>3, <1>4, <1>6, <1>7 DEF WriteStop
<1>9. QED
  BY <1>1, <1>2, <1>3, <1>8

LEMMA WriteStep ==
    ASSUME TInv, NEW t \in Tabs, NEW w \in Ways, WriteStart(t, w) \/ WriteStop(t, w)
    PROVE  TimersTypeOK' /\ Kept'
<1>T. TimersTypeOK
  BY DEF TInv
<1>1. PICK p \in People : p = PersonOf(t)
  BY TimersAssumption
<1>2. PICK k \in Tasks : k = req[t][w].task
  BY <1>T, StageTellsFields DEF WriteStart, WriteStop, Starting, Stopping
<1>3. RowChanges(p, k)
  BY <1>1, <1>2, WriteStartChanges, WriteStopChanges
<1>4. req[t][w].then \in Tasks \cup {None}
  BY <1>T, StageTellsFields DEF WriteStart, WriteStop, Starting, Stopping
<1>5. PICK answer \in {k, None, Error} : Answer(t, w, answer)
  BY <1>2 DEF WriteStart, WriteStop
<1>6. PICK a \in Requests : a.stage \notin Decided /\ req' = [req EXCEPT ![t][w] = a]
  BY <1>4, <1>5, <1>T, AnswerIsRequest
<1>7. TimersTypeOK'
  <2>1. UNCHANGED <<now, assignee, open, shown, acts>>
    BY DEF WriteStart, WriteStop
  <2>2. QED
    BY <1>3, <1>6, <1>T, <2>1, OneRequestChanges DEF RowChanges, TimersTypeOK
<1>8. \A u \in Tabs, v \in Ways : req'[u][v] = req[u][v] \/ req'[u][v].stage \notin Decided
  BY <1>6, <1>T, OneRequestChanges
<1>9. QED
  BY <1>3, <1>7, <1>8, RowChangeKeeps

LEMMA TakeStep ==
    ASSUME TInv, NEW t \in Tabs, NEW w \in Ways, Take(t, w)
    PROVE  TimersTypeOK' /\ Kept'
<1>T. TimersTypeOK
  BY DEF TInv
<1>1. PICK q : q = req[t][w]
  OBVIOUS
<1>2. q.then \in Tasks \cup {None} /\ q.answer \in Tasks \cup {None, Error}
  BY <1>1, <1>T, StageTellsFields DEF Take
<1>3. PICK r \in Requests : r.stage \notin Decided /\ req' = [req EXCEPT ![t][w] = r]
  <2>1. CASE q.then # None /\ req' = [req EXCEPT ![t][w] = Sent("start", q.then, None)]
    BY <1>2, <2>1, SentIsRequest
  <2>2. CASE req' = [req EXCEPT ![t][w] = Idle]
    <3>1. Idle \in Requests /\ Idle.stage \notin Decided
      BY DEF Requests, Idle, Decided
    <3>2. QED
      BY <2>2, <3>1
  <2>3. QED
    BY <1>1, <2>1, <2>2 DEF Take
<1>4. \A u \in Tabs, v \in Ways : req'[u][v] = req[u][v] \/ req'[u][v].stage \notin Decided
  BY <1>3, <1>T, OneRequestChanges
<1>5. shown' \in [Tabs -> Tasks \cup {None}] /\ UNCHANGED <<now, assignee, rows, open, acts, clocked>>
  BY <1>1, <1>2, <1>T DEF Take, Shown, TimersTypeOK
<1>6. TimersTypeOK'
  BY <1>3, <1>5, <1>T, OneRequestChanges DEF TimersTypeOK
<1>7. QED
  BY <1>4, <1>5, <1>6, QuietStep

LEMMA ReassignStep ==
    ASSUME TInv, NEW k \in Tasks, NEW p \in People, Reassign(k, p)
    PROVE  TimersTypeOK' /\ Kept'
<1>1. TimersTypeOK /\ MaxActs \in Nat
  BY TimersAssumption DEF TInv
<1>2. TimersTypeOK' /\ UNCHANGED <<now, rows, req, clocked>>
  BY <1>1 DEF Reassign, Act, TimersTypeOK
<1>3. QED
  BY <1>2, QuietStep

LEMMA EditStep ==
    ASSUME TInv, NEW p \in People, NEW k \in Tasks, NEW seconds \in 0 .. MaxTime,
           EditHours(p, k, seconds)
    PROVE  TimersTypeOK' /\ Kept'
<1>T. TimersTypeOK /\ MaxActs \in Nat /\ MaxTime \in Nat
  BY TimersAssumption DEF TInv
<1>1. PICK old : old = rows[p][k]
  OBVIOUS
<1>2. PICK new : new = [old EXCEPT !.banked = seconds]
  OBVIOUS
<1>3. old \in Row /\ seconds \in Nat
  BY <1>T, <1>1 DEF EditHours, TimersTypeOK
<1>4. new \in Row /\ new.banked = seconds /\ new.since = old.since
  BY <1>2, <1>3 DEF Row
<1>5. /\ now \in Nat /\ clocked[p][k] \in Nat /\ old.banked \in Nat
      /\ old.since # None => /\ Runs(p, k) /\ old.since \in Nat /\ old.since <= now
                             /\ old.banked + (now - old.since) <= clocked[p][k]
  BY <1>1, RowIsTime DEF EditHours, Runs
<1>6. new.banked + (IF new.since = None THEN 0 ELSE now - new.since) <= clocked[p][k] + seconds
  BY <1>3, <1>4, <1>5
<1>7. /\ rows' = [rows EXCEPT ![p][k] = new]
      /\ clocked' = [clocked EXCEPT ![p][k] = @ + seconds]
      /\ UNCHANGED <<now, assignee, open, shown, req>>
  BY <1>1, <1>2, <1>T DEF EditHours, TimersTypeOK
<1>8. RowChanges(p, k)
  BY <1>3, <1>4, <1>5, <1>6, <1>7, NewRow
<1>9. TimersTypeOK'
  <2>1. acts' \in 0 .. MaxActs
    BY <1>T DEF EditHours, Act, TimersTypeOK
  <2>2. QED
    BY <1>7, <1>8, <1>T, <2>1 DEF RowChanges, TimersTypeOK
<1>10. QED
  BY <1>7, <1>8, <1>9, RowChangeKeeps

LEMMA DeleteStep ==
    ASSUME TInv, NEW k \in Tasks, DeleteTask(k)
    PROVE  TimersTypeOK' /\ Kept'
<1>T. TimersTypeOK /\ MaxActs \in Nat
  BY TimersAssumption DEF TInv
<1>1. TimersTypeOK' /\ UNCHANGED <<now, req, clocked>>
  BY <1>T DEF DeleteTask, Act, TimersTypeOK
<1>2. \A p \in People, j \in Tasks : rows'[p][j] = IF j = k THEN None ELSE rows[p][j]
  BY <1>T DEF DeleteTask, TimersTypeOK
<1>3. \A p \in People, j \in Tasks :
        /\ Runs(p, j)' => Runs(p, j) /\ rows'[p][j] = rows[p][j]
        /\ Spent(p, j)' = IF j = k THEN 0 ELSE Spent(p, j)
  BY <1>1, <1>2 DEF Runs, Spent
<1>4. OneRunningTimer' /\ Timely'
  BY <1>1, <1>3 DEF TInv, OneRunningTimer, Timely
<1>5. NoTimeIsCountedTwice'
  BY <1>1, <1>3, RowIsTime DEF NoTimeIsCountedTwice
<1>6. DecidedFits'
  BY <1>1 DEF TInv, DecidedFits
<1>7. QED
  BY <1>1, <1>4, <1>5, <1>6 DEF Kept

LEMMA TickStep ==
    ASSUME TInv, Tick
    PROVE  TimersTypeOK' /\ Kept'
<1>T. TimersTypeOK /\ now \in Nat /\ MaxTime \in Nat
  BY TimersAssumption DEF TInv, TimersTypeOK
<1>1. now' = now + 1 /\ UNCHANGED <<rows, req>>
  BY DEF Tick
<1>2. ASSUME NEW p \in People, NEW k \in Tasks
      PROVE  /\ clocked'[p][k] = IF Runs(p, k) THEN clocked[p][k] + 1 ELSE clocked[p][k]
             /\ Runs(p, k)' <=> Runs(p, k)
             /\ Spent(p, k)' = IF Runs(p, k) THEN Spent(p, k) + 1 ELSE Spent(p, k)
  <2>1. Runs(p, k)' <=> Runs(p, k)
    BY <1>1 DEF Runs
  <2>2. CASE Runs(p, k)
    <3>1. rows[p][k].banked \in Nat /\ rows[p][k].since \in Nat
      BY <2>2, RowIsTime DEF Runs
    <3>2. Spent(p, k)' = rows[p][k].banked + ((now + 1) - rows[p][k].since)
      BY <1>1, <2>1, <2>2 DEF Spent, Runs
    <3>3. Spent(p, k) = rows[p][k].banked + (now - rows[p][k].since)
      BY <2>2, RowIsTime
    <3>4. Spent(p, k)' = Spent(p, k) + 1
      BY <1>T, <3>1, <3>2, <3>3
    <3>5. clocked'[p][k] = clocked[p][k] + 1
      BY <2>2 DEF Tick
    <3>6. QED
      BY <2>1, <2>2, <3>4, <3>5
  <2>3. CASE ~Runs(p, k)
    BY <1>1, <2>1, <2>3 DEF Spent, Runs, Tick
  <2>4. QED
    BY <2>2, <2>3
<1>3. TimersTypeOK'
  <2>1. clocked' \in [People -> [Tasks -> Nat]]
    BY <1>T DEF Tick, TimersTypeOK
  <2>2. QED
    BY <1>T, <2>1 DEF Tick, TimersTypeOK
<1>4. OneRunningTimer'
  BY <1>2 DEF TInv, OneRunningTimer
<1>5. Timely'
  BY <1>1, <1>2, <1>T, RowIsTime DEF Timely
<1>6. NoTimeIsCountedTwice'
  BY <1>2, RowIsTime DEF NoTimeIsCountedTwice
<1>7. DecidedFits'
  <2>1. \A p \in People, k \in Tasks : clocked[p][k] <= clocked'[p][k]
    BY <1>2, RowIsTime
  <2>2. now <= now'
    BY <1>1, <1>T
  <2>3. QED
    BY <1>1, <1>3, <2>1, <2>2, DecidedStaysFit
<1>8. QED
  BY <1>3, <1>4, <1>5, <1>6, <1>7 DEF Kept

LEMMA NextTInv == TInv /\ [Next]_vars => TInv'
<1> SUFFICES ASSUME TInv, [Next]_vars PROVE TimersTypeOK' /\ Kept'
  BY DEF TInv, Kept
<1>1. CASE UNCHANGED vars
  <2>1. TimersTypeOK' /\ UNCHANGED <<now, rows, req, clocked>>
    BY <1>1 DEF vars, TInv, TimersTypeOK
  <2>2. QED
    BY <2>1, QuietStep
<1>2. CASE \E t \in Tabs, w \in Ways : Serve(t, w)
  BY <1>2, ReadStep, WriteStep, TakeStep DEF Serve
<1>3. QED
  BY <1>1, <1>2, TabsStep, ReassignStep, DeleteStep, EditStep, TickStep DEF Next

LEMMA InitTInv == Init => TInv
<1> SUFFICES ASSUME Init PROVE TInv
  OBVIOUS
<1>1. Idle \in Requests /\ Idle.stage \notin Decided
  BY DEF Requests, Idle, Decided
<1>2. TimersTypeOK
  BY <1>1, TimersAssumption DEF Init, TimersTypeOK
<1>3. \A p \in People, k \in Tasks : ~Runs(p, k) /\ Spent(p, k) = 0 /\ clocked[p][k] = 0
  BY DEF Init, Runs, Spent
<1>4. DecidedFits
  BY <1>1 DEF Init, DecidedFits, Decided
<1>5. QED
  BY <1>2, <1>3, <1>4 DEF TInv, OneRunningTimer, Timely, NoTimeIsCountedTwice

\* Every reachable state is well typed.
THEOREM TimersTypeCorrect == Spec => []TimersTypeOK
<1>1. TInv => TimersTypeOK
  BY DEF TInv
<1>2. QED
  BY <1>1, InitTInv, NextTInv, PTL DEF Spec

\* A person's clock runs on one task at most (task_timers_one_running_per_assignee
\* behind the check of start_task_timer), however many starts overlap.
THEOREM OneClock == Spec => []OneRunningTimer
<1>1. TInv => OneRunningTimer
  BY DEF TInv
<1>2. QED
  BY <1>1, InitTInv, NextTInv, PTL DEF Spec

\* A row is worth no more than its clock has run, however starts, stops and the
\* Owner's corrections overlap (accumulated_seconds in stop_task_timer).
THEOREM TimeIsCountedOnce == Spec => []NoTimeIsCountedTwice
<1>1. TInv => NoTimeIsCountedTwice
  BY DEF TInv
<1>2. QED
  BY <1>1, InitTInv, NextTInv, PTL DEF Spec
=============================================================================
