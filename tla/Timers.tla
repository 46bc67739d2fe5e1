------------------------------ MODULE Timers ------------------------------
(***************************************************************************)
(* Task timers.  The server keeps one row per task and person              *)
(* (task_timers.py): a start or a stop reads the task and the row, then    *)
(* writes and commits, and requests interleave between the two.  Each tab  *)
(* of a person shows the timer it last heard of (timer-provider.tsx), asks *)
(* again every minute, and on unload fires a stop from two events without  *)
(* waiting for an answer. The Owner may overwrite a row's hours meanwhile  *)
(* (timesheet.py).                                                         *)
(*                                                                         *)
(* Left out: the task's status (moved to In Progress by a further request  *)
(* whose failure is ignored), last_stopped_at, the row get_active_timer    *)
(* would delete without its task (the foreign key has deleted it).         *)
(***************************************************************************)
EXTENDS Naturals, FiniteSets

CONSTANTS
    People, Tasks, Tabs,
    PersonOf(_),         \* who has a tab open
    MaxTime, MaxActs,    \* bounds of the model: units of time; what people do and
                         \* messages that are lost
    None, Gone, Error    \* no value; a deleted task's assignee; no success

ASSUME TimersAssumption ==
    /\ \A t \in Tabs : PersonOf(t) \in People
    /\ MaxTime \in Nat /\ MaxActs \in Nat
    /\ None \notin Tasks /\ None \notin Nat /\ Gone \notin People
    /\ Error \notin Tasks /\ Error # None

VARIABLES
    now,       \* the clock
    assignee,  \* of each task
    rows,      \* task_timers
    open,      \* tabs on a page of the firm
    shown,     \* activeTimer of each tab: its task
    req,       \* the requests under way
    acts,      \* how many things people have done and messages were lost
    clocked    \* history: the time the clock of each person has run on each task

vars == <<now, assignee, rows, open, shown, req, acts, clocked>>

\* A tab has one request of its buttons and one poll under way, and its unload
\* handlers' stops may outlive it.
Ways == {"click", "poll", "pagehide", "beforeunload"}

Row  == [banked : Nat, since : Nat \cup {None}]
ASSUME NoneAssumption == None \notin Row

Idle == [stage |-> "idle"]
Requests ==
    {Idle}
    \cup [stage : {"sent"}, op : {"start", "stop"}, task : Tasks, then : Tasks \cup {None}]
    \cup [stage : {"starting"}, task : Tasks, then : Tasks \cup {None}, fresh : BOOLEAN, at : Nat]
    \cup [stage : {"stopping"}, task : Tasks, then : Tasks \cup {None}, banked : Nat, adds : Nat]
    \cup [stage : {"answered"}, then : Tasks \cup {None}, answer : Tasks \cup {None, Error}]

Init ==
    /\ now = 0
    /\ assignee \in [Tasks -> People]
    /\ rows = [p \in People |-> [k \in Tasks |-> None]]
    /\ open = Tabs
    /\ shown = [t \in Tabs |-> None]
    /\ req = [t \in Tabs |-> [w \in Ways |-> Idle]]
    /\ acts = 0
    /\ clocked = [p \in People |-> [k \in Tasks |-> 0]]

Runs(p, k) == rows[p][k] # None /\ rows[p][k].since # None

RunningTask(p) == IF \E k \in Tasks : Runs(p, k) THEN CHOOSE k \in Tasks : Runs(p, k) ELSE None

\* What a row is worth: the banked time, and that since the start of a running timer.
Spent(p, k) ==
    IF rows[p][k] = None THEN 0
    ELSE IF Runs(p, k) THEN rows[p][k].banked + (now - rows[p][k].since)
    ELSE rows[p][k].banked

\* Bound of the model: what people do and the network loses.
Act == acts < MaxActs /\ acts' = acts + 1

Sent(op, task, then) == [stage |-> "sent", op |-> op, task |-> task, then |-> then]

----------------------------------------------------------------------------
(* The tab.                                                                *)

\* startWork: with another timer shown, stop that one first.
StartWork(t, k) ==
    /\ t \in open /\ shown[t] # k
    /\ req[t]["click"] = Idle
    /\ Act
    /\ req' = [req EXCEPT ![t]["click"] = IF shown[t] = None THEN Sent("start", k, None)
                                          ELSE Sent("stop", shown[t], k)]
    /\ UNCHANGED <<now, assignee, rows, open, shown, clocked>>

\* The widget, the task's page and signing out by the account menu.
StopWork(t) ==
    /\ t \in open /\ shown[t] # None
    /\ req[t]["click"] = Idle
    /\ Act
    /\ req' = [req EXCEPT ![t]["click"] = Sent("stop", shown[t], None)]
    /\ UNCHANGED <<now, assignee, rows, open, shown, clocked>>

\* The page asks for its timer when it loads and every minute; get_active_timer
\* only reads, so asking and reading are one step.
Poll(t) ==
    /\ t \in open
    /\ req[t]["poll"] = Idle
    /\ req' = [req EXCEPT ![t]["poll"] =
                  [stage |-> "answered", then |-> None, answer |-> RunningTask(PersonOf(t))]]
    /\ UNCHANGED <<now, assignee, rows, open, shown, acts, clocked>>

\* A page that is gone hears no answer; what it has sent is still served.
Unheard(r) == IF r.stage = "answered" THEN Idle ELSE r

Unloaded(t, w) ==
    IF w \in {"pagehide", "beforeunload"} /\ shown[t] # None
    THEN Sent("stop", shown[t], None) ELSE Unheard(req[t][w])

Close(t) ==
    /\ t \in open
    /\ Act
    /\ open' = open \ {t}
    /\ shown' = [shown EXCEPT ![t] = None]
    /\ UNCHANGED <<now, assignee, rows, clocked>>

\* The page goes away: both events fire.
Leave(t) ==
    /\ Close(t)
    /\ req' = [req EXCEPT ![t] = [w \in Ways |-> Unloaded(t, w)]]

\* After 25 minutes without an event the guard signs the tab out before it
\* navigates, so the unload handlers find no token and send nothing.
IdleLogout(t) ==
    /\ Close(t)
    /\ req' = [req EXCEPT ![t] = [w \in Ways |-> Unheard(req[t][w])]]

\* Bound of the model: the requests of the tab's former page have ended.
Open(t) ==
    /\ t \notin open
    /\ \A w \in Ways : req[t][w] = Idle
    /\ Act
    /\ open' = open \cup {t}
    /\ UNCHANGED <<now, assignee, rows, shown, req, clocked>>

----------------------------------------------------------------------------
(* The server.                                                             *)

Answer(t, w, answer) ==
    req' = [req EXCEPT ![t][w] =
              IF t \in open THEN [stage |-> "answered", then |-> req[t][w].then, answer |-> answer]
              ELSE Idle]

At(t, w, stage) == req[t][w].stage = stage

RunsAnother(p, k) == \E j \in Tasks \ {k} : Runs(p, j)

\* What a start or a stop answers without writing: the task is gone (404) or
\* somebody else's (403), another timer runs (409), there is nothing to do.
Prompt(p, op, k) ==
    IF assignee[k] # p \/ (op = "start" /\ RunsAnother(p, k)) THEN {Error}
    ELSE IF op = "start" /\ Runs(p, k) THEN {k}
    ELSE IF op = "stop" /\ ~Runs(p, k) THEN {None}
    ELSE {}

\* int(total_seconds()): less than a second is dropped, which the clock's unit may show.
WholeSeconds(elapsed) == {elapsed, elapsed - 1} \cap Nat

\* start_task_timer and stop_task_timer up to their flush.
Read(t, w) ==
    /\ At(t, w, "sent")
    /\ LET p    == PersonOf(t)
           r    == req[t][w]
           k    == r.task
           said == Prompt(p, r.op, k)
       IN  \/ \E answer \in said : Answer(t, w, answer)
           \/ /\ said = {} /\ r.op = "start"
              /\ req' = [req EXCEPT ![t][w] =
                            [stage |-> "starting", task |-> k, then |-> r.then,
                             fresh |-> rows[p][k] = None, at |-> now]]
           \/ /\ said = {} /\ r.op = "stop"
              /\ \E adds \in WholeSeconds(now - rows[p][k].since) :
                     req' = [req EXCEPT ![t][w] =
                                [stage |-> "stopping", task |-> k, then |-> r.then,
                                 banked |-> rows[p][k].banked, adds |-> adds]]
    /\ UNCHANGED <<now, assignee, rows, open, shown, acts, clocked>>

\* Fault: without the index task_timers_one_running_per_assignee.
IndexAllowsAll(p, k) == TRUE
IndexAllows(p, k) == ~RunsAnother(p, k)

\* A start's flush, unless the row or the task is gone, the row is there already or
\* the index refuses (the 409 of main.py, or a 500). The time since it read counts.
WriteStart(t, w) ==
    /\ At(t, w, "starting")
    /\ LET p   == PersonOf(t)
           r   == req[t][w]
           old == rows[p][r.task]
           can == /\ IF r.fresh THEN old = None /\ assignee[r.task] # Gone ELSE old # None
                  /\ IndexAllows(p, r.task)
       IN  \/ /\ can
              /\ rows' = [rows EXCEPT ![p][r.task] =
                            [banked |-> IF r.fresh THEN 0 ELSE old.banked, since |-> r.at]]
              /\ clocked' = [clocked EXCEPT ![p][r.task] = @ + (now - r.at)]
              /\ Answer(t, w, r.task)
           \/ /\ ~can
              /\ Answer(t, w, Error)
              /\ UNCHANGED <<rows, clocked>>
    /\ UNCHANGED <<now, assignee, open, shown, acts>>

\* Fault: the elapsed seconds are added to what the row holds by then.
BanksOnTop(old, r) == [banked |-> old.banked + r.adds, since |-> None]
\* The total it has computed, whatever the row has become; a total that has not
\* changed is not written.
Banks(old, r) == [banked |-> IF r.adds = 0 THEN old.banked ELSE r.banked + r.adds, since |-> None]

\* A stop's flush, unless the row is gone.
WriteStop(t, w) ==
    /\ At(t, w, "stopping")
    /\ LET p   == PersonOf(t)
           r   == req[t][w]
           old == rows[p][r.task]
       IN  \/ /\ old # None
              /\ rows' = [rows EXCEPT ![p][r.task] = Banks(old, r)]
              /\ Answer(t, w, None)
           \/ /\ old = None
              /\ Answer(t, w, Error)
              /\ UNCHANGED rows
    /\ UNCHANGED <<now, assignee, open, shown, acts, clocked>>

\* Fault: an error replaces what is shown.
ShownAnyway(old, r) == r.answer
\* Fault: an answer that nothing runs is not shown.
ShownUnlessNone(old, r) == IF r.answer \in {None, Error} THEN old ELSE r.answer
Shown(old, r) == IF r.answer = Error THEN old ELSE r.answer

\* The tab takes an answer, in whatever order they come; after the stop of a
\* switch the person is asked again before the other task starts.
Take(t, w) ==
    /\ At(t, w, "answered")
    /\ LET r == req[t][w]
       IN  /\ shown' = [shown EXCEPT ![t] = Shown(@, r)]
           /\ \/ /\ r.then # None /\ r.answer # Error
                 /\ req' = [req EXCEPT ![t][w] = Sent("start", r.then, None)]
              \/ req' = [req EXCEPT ![t][w] = Idle]
    /\ UNCHANGED <<now, assignee, rows, open, acts, clocked>>

\* A request or an answer is lost: the tab keeps what it shows.
Lose(t, w) ==
    /\ At(t, w, "sent") \/ At(t, w, "answered")
    /\ Act
    /\ req' = [req EXCEPT ![t][w] = Idle]
    /\ UNCHANGED <<now, assignee, rows, open, shown, clocked>>

\* The Owner's update_task and delete_task; the rows go with the task.
Reassign(k, p) ==
    /\ assignee[k] \notin {Gone, p}
    /\ Act
    /\ assignee' = [assignee EXCEPT ![k] = p]
    /\ UNCHANGED <<now, rows, open, shown, req, clocked>>

DeleteTask(k) ==
    /\ assignee[k] # Gone
    /\ Act
    /\ assignee' = [assignee EXCEPT ![k] = Gone]
    /\ rows' = [p \in People |-> [rows[p] EXCEPT ![k] = None]]
    /\ UNCHANGED <<now, open, shown, req, clocked>>

\* The Owner's update_task_hours overwrites the banked time, of a running row too.
EditHours(p, k, seconds) ==
    /\ rows[p][k] # None
    /\ Act
    /\ rows' = [rows EXCEPT ![p][k].banked = seconds]
    /\ clocked' = [clocked EXCEPT ![p][k] = @ + seconds]
    /\ UNCHANGED <<now, assignee, open, shown, req>>

Tick ==
    /\ now < MaxTime
    /\ now' = now + 1
    /\ clocked' = [p \in People |-> [k \in Tasks |->
                      IF Runs(p, k) THEN clocked[p][k] + 1 ELSE clocked[p][k]]]
    /\ UNCHANGED <<assignee, rows, open, shown, req, acts>>

Serve(t, w) == Read(t, w) \/ WriteStart(t, w) \/ WriteStop(t, w) \/ Take(t, w)

Next ==
    \/ \E t \in Tabs, k \in Tasks : StartWork(t, k)
    \/ \E t \in Tabs : StopWork(t) \/ Poll(t)
    \/ \E t \in Tabs : Leave(t)
    \/ \E t \in Tabs : IdleLogout(t)
    \/ \E t \in Tabs : Open(t)
    \/ \E t \in Tabs, w \in Ways : Serve(t, w)
    \/ \E t \in Tabs, w \in Ways : Lose(t, w)
    \/ \E k \in Tasks, p \in People : Reassign(k, p)
    \/ \E k \in Tasks : DeleteTask(k)
    \/ \E p \in People, k \in Tasks, seconds \in 0 .. MaxTime : EditHours(p, k, seconds)
    \/ Tick

\* The server answers, answers arrive, and an open page polls every minute.
Fairness ==
    /\ \A t \in Tabs : WF_vars(Poll(t))
    /\ \A t \in Tabs, w \in Ways : WF_vars(Serve(t, w))

Spec == Init /\ [][Next]_vars /\ Fairness

----------------------------------------------------------------------------
TimersTypeOK ==
    /\ now \in 0 .. MaxTime
    /\ assignee \in [Tasks -> People \cup {Gone}]
    /\ rows \in [People -> [Tasks -> Row \cup {None}]]
    /\ open \subseteq Tabs
    /\ shown \in [Tabs -> Tasks \cup {None}]
    /\ req \in [Tabs -> [Ways -> Requests]]
    /\ acts \in 0 .. MaxActs
    /\ clocked \in [People -> [Tasks -> Nat]]

\* A person's clock runs on one task at most, although two starts on different
\* tasks may both have found no other running (the check of start_task_timer and
\* the index behind it).
OneRunningTimer ==
    \A p \in People : \A j, k \in Tasks : Runs(p, j) /\ Runs(p, k) => j = k

\* No time is counted twice: a row is worth no more than its clock has run, from each
\* start that was written to the stop that was, and the Owner has granted. Two unload
\* events may stop one segment twice, a stop may write over another's total, a restarted
\* clock or the Owner's figure (accumulated_seconds and started_at in start and stop).
\* That it is worth no less is not promised: such a write loses time.
NoTimeIsCountedTwice ==
    \A p \in People, k \in Tasks : Spent(p, k) <= clocked[p][k]

\* A widget that shows what is not so is corrected by a poll, in whatever order
\* the answers of polls and buttons came (refresh in timer-provider.tsx).
WidgetIsCorrectedIn(t) ==
    (t \in open /\ shown[t] # RunningTask(PersonOf(t)))
        ~> (t \notin open \/ shown[t] = RunningTask(PersonOf(t)))
============================================================================
