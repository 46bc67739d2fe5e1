----------------------------- MODULE Reminders -----------------------------
(***************************************************************************)
(* Reminders of deadlines. A sweep visits firms one after the other in one *)
(* transaction (scheduler.py, routers/reminders.py): it collects what has  *)
(* crossed a rung of the firm's ladder, inserts the rows that no other has *)
(* inserted, mails the new ones, and commits at the end. The scheduler of  *)
(* every worker sweeps all firms once a day, and when the worker starts,   *)
(* under an advisory lock; a sweep that fails or finds the lock taken is   *)
(* not tried again before the next day. The super-admin's endpoint sweeps  *)
(* all firms and an Owner's button one, without the lock. Meanwhile people *)
(* file, snooze, move and delete deadlines and settle reminders, each in a *)
(* short transaction of its own.                                           *)
(*                                                                         *)
(* Left out: tasks and letters (collected alike, settled elsewhere), the   *)
(* expiry notices of plans, the bell, open, acknowledged and snoozed told  *)
(* apart. Firms stay active and their mail is delivered. The rows of one   *)
(* firm are inserted all at once.                                          *)
(***************************************************************************)
EXTENDS Integers, FiniteSets

CONSTANTS
    Firms, Items, FirmOf(_),   \* deadlines and their firms
    Ladder, Overdue,           \* reminder_days and OVERDUE_DAYS
    FirstDue,                  \* every deadline's due date, at first
    Sweepers, KindOf(_),       \* "daily", "all" or "firm"
    BadFirms,                  \* firms whose sweep raises
    MaxDay, MaxActs,           \* bounds of the model: days; what people do, and
                               \* errors and deaths of sweeps
    NoRung, Idle

ASSUME RemindersAssumption ==
    /\ \A i \in Items : FirmOf(i) \in Firms
    /\ Ladder \subseteq Nat /\ Overdue \subseteq Int \ Nat /\ -1 \in Overdue
    /\ \A S \in SUBSET (Ladder \cup Overdue) : S # {} => \E n \in S : \A m \in S : n <= m
    /\ FirstDue \in Int /\ MaxDay \in Nat /\ MaxActs \in Nat
    /\ NoRung \notin Int

VARIABLES
    day, due,
    state,     \* of each deadline, "gone" when it is deleted
    until,     \* snoozed_until
    rows,      \* reminders by their dedupe_key: a deadline and a rung
    mails,     \* how often a reminder was mailed: never, once or more often
    sweep,     \* the sweep each sweeper is in
    swept,     \* the sweepers of all firms that have had a turn today
    acts,
    excused,   \* history: keys whose sweep was undone, or whose row was deleted
    complete,  \* history: whether a sweep of all firms has begun and committed today
    touched    \* history: deadlines reopened or moved today, or a reminder of theirs deleted

history == <<excused, complete, touched>>
vars == <<day, due, state, until, rows, mails, sweep, swept, acts, history>>

Rungs == Ladder \cup Overdue
Keys  == Items \X Rungs
DeadlineStates == {"open", "snoozed", "filed", "dismissed", "gone"}
RowStates == {"none", "live", "done", "dismissed"}

\* left: the firms to come; keys: what the firm at hand needs ("planned"), and
\* then what is new of it ("mail"); created: what the transaction has inserted.
Sweep == [stage : {"next", "planned", "broken", "mail"}, left : SUBSET Firms,
          keys : SUBSET Keys, created : SUBSET Keys]

ASSUME IdleAssumption == Idle \notin Sweep

Init ==
    /\ day = 0
    /\ due = [i \in Items |-> FirstDue]
    /\ state = [i \in Items |-> "open"]
    /\ until = [i \in Items |-> 0]
    /\ rows = [k \in Keys |-> "none"]
    /\ mails = [k \in Keys |-> 0]
    /\ sweep = [s \in Sweepers |-> Idle]
    /\ swept = {} /\ acts = 0
    /\ excused = {} /\ complete = FALSE /\ touched = {}

----------------------------------------------------------------------------
(* The ladder.                                                             *)

Least(S) == CHOOSE n \in S : \A m \in S : n <= m

\* crossed_threshold: the tightest rung still ahead of the due date, and after
\* it the deepest one reached.
Crossed(days) ==
    LET reached == {r \in IF days < 0 THEN Overdue ELSE Ladder : r >= days}
    IN  IF reached = {} THEN NoRung ELSE Least(reached)

RungOf(i) == Crossed(due[i] - day)

\* Fault: a snoozed deadline stays quiet for good.
QuietWhileSnoozed(i) == state[i] = "snoozed"
Quiet(i) == state[i] = "snoozed" /\ until[i] > day

\* collect: what of this firm has crossed a rung.
Planned(f) ==
    {k \in Keys : /\ FirmOf(k[1]) = f
                  /\ state[k[1]] \in {"open", "snoozed"} /\ ~Quiet(k[1])
                  /\ RungOf(k[1]) = k[2]}

----------------------------------------------------------------------------
(* The sweep.                                                              *)

\* Bound of the model: what people do, and what happens to a sweep.
Act == acts < MaxActs /\ acts' = acts + 1

Running(s) == sweep[s] # Idle
At(s, stage) == Running(s) /\ sweep[s].stage = stage

\* pg_try_advisory_xact_lock: held from the start of a daily sweep to its end.
LockFree(s) == \A u \in Sweepers \ {s} : ~(KindOf(u) = "daily" /\ Running(u))

\* The insertion of a row waits for a transaction that has inserted its key.
Waits(s, u) ==
    /\ s # u /\ At(s, "planned") /\ Running(u)
    /\ sweep[s].keys \cap sweep[u].created # {}

CanInsert(s) == At(s, "planned") /\ \A u \in Sweepers : ~Waits(s, u)

\* The scheduler starts a sweep once a day and gives it up if the lock is taken; the
\* others start when somebody asks. An insertion whose wait is over goes first:
\* PostgreSQL has woken it up.
Start(s) ==
    /\ ~Running(s)
    /\ \A u \in Sweepers : ~CanInsert(u)
    /\ KindOf(s) = "daily" => s \notin swept
    /\ swept' = IF KindOf(s) = "firm" THEN swept ELSE swept \cup {s}
    /\ \E firms \in IF KindOf(s) = "firm" THEN {{f} : f \in Firms} ELSE {Firms} :
        sweep' = IF KindOf(s) = "daily" /\ ~LockFree(s) THEN sweep
                 ELSE [sweep EXCEPT ![s] =
                          [stage |-> "next", left |-> firms, keys |-> {}, created |-> {}]]
    /\ UNCHANGED <<day, due, state, until, rows, mails, acts, history>>

\* The worker starts again, and sweeps at once (REMINDER_SWEEP_ON_START).
Restart(s) ==
    /\ KindOf(s) = "daily" /\ s \in swept /\ ~Running(s)
    /\ Act
    /\ swept' = swept \ {s}
    /\ UNCHANGED <<day, due, state, until, rows, mails, sweep, history>>

\* The firms come in any order; one whose settings or rows the code does not
\* expect raises.
NextFirm(s) ==
    /\ At(s, "next")
    /\ \E f \in sweep[s].left :
        sweep' = [sweep EXCEPT ![s] =
                    [stage |-> IF f \in BadFirms THEN "broken" ELSE "planned",
                     left |-> sweep[s].left \ {f},
                     keys |-> Planned(f), created |-> sweep[s].created]]
    /\ UNCHANGED <<day, due, state, until, rows, mails, swept, acts, history>>

\* Fault: what was planned counts as new.
NewOfPlanned(s) == sweep[s].keys \ sweep[s].created
\* RETURNING: the rows that were not there.
New(s) == {k \in sweep[s].keys \ sweep[s].created : rows[k] = "none"}

\* Fault: nothing ties a reminder to its deadline.
NoOrphans(s) == {}
\* A deadline deleted since it was collected breaks the new row's foreign key.
Orphans(s) == {k \in New(s) : state[k[1]] = "gone"}

\* persist: ON CONFLICT DO NOTHING.
Persist(s) ==
    /\ CanInsert(s) /\ Orphans(s) = {}
    /\ sweep' = [sweep EXCEPT ![s] =
                    [stage |-> IF New(s) = {} THEN "next" ELSE "mail",
                     left |-> sweep[s].left,
                     keys |-> New(s), created |-> sweep[s].created \cup New(s)]]
    /\ UNCHANGED <<day, due, state, until, rows, mails, swept, acts, history>>

More(n) == IF n = 0 THEN 1 ELSE 2

Mail(s) ==
    /\ At(s, "mail")
    /\ mails' = [k \in Keys |-> IF k \in sweep[s].keys THEN More(mails[k]) ELSE mails[k]]
    /\ sweep' = [sweep EXCEPT ![s] =
                    [stage |-> "next", left |-> sweep[s].left,
                     keys |-> {}, created |-> sweep[s].created]]
    /\ UNCHANGED <<day, due, state, until, rows, swept, acts, history>>

Commit(s) ==
    /\ At(s, "next") /\ sweep[s].left = {}
    /\ rows' = [k \in Keys |-> IF k \in sweep[s].created THEN "live" ELSE rows[k]]
    /\ sweep' = [sweep EXCEPT ![s] = Idle]
    /\ complete' = (complete \/ s \in swept)
    /\ UNCHANGED <<day, due, state, until, mails, swept, acts, excused, touched>>

\* Fault: the sweep tries again in the same transaction.
Retried(s) == [stage |-> "next", left |-> Firms, keys |-> {}, created |-> sweep[s].created]
RolledBack(s) == Idle

\* The transaction is rolled back. run_sweep_once would go on with the next firm,
\* but the rollback has expired every Tenant it has read: the first attribute it
\* reads of the next one raises, and so does the id its handler logs, which ends
\* the sweep. The scheduler waits for the next day; the endpoints answer 500.
Undo(s) ==
    /\ sweep' = [sweep EXCEPT ![s] = RolledBack(s)]
    /\ excused' = excused \cup sweep[s].created
    /\ UNCHANGED <<day, due, state, until, rows, mails, swept, complete, touched>>

FirmFails(s) ==
    /\ At(s, "broken") \/ (CanInsert(s) /\ Orphans(s) # {})
    /\ Undo(s) /\ UNCHANGED acts

\* Any other error, or the death of the worker.
Fails(s) ==
    /\ Running(s)
    /\ Act
    /\ Undo(s)

\* s is among some who all wait for one of them.
Deadlocked(s) ==
    \E C \in SUBSET Sweepers : s \in C /\ \A a \in C : \E b \in C : Waits(a, b)

\* PostgreSQL lets one of them fail.
Aborted(s) == Deadlocked(s) /\ Undo(s) /\ UNCHANGED acts

----------------------------------------------------------------------------
(* People. The row that a sweep has inserted and not committed is not seen *)
(* by anybody, and keeps its deadline from being deleted.                  *)

\* mark_done: file the deadline, retire its other reminders.
Done(k) ==
    LET i == k[1]
        files == state[i] \in {"open", "snoozed"}
    IN  /\ rows[k] # "none"
        /\ Act
        /\ state' = IF files THEN [state EXCEPT ![i] = "filed"] ELSE state
        /\ rows' = [l \in Keys |-> IF l = k \/ (files /\ l[1] = i /\ rows[l] = "live")
                                   THEN "done" ELSE rows[l]]
        /\ UNCHANGED <<day, due, until, mails, sweep, swept, history>>

\* dismiss and reopen of a reminder.
Settle(k, status) ==
    /\ rows[k] # "none" /\ status \in {"dismissed", "live"} /\ rows[k] # status
    /\ Act
    /\ rows' = [rows EXCEPT ![k] = status]
    /\ UNCHANGED <<day, due, state, until, mails, sweep, swept, history>>

DeleteReminder(k) ==
    /\ rows[k] # "none"
    /\ Act
    /\ rows' = [rows EXCEPT ![k] = "none"]
    /\ excused' = excused \cup {k} /\ touched' = touched \cup {k[1]}
    /\ UNCHANGED <<day, due, state, until, mails, sweep, swept, complete>>

\* mark_filed, dismiss and reopen of a deadline: its reminders stay as they are.
SetDeadline(i, status) ==
    /\ state[i] # "gone" /\ status \in {"open", "filed", "dismissed"} /\ state[i] # status
    /\ Act
    /\ state' = [state EXCEPT ![i] = status]
    /\ until' = IF status = "open" THEN [until EXCEPT ![i] = 0] ELSE until
    /\ touched' = touched \cup {i}
    /\ UNCHANGED <<day, due, rows, mails, sweep, swept, excused, complete>>

\* Bound of the model: until tomorrow.
SnoozeDeadline(i) ==
    /\ state[i] # "gone"
    /\ Act
    /\ state' = [state EXCEPT ![i] = "snoozed"]
    /\ until' = [until EXCEPT ![i] = day + 1]
    /\ UNCHANGED <<day, due, rows, mails, sweep, swept, history>>

\* update_deadline. Bound of the model: by one day.
MoveDeadline(i) ==
    /\ state[i] # "gone"
    /\ Act
    /\ due' = [due EXCEPT ![i] = @ + 1] /\ touched' = touched \cup {i}
    /\ UNCHANGED <<day, state, until, rows, mails, sweep, swept, excused, complete>>

\* The reminders go with the deadline.
DeleteDeadline(i) ==
    /\ state[i] # "gone"
    /\ \A s \in Sweepers : Running(s) => \A k \in sweep[s].created : k[1] # i
    /\ Act
    /\ state' = [state EXCEPT ![i] = "gone"]
    /\ rows' = [k \in Keys |-> IF k[1] = i THEN "none" ELSE rows[k]]
    /\ UNCHANGED <<day, due, until, mails, sweep, swept, history>>

Tomorrow ==
    /\ day < MaxDay
    /\ day' = day + 1
    /\ swept' = {} /\ complete' = FALSE /\ touched' = {}
    /\ UNCHANGED <<due, state, until, rows, mails, sweep, acts, excused>>

Proceed(s) ==
    NextFirm(s) \/ Persist(s) \/ Mail(s) \/ Commit(s) \/ FirmFails(s) \/ Aborted(s)

Next ==
    \/ Tomorrow
    \/ \E s \in Sweepers : Start(s) \/ Restart(s)
    \/ \E s \in Sweepers : Proceed(s)
    \/ \E s \in Sweepers : Fails(s)
    \/ \E k \in Keys : Done(k)
    \/ \E k \in Keys, status \in RowStates : Settle(k, status)
    \/ \E k \in Keys : DeleteReminder(k)
    \/ \E i \in Items, status \in DeadlineStates : SetDeadline(i, status)
    \/ \E i \in Items : SnoozeDeadline(i)
    \/ \E i \in Items : MoveDeadline(i)
    \/ \E i \in Items : DeleteDeadline(i)

Spec == Init /\ [][Next]_vars

\* A sweep that has begun goes on. Nothing makes one begin, or a day wait for it.
Fairness == \A s \in Sweepers : WF_vars(Proceed(s))

FairSpec == Spec /\ Fairness

----------------------------------------------------------------------------
RemindersTypeOK ==
    /\ day \in 0 .. MaxDay
    /\ due \in [Items -> Int]
    /\ state \in [Items -> DeadlineStates]
    /\ until \in [Items -> Nat]
    /\ rows \in [Keys -> RowStates]
    /\ mails \in [Keys -> 0 .. 2]
    /\ sweep \in [Sweepers -> Sweep \cup {Idle}]
    /\ acts \in 0 .. MaxActs
    /\ excused \subseteq Keys
    /\ swept \subseteq Sweepers /\ complete \in BOOLEAN /\ touched \subseteq Items
    /\ \A k \in Keys : state[k[1]] = "gone" => rows[k] = "none"

\* "A duplicate run creates nothing and emails no one" (scheduler.py): however
\* sweeps overlap, a reminder is mailed again only if the sweep that mailed it
\* was undone or its row was deleted.
MailedOnce == \A k \in Keys : mails[k] = 2 => k \in excused

\* Once a sweep of all firms has begun and committed today, every open deadline has the
\* reminder of the rung it is on, unless somebody has reopened or moved it today or
\* deleted the reminder: a snooze that is over, a row that another sweep had inserted and
\* then undone, or a duplicate sweep loses nothing (scheduler.py). A day on which no sweep
\* commits can lose its rung: the next day's sweep may find the deadline on another.
NeedsReminder(k) ==
    LET i == k[1]
    IN  /\ state[i] = "open" \/ (state[i] = "snoozed" /\ until[i] <= day)
        /\ RungOf(i) = k[2] /\ rows[k] = "none"
CrossedIsStored == complete => \A k \in Keys : NeedsReminder(k) => k[1] \in touched

\* A sweep ends, though sweeps that hold one firm's rows wait for another's.
SweepsEnd == \A s \in Sweepers : Running(s) ~> ~Running(s)
============================================================================
