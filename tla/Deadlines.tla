------------------------------ MODULE Deadlines ------------------------------
(***************************************************************************)
(* The generated deadlines of one client and one service.  Pressing        *)
(* "generate" and assigning the service (routers/deadlines.py, services.py)*)
(* read the assignment and the deadlines it has, plan the periods that end *)
(* between 90 days ago and the horizon, and insert what is missing, in a   *)
(* transaction that others overlap.  Meanwhile people change the client's  *)
(* year end or the service, assign it by the route that generates nothing, *)
(* end, suspend or remove the assignment and delete deadlines, and the     *)
(* days pass.  Nothing generates by itself.                                *)
(*                                                                         *)
(* Left out: what becomes of a deadline (Reminders), which generation does *)
(* not look at; deadlines entered by hand, which belong to no assignment;  *)
(* other clients and services, whose rows no two share; a retired service  *)
(* or a departed client, for whom generation does as for a suspended one.  *)
(***************************************************************************)
EXTENDS TaxCalendar, Bags

CONSTANTS
    Users,
    FirstYear, LastYear,   \* bound of the model: years with a calendar
    Days,               \* days on which something happens
    Terms,              \* year ends, frequencies and due rules
    Horizons,           \* horizon_months of a request to generate
    MaxActs, MaxDays,   \* bounds of the model: what else people do, days that pass,
    MaxPause,           \* how far the next one is, new assignments
    MaxAssigned,
    Deletable,          \* and the periods whose deadline somebody deletes
    Idle, Never         \* no request; no days

Years == FirstYear .. LastYear

ASSUME DeadlinesAssumption ==
    /\ FirstYear \in Nat \ {0} /\ LastYear \in Nat /\ FirstYear <= LastYear
    /\ Days \subseteq Nat /\ \A d \in Days : d > 365     \* dates begin with the year 1
    /\ \A t \in Terms : /\ t.frequency \in Frequencies
                        /\ t.yearEnd.month \in 1 .. 12 /\ t.yearEnd.day \in 1 .. 31
    /\ Horizons \subseteq 1 .. 60
    /\ MaxActs \in Nat /\ MaxDays \in Nat /\ MaxPause \in Nat
    /\ MaxAssigned \in Nat

VARIABLES
    today, terms,
    service,   \* the assignment: client_services
    rows,      \* the period_end of each of its deadlines
    gen,       \* the generation each user has under way
    filled,    \* history: days of which every period that ended was generated
    deleted,   \* history: ends of periods whose deadline was deleted
    acts, passed

vars == <<today, terms, service, rows, gen, filled, deleted, acts, passed>>

\* Without an end_date.
Forever == Date(LastYear, 12, 31)

Init ==
    /\ today \in Days /\ terms \in Terms
    /\ service = [id |-> 0, state |-> "none", from |-> today, until |-> Forever]
    /\ rows = EmptyBag
    /\ gen = [u \in Users |-> Idle]
    /\ filled = Never /\ deleted = {}
    /\ acts = 0 /\ passed = 0

\* Bound of the model.
Act == acts < MaxActs /\ acts' = acts + 1

----------------------------------------------------------------------------
(* Generation.                                                             *)

WindowFrom == today - 90
WindowTo(months) == today + (61 * months) \div 2

\* generate_deadlines up to its flush, for the assignment s as its transaction
\* sees it, which it has inserted or activated itself when own is true.
Reads(u, s, own, months) ==
    gen' = [gen EXCEPT ![u] =
              [service |-> s, own |-> own, terms |-> terms, known |-> BagToSet(rows),
               from |-> WindowFrom, to |-> WindowTo(months),
               plan |-> PlanDeadlines(terms, s, WindowFrom, WindowTo(months))]]

Generate(u) ==
    /\ gen[u] = Idle
    /\ service.state = "active"
    /\ \E months \in Horizons : Reads(u, service, FALSE, months)
    /\ UNCHANGED <<today, terms, service, rows, filled, deleted, acts, passed>>

\* Others wait for a transaction that has inserted or activated the assignment.
Locked == \E u \in Users : gen[u] # Idle /\ gen[u].own

\* assign_service: a former assignment is activated as it is; a new one starts
\* today, or on the day that is given.
Assign(u) ==
    /\ gen[u] = Idle /\ ~Locked
    /\ \/ /\ service.state # "none"
          /\ Reads(u, [service EXCEPT !.state = "active"], service.state = "inactive", 18)
       \/ /\ service.state = "none" /\ service.id < MaxAssigned
          /\ \E from \in {today, today - 365} :
                Reads(u, [id |-> service.id + 1, state |-> "active",
                          from |-> from, until |-> Forever], TRUE, 18)
    /\ UNCHANGED <<today, terms, service, rows, filled, deleted, acts, passed>>

\* Periods that have a deadline are skipped, whatever it is for.
Missing(g) == {p.end : p \in g.plan} \ g.known

\* Fault: without the index deadlines_auto_period_idx.
IndexAllowsAll(ends) == TRUE
IndexAllows(ends) == ends \cap BagToSet(rows) = {}

\* The assignment is still there, or comes with this transaction.
Placed(g) == g.own \/ (service.state # "none" /\ service.id = g.service.id)

\* Two versions of the assignment have the same periods.
Same(s, t) == s.from = t.from /\ s.until = t.until

\* The days that are filled with another window that leaves no day between.
Joined(g) ==
    IF filled = Never \/ g.from > filled.to + 1 \/ g.to < filled.from - 1
    THEN [from |-> g.from, to |-> g.to]
    ELSE [from |-> Min({g.from, filled.from}), to |-> Max({g.to, filled.to})]

\* Flush and commit: one row that the index or a foreign key refuses takes the
\* whole request back, and the assignment with it.
Commit(u) ==
    LET g   == gen[u]
        can == Missing(g) # {} => Placed(g) /\ IndexAllows(Missing(g))
    IN  /\ g # Idle
        /\ gen' = [gen EXCEPT ![u] = Idle]
        /\ \/ /\ can
              /\ rows' = rows (+) SetToBag(Missing(g))
              /\ service' = IF g.own THEN g.service ELSE service
              /\ filled' = IF Placed(g) /\ g.terms = terms /\ Same(g.service, service')
                           THEN Joined(g) ELSE filled
              /\ deleted' = deleted \ Missing(g)
           \/ /\ ~can
              /\ UNCHANGED <<rows, service, filled, deleted>>
        /\ UNCHANGED <<today, terms, acts, passed>>

----------------------------------------------------------------------------
(* What else people do, each in a short transaction.                       *)

\* update_client and update_service.
ChangeTerms(t) ==
    /\ t # terms
    /\ Act
    /\ terms' = t
    /\ filled' = Never
    /\ UNCHANGED <<today, service, rows, gen, deleted, passed>>

\* assign_client_service, the route of the client's page, generates nothing.
AssignOnly ==
    /\ service.state = "none" /\ service.id < MaxAssigned /\ ~Locked
    /\ Act
    /\ service' = [id |-> service.id + 1, state |-> "active", from |-> today, until |-> Forever]
    /\ UNCHANGED <<today, terms, rows, gen, filled, deleted, passed>>

\* update_assignment, update_client_service: the service ends or goes on, is
\* suspended or resumed. Nothing is generated or deleted.
UpdateAssignment ==
    /\ service.state # "none" /\ ~Locked
    /\ Act
    /\ \E until \in {service.until, today, Forever}, state \in {"active", "inactive"} :
          service' = [service EXCEPT !.until = until, !.state = state]
    /\ filled' = IF Same(service, service') THEN filled ELSE Never
    /\ UNCHANGED <<today, terms, rows, gen, deleted, passed>>

\* Fault: deadlines outlive their assignment.
KeptRows == rows
\* The open ones are deleted, the foreign key deletes the others.
RowsAfterRemoval == EmptyBag

RemoveAssignment ==
    /\ service.state # "none" /\ ~Locked
    /\ Act
    /\ service' = [service EXCEPT !.state = "none"]
    /\ rows' = RowsAfterRemoval
    /\ filled' = Never /\ deleted' = {}
    /\ UNCHANGED <<today, terms, gen, passed>>

DeleteDeadline(end) ==
    /\ Act
    /\ rows' = rows (-) SetToBag({end})
    /\ deleted' = deleted \cup {end}
    /\ UNCHANGED <<today, terms, service, gen, filled, passed>>

\* Bound of the model: Days are those on which something happens.
Pass ==
    /\ passed < MaxDays /\ passed' = passed + 1
    /\ \E d \in Days : d \in today + 1 .. today + MaxPause /\ today' = d
    /\ UNCHANGED <<terms, service, rows, gen, filled, deleted, acts>>

Next ==
    \/ \E u \in Users : Generate(u)
    \/ \E u \in Users : Assign(u)
    \/ \E u \in Users : Commit(u)
    \/ \E t \in Terms : ChangeTerms(t)
    \/ AssignOnly
    \/ UpdateAssignment
    \/ RemoveAssignment
    \/ \E end \in BagToSet(rows) \cap Deletable : DeleteDeadline(end)
    \/ Pass

Spec == Init /\ [][Next]_vars

----------------------------------------------------------------------------
(* What the calendar says, stated without the engine's arithmetic.         *)

\* The ecclesiastical full moons of the years 1900 to 2199, as days of March, by
\* the year's place in the cycle of nineteen.
PaschalMoon ==
    <<45, 34, 23, 42, 31, 49, 39, 28, 47, 36, 25, 44, 33, 22, 41, 30, 48, 38, 27>>

\* Easter is the Sunday after it, and Good Friday two days before.
IsGoodFriday(d) ==
    LET y    == YearOf(d)
        moon == Date(y, 3, 1) + PaschalMoon[(y % 19) + 1] - 1
    IN  Weekday(d) = 4 /\ d + 2 \in moon + 1 .. moon + 7

IsHoliday(d) ==
    LET m == MonthOf(d)
        n == DayOf(d)
    IN  \/ m \in {1, 7} /\ n = 1
        \/ m = 9 /\ n = 30
        \/ m = 11 /\ n = 11
        \/ m = 12 /\ n \in {25, 26}
        \/ Weekday(d) = 0 /\ \/ m = 5 /\ n \in 18 .. 24
                             \/ m = 9 /\ n \in 1 .. 7
                             \/ m = 10 /\ n \in 8 .. 14
        \/ IsGoodFriday(d)

BusinessDay(d) == Weekday(d) \notin {5, 6} /\ ~IsHoliday(d)

\* The ends of a client's periods: those of every so many months, counted from the
\* month of the year end.
YearEndOf(t) ==
    IF t.rule.period_basis = "calendar" THEN [month |-> 12, day |-> 31] ELSE t.yearEnd

EndsInMonth(t, y, m) ==
    CASE t.frequency = "one_time" -> {}
      [] t.frequency = "monthly" -> {MonthEnd(y, m)}
      [] OTHER ->
            IF m = YearEndOf(t).month THEN {FiscalYearEnd(y, YearEndOf(t))}
            ELSE IF (m - YearEndOf(t).month) % Stride(t.frequency) = 0 THEN {MonthEnd(y, m)} ELSE {}

FirstDay(t, end) ==
    IF t.frequency = "monthly" THEN Date(YearOf(end), MonthOf(end), 1)
                               ELSE PeriodStart(end, t.frequency)

EndsOf == [t \in Terms |-> UNION {EndsInMonth(t, y, m) : y \in Years, m \in 1 .. 12}]

\* A year end that leaves no part of a month to the next year.
EndsWithMonth(t) == YearEndOf(t).day >= IF YearEndOf(t).month = 2 THEN 29
                                        ELSE MonthLength(2001, YearEndOf(t).month)

----------------------------------------------------------------------------
DeadlinesTypeOK ==
    /\ today \in Days /\ terms \in Terms
    /\ service.id \in Nat /\ service.state \in {"none", "inactive", "active"}
    /\ service.from \in Nat /\ service.until \in Nat
    /\ BagToSet(rows) \subseteq Nat /\ deleted \subseteq Nat
    /\ service.state = "none" => rows = EmptyBag
    /\ \A u \in Users : gen[u] = Idle \/ gen[u].known \subseteq Nat
    /\ filled = Never \/ filled.from <= filled.to
    /\ acts \in 0 .. MaxActs /\ passed \in 0 .. MaxDays

\* However two generations, an assignment and a removal overlap, no period has two
\* deadlines (the read of existing rows in generate_deadlines and the index).
OnePerPeriod == \A end \in BagToSet(rows) : rows[end] = 1

\* A deadline that observes business days falls on the first one that is not before
\* its nominal date (next_business_day and statutory_holidays in deadlines.py), as
\* far as the moons are known.
FilingDaysAreRight ==
    \A u \in Users : gen[u] # Idle =>
        \A p \in gen[u].plan :
            LET nominal == NominalDue(p.end, gen[u].terms.rule)
            IN  /\ gen[u].terms.rule.observe_business_days
                /\ nominal \in Date(1900, 1, 1) .. Date(2198, 12, 31)
                => /\ nominal <= p.due /\ BusinessDay(p.due)
                   /\ \A d \in nominal .. p.due - 1 : ~BusinessDay(d)

\* When the fiscal year ends with a month, or has no shorter periods, no day lies between
\* a planned period and the one that ends last before it (periods_for in deadlines.py).
PeriodsLeaveNoGap ==
    \A u \in Users : gen[u] # Idle =>
        LET t    == gen[u].terms
            plan == gen[u].plan
        IN  EndsWithMonth(t) \/ t.frequency \in {"annual", "monthly"} =>
                \A q \in plan :
                    \/ \A p \in plan : q.end <= p.end
                    \/ \E p \in plan : p.end < q.end /\ q.start <= p.end + 1

\* As windows slide and generations overlap, fail or are repeated, no period that
\* ended within what was generated is left out, unless its deadline was deleted or
\* the terms changed (generate_deadlines and plan_deadlines).
NoPeriodIsLost ==
    filled # Never =>
        \A end \in EndsOf[terms] :
            /\ filled.from <= end /\ end <= filled.to
            /\ service.from <= end
            /\ FirstDay(terms, end) <= service.until
            => end \in BagToSet(rows) \cup deleted
============================================================================
