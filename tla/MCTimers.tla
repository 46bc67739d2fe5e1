----------------------------- MODULE MCTimers -----------------------------
(***************************************************************************)
(* One person with two tabs and two tasks, and a colleague whom the Owner  *)
(* may give them to.                                                       *)
(***************************************************************************)
EXTENDS Timers

CONSTANTS ann, bob, t1, t2

MCPersonOf(t) == ann

\* The tabs are alike: what holds of one holds of the other.
WidgetIsCorrected == WidgetIsCorrectedIn(t1)

MCInit == Init /\ assignee = [k \in Tasks |-> ann]
MCSpec == MCInit /\ [][Next]_vars /\ Fairness
============================================================================
