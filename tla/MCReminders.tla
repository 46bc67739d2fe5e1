---------------------------- MODULE MCReminders ----------------------------
(***************************************************************************)
(* Two firms with a deadline each; the scheduler, the super-admin's sweep  *)
(* and the button of the first firm's Owner.                               *)
(***************************************************************************)
EXTENDS Reminders

CONSTANTS f1, f2, i1, i2, worker, spare, admin, owner

MCFirmOf(i) == IF i = i1 THEN f1 ELSE f2
MCKindOf(s) == CASE s = admin -> "all" [] s = owner -> "firm" [] OTHER -> "daily"
MCOverdue == {-1}
============================================================================
