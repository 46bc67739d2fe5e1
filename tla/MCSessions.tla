---------------------------- MODULE MCSessions ----------------------------
(***************************************************************************)
(* Two tabs of one browser, and a third one elsewhere, used by the         *)
(* platform's super-admin and somebody of a firm.                          *)
(***************************************************************************)
EXTENDS Sessions

CONSTANTS root, staff, firm, here, there, t1, t2, t3

MCBrowserOf(t) == IF t = t3 THEN there ELSE here
============================================================================
