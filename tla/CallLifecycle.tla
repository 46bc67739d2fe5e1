--------------------------- MODULE CallLifecycle ---------------------------
(***************************************************************************)
(* What a call promises to everybody who looks at it: it rings once, it is *)
(* answered at most once, it closes once and for good, and how it closed   *)
(* says whether it was ever answered.                                      *)
(***************************************************************************)
VARIABLES status, answered

vars == <<status, answered>>

Init == status = "none" /\ answered = FALSE

Ring == status = "none" /\ status' = "ringing" /\ UNCHANGED answered

Answer == status = "ringing" /\ status' = "accepted" /\ answered' = TRUE

\* Nobody picked up: the caller, the invitees or the clock gave up on it.
GiveUp == /\ status = "ringing"
          /\ status' \in {"cancelled", "declined", "missed"}
          /\ UNCHANGED answered

HangUp == /\ status \in {"ringing", "accepted"}
          /\ status' = "ended"
          /\ UNCHANGED answered

Next == Ring \/ Answer \/ GiveUp \/ HangUp

Spec == Init /\ [][Next]_vars
===========================================================================
