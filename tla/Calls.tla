------------------------------- MODULE Calls -------------------------------
(***************************************************************************)
(* The life of one video call as backend/app/routers/calls.py keeps it:    *)
(* the call_sessions row, its call_participants rows and its pending       *)
(* call_invitations. Every request is one atomic step here; CallsTx splits *)
(* requests into the statements of their transactions.                     *)
(*                                                                         *)
(* A request that answers with an HTTP error changes nothing: db.py's      *)
(* get_session rolls the transaction back, the lazy "missed" update of     *)
(* _expire_stale_ringing included. Such a request is not a step.           *)
(***************************************************************************)
EXTENDS CallMatrix

CONSTANTS
    Profiles,       \* profile ids
    Caller,         \* the profile that creates the call
    Profile,        \* [Profiles -> profile record]
    AssignedStaff   \* Client.owner_id of every client

ASSUME CallerAssumption == Caller \in Profiles

VARIABLES
    status,     \* call_sessions.status, "none" before create_call
    answered,   \* call_sessions.connected_at is set
    overdue,    \* started_at is further back than CALL_RINGING_TIMEOUT_SECONDS
    part,       \* call_participants.status per profile, "none" without a row
    pending     \* profiles with a pending call_invitations row

vars == <<status, answered, overdue, part, pending>>

\* Fault: a missed call is not counted as closed.
TerminalWithoutMissed == {"ended", "cancelled", "declined", "failed"}
Terminal == {"ended", "cancelled", "declined", "missed", "failed"}
Joinable == {"ringing", "accepted"}
Open     == {"invited", "ringing", "joined"}
CallStatus == {"none"} \cup Joinable \cup Terminal
PartStatus == {"none", "declined", "left", "removed"} \cup Open

IsParticipant(p) == part[p] # "none"
Reach(p, q) == CanCall(Profile[p], Profile[q], AssignedStaff)

\* Fault: nothing expires an overdue call.
StatusSeenWithoutExpiry == status

\* The status a handler sees after _expire_stale_ringing.
StatusSeen == IF status = "ringing" /\ overdue THEN "missed" ELSE status

\* Fault: the count forgets its role filter.
SomeoneMayAnswerOrCaller(ps) == \E p \in Profiles : ps[p] \in Open
\* The count of decline_call: somebody besides the caller may still answer.
SomeoneMayAnswer(ps) == \E p \in Profiles \ {Caller} : ps[p] \in Open
\* The count of end_call.
SomeoneJoined(ps) == \E p \in Profiles : ps[p] = "joined"

----------------------------------------------------------------------------
Init ==
    /\ status = "none"
    /\ answered = FALSE
    /\ overdue = FALSE
    /\ part = [p \in Profiles |-> "none"]
    /\ pending = {}

Create(invitees) ==
    /\ status = "none"
    /\ Caller \notin invitees
    /\ CanCreate(Profile[Caller], {Profile[t] : t \in invitees}, AssignedStaff)
    /\ status' = "ringing"
    /\ part' = [p \in Profiles |-> IF p = Caller THEN "invited"
                                   ELSE IF p \in invitees THEN "ringing"
                                   ELSE "none"]
    /\ pending' = invitees
    /\ UNCHANGED <<answered, overdue>>

\* The ringing timeout passes; only a look at the call acts on it.
RingTimeout ==
    /\ status = "ringing" /\ ~overdue
    /\ overdue' = TRUE
    /\ UNCHANGED <<status, answered, part, pending>>

\* list_calls and get_call by p: the lazy expiry is their only effect.
Look(p) ==
    /\ IsParticipant(p)
    /\ status' = StatusSeen
    /\ UNCHANGED <<answered, overdue, part, pending>>

\* Fault: answering leaves the invitation pending.
JoinLeavingInvitation(p) ==
    /\ part' = [part EXCEPT ![p] = "joined"]
    /\ UNCHANGED <<pending, overdue>>

\* The rows of a participant who answers: create_call_token, accept_call.
Join(p) ==
    /\ part' = [part EXCEPT ![p] = "joined"]
    /\ pending' = pending \ {p}
    /\ UNCHANGED overdue

\* create_call_token: the definitive join. The caller's own join does not
\* answer the call.
Token(p) ==
    /\ IsParticipant(p)
    /\ StatusSeen \in Joinable
    /\ part[p] \notin {"declined", "removed", "joined"}
    /\ IF status = "ringing" /\ p # Caller
       THEN status' = "accepted" /\ answered' = TRUE
       ELSE UNCHANGED <<status, answered>>
    /\ Join(p)

\* Fault: accepting does not look at the call's status.
AcceptWithoutStatus(p) ==
    /\ part[p] \in {"invited", "ringing"}
    /\ status' = "accepted" /\ answered' = TRUE
    /\ Join(p)

\* accept_call: like a token, but any invited or ringing participant answers.
Accept(p) ==
    /\ part[p] \in {"invited", "ringing"}
    /\ StatusSeen \in Joinable
    /\ IF status = "ringing"
       THEN status' = "accepted" /\ answered' = TRUE
       ELSE UNCHANGED <<status, answered>>
    /\ Join(p)

Decline(p) ==
    /\ part[p] \in {"invited", "ringing"}
    /\ part' = [part EXCEPT ![p] = "declined"]
    /\ pending' = pending \ {p}
    /\ status' = IF StatusSeen = "ringing" /\ ~SomeoneMayAnswer(part')
                 THEN "declined" ELSE StatusSeen
    /\ UNCHANGED <<answered, overdue>>

Cancel ==
    /\ status = "ringing"
    /\ status' = "cancelled"
    /\ UNCHANGED <<answered, overdue, part, pending>>

\* Fault: the joined are counted before the leaver's row is written.
EndCountingFirst(p) ==
    /\ IsParticipant(p)
    /\ part' = IF part[p] = "joined" THEN [part EXCEPT ![p] = "left"] ELSE part
    /\ status' = IF status \notin Terminal /\ (~SomeoneJoined(part) \/ p = Caller)
                 THEN "ended" ELSE status
    /\ UNCHANGED <<answered, overdue, pending>>

\* end_call: leave, and close the call if that empties it or p is the caller.
End(p) ==
    /\ IsParticipant(p)
    /\ part' = IF part[p] = "joined" THEN [part EXCEPT ![p] = "left"] ELSE part
    /\ status' = IF status \notin Terminal /\ (~SomeoneJoined(part') \/ p = Caller)
                 THEN "ended" ELSE status
    /\ UNCHANGED <<answered, overdue, pending>>

\* invite_participant by p, who has to be joined; the call's status is not
\* looked at.
Invite(p, target) ==
    /\ part[p] = "joined"
    /\ Reach(p, target)
    /\ part[target] \notin Open
    /\ part' = [part EXCEPT ![target] = "ringing"]
    /\ pending' = pending \cup {target}
    /\ UNCHANGED <<status, answered, overdue>>

\* remove_participant by the caller: the call and the target's invitation
\* stay as they are.
Remove(target) ==
    /\ target # Caller
    /\ IsParticipant(target)
    /\ part' = [part EXCEPT ![target] = "removed"]
    /\ UNCHANGED <<status, answered, overdue, pending>>

Next ==
    \/ \E invitees \in SUBSET Profiles : Create(invitees)
    \/ RingTimeout
    \/ Cancel
    \/ \E p \in Profiles : Look(p)
    \/ \E p \in Profiles : Token(p)
    \/ \E p \in Profiles : Accept(p)
    \/ \E p \in Profiles : Decline(p)
    \/ \E p \in Profiles : End(p)
    \/ \E p \in Profiles : Remove(p)
    \/ \E p, target \in Profiles : Invite(p, target)

Spec == Init /\ [][Next]_vars

\* Time passes, and somebody in the call keeps a page open: call-provider.tsx
\* lists the ringing calls every RING_POLL_MS.
Fairness == WF_vars(RingTimeout) /\ WF_vars(\E p \in Profiles : Look(p))

FairSpec == Spec /\ Fairness

----------------------------------------------------------------------------
TypeOK ==
    /\ status \in CallStatus
    /\ answered \in BOOLEAN
    /\ overdue \in BOOLEAN
    /\ part \in [Profiles -> PartStatus]
    /\ pending \subseteq Profiles

Promise == INSTANCE CallLifecycle WITH status <- status, answered <- answered

\* The call keeps the promise of CallLifecycle: every handler leaves a closed
\* call closed (the comment on _TERMINAL_CALL_STATUSES), answers it at most
\* once, and only an unanswered call is cancelled, declined or missed.
KeepsPromise == Promise!Spec

\* While a call rings, somebody besides the caller has not declined it: the
\* last decline closes it (decline_call's count).
SomebodyHasNotDeclined ==
    status = "ringing" =>
        \E p \in Profiles \ {Caller} : part[p] \notin {"none", "declined"}

\* Whoever has answered, declined or left has no invitation still pending, so
\* the inbox never shows a ring that was dealt with.
SettledHasNoInvitation ==
    \A p \in pending : part[p] \in {"ringing", "removed"}

\* An answered call with nobody in it was emptied by a removal: leaving closes
\* it (end_call), whoever leaves last.
EmptiedOnlyByRemoval ==
    status = "accepted" /\ ~SomeoneJoined(part) =>
        \E p \in Profiles : part[p] = "removed"

\* A call cannot ring forever while one of its participants keeps polling: a
\* ring ends answered, declined, cancelled, ended or missed.
RingingStops == status = "ringing" ~> status # "ringing"
============================================================================
