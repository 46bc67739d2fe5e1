---------------------------- MODULE CallsProofs ----------------------------
(***************************************************************************)
(* Calls and CallsTx, for every set of profiles, every calling matrix and  *)
(* every caller: the invariants, that Calls implements CallLifecycle, and  *)
(* what is left of both when the requests are transactions that overlap.   *)
(***************************************************************************)
EXTENDS CallsTx, FiniteSetTheorems, TLAPS

\* Before create_call there are no rows at all.
NoRowsBeforeCreate == status = "none" => \A p \in Profiles : part[p] = "none"

\* The inductive invariant: the checked invariants support each other, and
\* end_call's step needs NoRowsBeforeCreate to know that the call exists.
IInv ==
    /\ TypeOK
    /\ NoRowsBeforeCreate
    /\ SomebodyHasNotDeclined
    /\ SettledHasNoInvitation
    /\ EmptiedOnlyByRemoval

LEMMA InitIInv == Init => IInv
  BY CallerAssumption DEF Init, IInv, TypeOK, NoRowsBeforeCreate, SomebodyHasNotDeclined,
     SettledHasNoInvitation, EmptiedOnlyByRemoval, CallStatus, PartStatus, Open,
     Joinable, Terminal

\* Type correctness of each request, which none of the other parts needs.
LEMMA NextTypeOK == TypeOK /\ [Next]_vars => TypeOK'
<1> SUFFICES ASSUME TypeOK, [Next]_vars PROVE TypeOK'
  OBVIOUS
<1> USE CallerAssumption DEF TypeOK, CallStatus, PartStatus, Open, Joinable, Terminal
<1>1. ASSUME NEW invitees \in SUBSET Profiles, Create(invitees) PROVE TypeOK'
  BY <1>1 DEF Create
<1>2. CASE RingTimeout \/ Cancel \/ UNCHANGED vars
  BY <1>2 DEF RingTimeout, Cancel, vars
<1>3. ASSUME NEW p \in Profiles, Look(p) \/ Decline(p) \/ End(p) PROVE TypeOK'
  BY <1>3 DEF Look, Decline, End, StatusSeen
<1>4. ASSUME NEW p \in Profiles, Token(p) \/ Accept(p) PROVE TypeOK'
  BY <1>4 DEF Token, Accept, Join
<1>5. ASSUME NEW p \in Profiles, NEW target \in Profiles,
             Remove(target) \/ Invite(p, target)
      PROVE  TypeOK'
  BY <1>5 DEF Remove, Invite
<1>6. QED
  BY <1>1, <1>2, <1>3, <1>4, <1>5 DEF Next

LEMMA NextIInv == IInv /\ [Next]_vars => IInv'
<1> SUFFICES ASSUME IInv, [Next]_vars PROVE IInv'
  OBVIOUS
<1> USE CallerAssumption
<1>0. TypeOK'
  BY NextTypeOK DEF IInv
<1> DEFINE Rest == /\ NoRowsBeforeCreate /\ SomebodyHasNotDeclined
                   /\ SettledHasNoInvitation /\ EmptiedOnlyByRemoval
<1> USE <1>0 DEF IInv, TypeOK, NoRowsBeforeCreate, SomebodyHasNotDeclined,
        SettledHasNoInvitation, EmptiedOnlyByRemoval, SomeoneJoined, Open, Joinable, Terminal
<1>1. ASSUME NEW invitees \in SUBSET Profiles, Create(invitees) PROVE Rest'
  <2>1. PICK t \in invitees : t # Caller
    BY <1>1 DEF Create, CanCreate
  <2>2. part'[t] = "ringing"
    BY <1>1, <2>1 DEF Create
  <2> QED
    BY <1>1, <2>1, <2>2 DEF Create
<1>2. CASE RingTimeout \/ Cancel \/ UNCHANGED vars
  BY <1>2 DEF RingTimeout, Cancel, vars
<1>3. ASSUME NEW p \in Profiles, Look(p) PROVE Rest'
  BY <1>3 DEF Look, StatusSeen, IsParticipant
<1>4. ASSUME NEW p \in Profiles, Decline(p) PROVE Rest'
  BY <1>4 DEF Decline, StatusSeen, SomeoneMayAnswer
<1>5. ASSUME NEW p \in Profiles, End(p) PROVE Rest'
  BY <1>5 DEF End, IsParticipant
<1>6. ASSUME NEW p \in Profiles, Token(p) \/ Accept(p) PROVE Rest'
  BY <1>6 DEF Token, Accept, Join, IsParticipant, StatusSeen
<1>7. ASSUME NEW target \in Profiles, Remove(target) PROVE Rest'
  BY <1>7 DEF Remove, IsParticipant
<1>8. ASSUME NEW p \in Profiles, NEW target \in Profiles, Invite(p, target) PROVE Rest'
  BY <1>8 DEF Invite
<1>9. QED
  BY <1>0, <1>1, <1>2, <1>3, <1>4, <1>5, <1>6, <1>7, <1>8 DEF Next

----------------------------------------------------------------------------
\* Every reachable state is well typed.
THEOREM TypeCorrect == Spec => []TypeOK
<1>1. IInv => TypeOK
  BY DEF IInv
<1>2. QED
  BY <1>1, InitIInv, NextIInv, PTL DEF Spec

\* While a call rings, somebody besides the caller has not declined it
\* (decline_call closes the call with the last decline).
THEOREM HopeWhileRinging == Spec => []SomebodyHasNotDeclined
<1>1. IInv => SomebodyHasNotDeclined
  BY DEF IInv
<1>2. QED
  BY <1>1, InitIInv, NextIInv, PTL DEF Spec

\* Nobody who answered, declined or left still has a pending invitation.
THEOREM NoStaleInvitation == Spec => []SettledHasNoInvitation
<1>1. IInv => SettledHasNoInvitation
  BY DEF IInv
<1>2. QED
  BY <1>1, InitIInv, NextIInv, PTL DEF Spec

\* An answered call that nobody is in was emptied by a removal (end_call).
THEOREM LastLeaverCloses == Spec => []EmptiedOnlyByRemoval
<1>1. IInv => EmptiedOnlyByRemoval
  BY DEF IInv
<1>2. QED
  BY <1>1, InitIInv, NextIInv, PTL DEF Spec

----------------------------------------------------------------------------
\* Each request is a step of CallLifecycle or leaves the call's row alone.
LEMMA StepKeepsPromise ==
    IInv /\ [Next]_vars => [Promise!Next]_(Promise!vars)
<1> SUFFICES ASSUME IInv, [Next]_vars PROVE [Promise!Next]_(Promise!vars)
  OBVIOUS
<1> USE DEF Promise!Next, Promise!vars, Promise!Ring, Promise!Answer, Promise!GiveUp,
        Promise!HangUp, Joinable, Terminal
<1>1. ASSUME NEW invitees \in SUBSET Profiles, Create(invitees)
      PROVE  Promise!Ring
  BY <1>1 DEF Create
<1>2. CASE RingTimeout \/ Cancel \/ UNCHANGED vars
  BY <1>2 DEF RingTimeout, Cancel, vars
<1>3. ASSUME NEW p \in Profiles, Look(p) \/ Decline(p)
      PROVE  Promise!GiveUp \/ UNCHANGED Promise!vars
  BY <1>3 DEF Look, Decline, StatusSeen
<1>4. ASSUME NEW p \in Profiles, Token(p) \/ Accept(p)
      PROVE  Promise!Answer \/ UNCHANGED Promise!vars
  BY <1>4 DEF Token, Accept, Join
<1>5. ASSUME NEW p \in Profiles, End(p)
      PROVE  Promise!HangUp \/ UNCHANGED Promise!vars
  <2>1. status \in CallStatus \ {"none"}
    BY <1>5 DEF End, IsParticipant, IInv, TypeOK, NoRowsBeforeCreate
  <2>2. QED
    BY <1>5, <2>1 DEF End, CallStatus
<1>6. ASSUME NEW p \in Profiles, NEW target \in Profiles,
             Remove(target) \/ Invite(p, target)
      PROVE  UNCHANGED Promise!vars
  BY <1>6 DEF Remove, Invite
<1>7. QED
  BY <1>1, <1>2, <1>3, <1>4, <1>5, <1>6 DEF Next

\* Calls implements CallLifecycle: a closed call stays closed, a call is
\* answered at most once, and a cancelled, declined or missed call never was.
THEOREM ImplementsLifecycle == Spec => KeepsPromise
<1>1. Init => Promise!Init
  BY DEF Init, Promise!Init
<1>2. QED
  BY <1>1, InitIInv, NextIInv, StepKeepsPromise, PTL
     DEF Spec, KeepsPromise, Promise!Spec

\* What the promise means for one step, as the comment on
\* _TERMINAL_CALL_STATUSES says it: a closed call's status never changes.
THEOREM ClosedForGood == Spec => [][(status \in Terminal) => (status' = status)]_vars
<1>1. IInv /\ [Next]_vars => [(status \in Terminal) => (status' = status)]_vars
  BY StepKeepsPromise DEF Promise!Next, Promise!vars, Promise!Ring, Promise!Answer,
     Promise!GiveUp, Promise!HangUp, Terminal
<1>2. QED
  BY <1>1, InitIInv, NextIInv, PTL DEF Spec

----------------------------------------------------------------------------
(***************************************************************************)
(* The calling matrix of permissions.py is the symmetric edge set that its *)
(* comment lists, "deduplicating the spec's directional list".             *)
(***************************************************************************)
Member(p)  == ~IsPlatform(p) /\ ~IsPortal(p)
SameFirm(p, q) == p.tenant # NoTenant /\ p.tenant = q.tenant

Edge(p, q, assigned) ==
    \/ IsPlatform(p) /\ ~IsPortal(p) /\ Member(q) /\ IsOwner(q)
    \/ Member(p) /\ IsOwner(p) /\ Member(q) /\ SameFirm(p, q)
    \/ /\ ~IsPlatform(p) /\ IsPortal(p) /\ Member(q) /\ SameFirm(p, q)
       /\ IsOwner(q) \/ assigned[p.client] = q.id

ProfileRows ==
    [id : Profiles, tenant : STRING, client : STRING, role : STRING,
     superadmin : BOOLEAN, active : BOOLEAN]

\* Either of two active people may call the other, or neither may.
THEOREM MatrixIsSymmetric ==
    ASSUME NEW p \in ProfileRows, NEW q \in ProfileRows, NEW assigned,
           p.active, q.active
    PROVE  CanCall(p, q, assigned) <=> CanCall(q, p, assigned)
  BY DEF CanCall, PlatformPair, PortalPair, StaffPair, Assigned, IsPlatform,
     IsPortal, IsOwner, ProfileRows

\* can_call allows exactly the edges its comment lists, in either direction.
THEOREM MatrixIsTheEdgeSet ==
    ASSUME NEW p \in ProfileRows, NEW q \in ProfileRows, NEW assigned,
           p.id # q.id, q.active
    PROVE  CanCall(p, q, assigned) <=> Edge(p, q, assigned) \/ Edge(q, p, assigned)
  BY DEF CanCall, PlatformPair, PortalPair, StaffPair, Assigned, IsPlatform,
     IsPortal, IsOwner, ProfileRows, Edge, Member, SameFirm

----------------------------------------------------------------------------
(***************************************************************************)
(* CallsTx: any number of requests in flight, whatever they overwrite.     *)
(***************************************************************************)

LEMMA TxInitTypeOK == TxInit => TxTypeOK
  BY CallerAssumption, InitIInv DEF TxInit, TxTypeOK, IInv

\* Where a request goes next: its writes are decided, or it is about to count.
LEMMA DecideTyped ==
    ASSUME TxTypeOK, NEW p \in Profiles, NEW row \in Profiles,
           NEW call \in (CallStatus \ {"none"}) \cup {Keep},
           NEW to \in (PartStatus \ {"none"}) \cup {Keep},
           NEW invitation \in {"clear", "add", "insert"} \cup {Keep},
           Decide(p, call, row, to, invitation)
    PROVE  TxTypeOK'
<1> DEFINE w == [call |-> call, row |-> row, to |-> to, invitation |-> invitation]
<1>1. w \in Writes
  BY DEF Writes
<1>2. [stage |-> "decided", writes |-> w] \in Requests
  BY <1>1 DEF Requests
<1>3. TypeOK'
  BY DEF TxTypeOK, TypeOK, Decide, vars
<1> HIDE DEF w
<1>4. req' = [req EXCEPT ![p] = [stage |-> "decided", writes |-> w]]
  BY DEF Decide, w
<1>5. QED
  BY <1>2, <1>3, <1>4 DEF TxTypeOK

LEMMA ReadTyped ==
    ASSUME TxTypeOK, NEW p \in Profiles, NEW op \in {"decline", "leave", "end"},
           NEW seen \in CallStatus, NEW call \in {"missed", Keep},
           Read(p, op, seen, call)
    PROVE  TxTypeOK'
<1>1. [stage |-> "read", op |-> op, seen |-> seen, call |-> call] \in Requests
  BY DEF Requests
<1>2. QED
  BY <1>1 DEF Read, TxTypeOK, TypeOK, vars

LEMMA CountTyped ==
    ASSUME TxTypeOK, NEW p \in Profiles,
           NEW call \in (CallStatus \ {"none"}) \cup {Keep},
           NEW to \in (PartStatus \ {"none"}) \cup {Keep},
           NEW invitation \in {"clear"} \cup {Keep},
           Count(p, call, to, invitation)
    PROVE  TxTypeOK'
<1> DEFINE w == [call |-> call, row |-> p, to |-> to, invitation |-> invitation]
           stage == IF to = Keep THEN "decided" ELSE "flushed"
<1>1. w \in Writes
  BY DEF Writes
<1>2. [stage |-> stage, writes |-> w] \in Requests
  BY <1>1 DEF Requests
<1> HIDE DEF w, stage
<1>3. req' = [req EXCEPT ![p] = [stage |-> stage, writes |-> w]]
  BY DEF Count, w, stage
<1>4. TypeOK'
  BY DEF TxTypeOK, TypeOK, Count, vars
<1>5. QED
  BY <1>2, <1>3, <1>4 DEF TxTypeOK

\* A request that has to count was typed when it read, and one that commits when
\* it decided.
LEMMA RequestFields ==
    ASSUME TxTypeOK, NEW p \in Profiles, req[p] # Idle
    PROVE  /\ req[p].stage = "read" =>
                /\ req[p].op \in {"decline", "leave", "end"}
                /\ req[p].seen \in CallStatus
                /\ req[p].call \in {"missed", Keep}
           /\ req[p].stage # "read" =>
                /\ req[p].writes.call \in (CallStatus \ {"none"}) \cup {Keep}
                /\ req[p].writes.row \in Profiles
                /\ req[p].writes.to \in (PartStatus \ {"none"}) \cup {Keep}
                /\ req[p].writes.invitation \in {"clear", "add", "insert"} \cup {Keep}
           /\ req[p].stage \in {"read", "decided", "flushed"}
<1>1. req[p] \in Requests
  BY DEF TxTypeOK
<1>2. QED
  BY <1>1 DEF Requests, Writes

LEMMA CommitTyped ==
    ASSUME TxTypeOK, NEW p \in Profiles, Commit(p)
    PROVE  TxTypeOK'
<1> DEFINE w == req[p].writes
<1>1. /\ w.call \in (CallStatus \ {"none"}) \cup {Keep}
      /\ w.row \in Profiles
      /\ w.to \in (PartStatus \ {"none"}) \cup {Keep}
      /\ w.invitation \in {"clear", "add", "insert"} \cup {Keep}
  BY RequestFields DEF Commit
<1>2. /\ status' = IF w.call = Keep THEN status ELSE w.call
      /\ answered' = (answered \/ w.call = "accepted")
      /\ part' = IF w.to = Keep THEN part ELSE [part EXCEPT ![w.row] = w.to]
      /\ pending' = CASE w.invitation = "clear" -> pending \ {w.row}
                      [] w.invitation \in {"add", "insert"} -> pending \cup {w.row}
                      [] OTHER -> pending
      /\ req' = [req EXCEPT ![p] = Idle]
      /\ overdue' = overdue
  BY DEF Commit
<1> HIDE DEF w
<1>3. status' \in CallStatus /\ answered' \in BOOLEAN /\ overdue' \in BOOLEAN
  BY <1>1, <1>2 DEF TxTypeOK, TypeOK
<1>4. part' \in [Profiles -> PartStatus]
  BY <1>1, <1>2 DEF TxTypeOK, TypeOK
<1>5. pending' \subseteq Profiles
  BY <1>1, <1>2 DEF TxTypeOK, TypeOK
<1>6. QED
  BY <1>2, <1>3, <1>4, <1>5 DEF TxTypeOK, TypeOK

LEMMA TxNextTypeOK == TxTypeOK /\ [TxNext]_txVars => TxTypeOK'
<1> SUFFICES ASSUME TxTypeOK, [TxNext]_txVars PROVE TxTypeOK'
  OBVIOUS
<1>0. TypeOK
  BY DEF TxTypeOK
<1> DEFINE Calls == (CallStatus \ {"none"}) \cup {Keep}
           Rows == (PartStatus \ {"none"}) \cup {Keep}
<1>a. {"accepted", "cancelled", "declined", "ended", "missed", Keep} \subseteq Calls
      /\ {"joined", "ringing", "removed", "declined", "left", Keep} \subseteq Rows
  BY DEF CallStatus, PartStatus, Joinable, Terminal, Open
<1>1. ASSUME NEW invitees \in SUBSET Profiles, TxCreate(invitees) PROVE TxTypeOK'
  <2>1. [Next]_vars
    BY <1>1 DEF TxCreate, Next
  <2>2. QED
    BY <2>1, <1>0, <1>1, NextTypeOK DEF TxCreate, TxTypeOK
<1>2. CASE TxRingTimeout
  <2>1. [Next]_vars
    BY <1>2 DEF TxRingTimeout, Next
  <2>2. QED
    BY <2>1, <1>0, <1>2, NextTypeOK DEF TxRingTimeout, TxTypeOK
<1>3. CASE ReadCancel
  BY <1>3, <1>a, CallerAssumption, DecideTyped DEF ReadCancel
<1>4. ASSUME NEW p \in Profiles, ReadLook(p) PROVE TxTypeOK'
  <2>1. StatusSeen = "missed"
    BY <1>4 DEF ReadLook, StatusSeen
  <2>2. QED
    BY <2>1, <1>4, <1>a, DecideTyped DEF ReadLook
<1>5. ASSUME NEW p \in Profiles, ReadToken(p) \/ ReadAccept(p) PROVE TxTypeOK'
  BY <1>5, <1>a, DecideTyped DEF ReadToken, ReadAccept
<1>6. ASSUME NEW p \in Profiles, ReadDecline(p) PROVE TxTypeOK'
  <2>1. StatusSeen \in CallStatus /\ (StatusSeen = status \/ StatusSeen = "missed")
    BY <1>0 DEF StatusSeen, TypeOK, CallStatus, Terminal
  <2>2. QED
    BY <2>1, <1>6, ReadTyped DEF ReadDecline
<1>7. ASSUME NEW p \in Profiles, ReadEnd(p) PROVE TxTypeOK'
  BY <1>7, <1>0, ReadTyped DEF ReadEnd, TypeOK
<1>8. ASSUME NEW p \in Profiles, ReadRemove(p) PROVE TxTypeOK'
  BY <1>8, <1>a, CallerAssumption, DecideTyped DEF ReadRemove
<1>9. ASSUME NEW p \in Profiles, NEW target \in Profiles, ReadInvite(p, target)
      PROVE  TxTypeOK'
  BY <1>9, <1>a, DecideTyped DEF ReadInvite
<1>10. ASSUME NEW p \in Profiles, CountDecline(p) PROVE TxTypeOK'
  <2>1. req[p].call \in {"missed", Keep}
    BY <1>10, RequestFields DEF CountDecline, Counting
  <2>2. QED
    BY <2>1, <1>10, <1>a, CountTyped DEF CountDecline
<1>11. ASSUME NEW p \in Profiles, CountEnd(p) PROVE TxTypeOK'
  BY <1>11, <1>a, CountTyped DEF CountEnd
<1>12. ASSUME NEW p \in Profiles, InsertFails(p) PROVE TxTypeOK'
  BY <1>12 DEF InsertFails, TxTypeOK, TypeOK, vars
<1>13. CASE UNCHANGED txVars
  BY <1>13 DEF txVars, TxTypeOK, TypeOK
<1>14. QED
  BY <1>1, <1>2, <1>3, <1>4, <1>5, <1>6, <1>7, <1>8, <1>9, <1>10, <1>11, <1>12,
     <1>13, CommitTyped DEF TxNext

\* Every reachable state is well typed: no overlap of requests leaves a row with
\* a status the schema does not know.
THEOREM TxTypeCorrect == TxSpec => []TxTypeOK
  BY TxInitTypeOK, TxNextTypeOK, PTL DEF TxSpec

----------------------------------------------------------------------------
\* No request in flight will touch the status of a call that nobody answered:
\* what it has read, it read when the call was closed.
NobodyReopens ==
    /\ status \in {"missed", "declined", "cancelled"}
    /\ \A p \in Profiles : req[p] # Idle =>
          /\ req[p].stage = "read" => req[p].seen \in Terminal /\ req[p].call = Keep
          /\ req[p].stage \in {"decided", "flushed"} => req[p].writes.call = Keep

LEMMA StartsWithoutReopening ==
    ASSUME TxTypeOK, NobodyReopens, NEW p \in Profiles, NEW r,
           req' = [req EXCEPT ![p] = r], status' = status,
           r # Idle =>
               /\ r.stage = "read" => r.seen \in Terminal /\ r.call = Keep
               /\ r.stage \in {"decided", "flushed"} => r.writes.call = Keep
    PROVE  NobodyReopens'
  BY DEF TxTypeOK, NobodyReopens

LEMMA NobodyReopensStays ==
    TxTypeOK /\ NobodyReopens /\ [TxNext]_txVars => NobodyReopens'
<1> SUFFICES ASSUME TxTypeOK, NobodyReopens, [TxNext]_txVars PROVE NobodyReopens'
  OBVIOUS
<1>0. status \in Terminal /\ status \notin {"none", "ringing"} /\ StatusSeen = status
  BY DEF NobodyReopens, Terminal, StatusSeen
<1>1. ASSUME NEW invitees \in SUBSET Profiles, TxCreate(invitees) PROVE FALSE
  BY <1>0, <1>1 DEF TxCreate, Create
<1>2. CASE TxRingTimeout \/ ReadCancel
  BY <1>0, <1>2 DEF TxRingTimeout, RingTimeout, ReadCancel
<1>3. ASSUME NEW p \in Profiles, ReadLook(p) \/ ReadToken(p) \/ ReadAccept(p) PROVE FALSE
  BY <1>0, <1>3 DEF ReadLook, ReadToken, ReadAccept, Joinable, Terminal
<1>4. ASSUME NEW p \in Profiles, ReadDecline(p) \/ ReadEnd(p) PROVE NobodyReopens'
  BY <1>0, <1>4, StartsWithoutReopening DEF ReadDecline, ReadEnd, Read, vars
<1>5. ASSUME NEW p \in Profiles, ReadRemove(p) PROVE NobodyReopens'
  BY <1>5, CallerAssumption, StartsWithoutReopening DEF ReadRemove, Decide, vars
<1>6. ASSUME NEW p \in Profiles, NEW target \in Profiles, ReadInvite(p, target)
      PROVE  NobodyReopens'
  BY <1>6, StartsWithoutReopening DEF ReadInvite, Decide, vars
<1>7. ASSUME NEW p \in Profiles, CountDecline(p) PROVE NobodyReopens'
  <2>1. req[p].seen # "ringing" /\ req[p].call = Keep
    BY <1>7 DEF CountDecline, Counting, NobodyReopens, Terminal
  <2>2. QED
    BY <2>1, <1>7, StartsWithoutReopening DEF CountDecline, Count, vars
<1>8. ASSUME NEW p \in Profiles, CountEnd(p) PROVE NobodyReopens'
  <2>1. req[p].seen \in Terminal
    BY <1>8 DEF CountEnd, Counting, NobodyReopens
  <2>2. QED
    BY <2>1, <1>8, StartsWithoutReopening DEF CountEnd, Count, vars
<1>9. ASSUME NEW p \in Profiles, Commit(p) PROVE NobodyReopens'
  <2>1. req[p].writes.call = Keep
    BY <1>9 DEF Commit, NobodyReopens
  <2>2. status' = status /\ req' = [req EXCEPT ![p] = Idle]
    BY <2>1, <1>9 DEF Commit
  <2>3. QED
    BY <2>2, StartsWithoutReopening
<1>10. ASSUME NEW p \in Profiles, InsertFails(p) PROVE NobodyReopens'
  BY <1>10, StartsWithoutReopening DEF InsertFails, vars
<1>11. CASE UNCHANGED txVars
  BY <1>11 DEF txVars, NobodyReopens
<1>12. QED
  BY <1>1, <1>2, <1>3, <1>4, <1>5, <1>6, <1>7, <1>8, <1>9, <1>10, <1>11 DEF TxNext

\* However requests overlap, a call that closed unanswered while none was in
\* flight stays as it closed: only a request that began before can undo it.
THEOREM UnansweredStays == TxSpec => UnansweredIsFinal
<1> DEFINE missed == status \in {"missed", "declined", "cancelled"}
           quiet == \A p \in Profiles : req[p] = Idle
<1>1. missed /\ quiet => NobodyReopens
  BY DEF NobodyReopens
<1>2. NobodyReopens => missed
  BY DEF NobodyReopens
<1> HIDE DEF missed, quiet
<1>3. TxSpec => [](missed /\ quiet => []missed)
  BY <1>1, <1>2, TxInitTypeOK, TxNextTypeOK, NobodyReopensStays, PTL DEF TxSpec
<1>4. QED
  BY <1>3 DEF UnansweredIsFinal, missed, quiet

----------------------------------------------------------------------------
(***************************************************************************)
(* One request at a time: then a request may still be overtaken by the     *)
(* ringing timeout between its reads and its commit, but Calls' invariants *)
(* and promise hold of the transactions as well.  What calls_tx_closed     *)
(* finds is the work of overlapping requests alone.                        *)
(***************************************************************************)

\* What the rows are once w is committed.
StatusAfter(w) == IF w.call = Keep THEN status ELSE w.call
PartAfter(w)   == IF w.to = Keep THEN part ELSE [part EXCEPT ![w.row] = w.to]
PendingAfter(w) ==
    IF w.invitation = "clear" THEN pending \ {w.row}
    ELSE IF w.invitation \in {"add", "insert"} THEN pending \cup {w.row} ELSE pending

\* Calls' invariants, of rows that may not be there yet.
Sound(s, ps, invited) ==
    /\ s = "none" => \A p \in Profiles : ps[p] = "none"
    /\ s = "ringing" => \E p \in Profiles \ {Caller} : ps[p] \notin {"none", "declined"}
    /\ \A p \in invited : ps[p] \in {"ringing", "removed"}
    /\ s = "accepted" /\ ~SomeoneJoined(ps) => \E p \in Profiles : ps[p] = "removed"

\* What the request of p has read is still so.
ReadFits(p, r) ==
    /\ status # "none"
    /\ r.op = "decline" =>
          /\ part[p] \in {"invited", "ringing"}
          /\ \/ r.call = Keep /\ r.seen = status
             \/ r.call = "missed" /\ r.seen = "missed" /\ status = "ringing"
    /\ r.op \in {"leave", "end"} =>
          /\ r.call = Keep /\ r.seen = status
          /\ part[p] # "none"
          /\ r.op = "leave" <=> part[p] = "joined"

\* What it has decided is a step the call allows.
WritesFit(w) ==
    /\ status # "none"
    /\ Sound(StatusAfter(w), PartAfter(w), PendingAfter(w))
    /\ \/ w.call = Keep
       \/ w.call \in {"accepted", "missed", "cancelled", "declined"} /\ status = "ringing"
       \/ w.call = "ended" /\ status \in {"ringing", "accepted"}

RequestFits(p) ==
    req[p] # Idle =>
        /\ req[p].stage = "read" => ReadFits(p, req[p])
        /\ req[p].stage \in {"decided", "flushed"} => WritesFit(req[p].writes)

Alone(p) == \A q \in Profiles : req[q] # Idle => q = p

SerialInv ==
    /\ TxTypeOK
    /\ Sound(status, part, pending)
    /\ \A p \in Profiles : req[p] # Idle => Alone(p)
    /\ \A p \in Profiles : RequestFits(p)

Serial == MaxInFlight = 1 /\ IsFiniteSet(Profiles)

LEMMA StartsAlone ==
    ASSUME Serial, NEW p \in Profiles, MayStart(p)
    PROVE  \A q \in Profiles : req[q] = Idle
<1> DEFINE busy == {q \in Profiles : req[q] # Idle}
<1>1. IsFiniteSet(busy)
  BY FS_Subset DEF Serial
<1>2. Cardinality(busy) \in Nat
  BY <1>1, FS_CardinalityType
<1>3. Cardinality(busy) = 0
  BY <1>2 DEF MayStart, Serial
<1>4. busy = {}
  BY <1>1, <1>3, FS_EmptySet
<1>5. QED
  BY <1>4

\* The step that begins or continues the only request leaves the rows alone.
LEMMA OnlyRequestMoves ==
    ASSUME SerialInv, TxTypeOK', NEW p \in Profiles, Alone(p), NEW r,
           req' = [req EXCEPT ![p] = r], UNCHANGED vars,
           r # Idle =>
               /\ r.stage = "read" => ReadFits(p, r)
               /\ r.stage \in {"decided", "flushed"} => WritesFit(r.writes)
    PROVE  SerialInv'
<1>1. \A q \in Profiles : req'[q] # Idle => q = p
  BY DEF Alone, SerialInv, TxTypeOK
<1>2. req'[p] = r
  BY DEF SerialInv, TxTypeOK
<1>3. Sound(status, part, pending)'
  BY DEF SerialInv, Sound, SomeoneJoined, vars
<1>4. r # Idle => (r.stage = "read" => ReadFits(p, r)')
  BY DEF ReadFits, vars
<1>5. r # Idle => (r.stage \in {"decided", "flushed"} => WritesFit(r.writes)')
  BY DEF WritesFit, Sound, SomeoneJoined, StatusAfter, PartAfter, PendingAfter, vars
<1>6. \A q \in Profiles : RequestFits(q)'
  BY <1>1, <1>2, <1>4, <1>5 DEF RequestFits
<1>7. QED
  BY <1>1, <1>3, <1>6 DEF SerialInv, Alone

LEMMA DecidesAlone ==
    ASSUME Serial, SerialInv, TxTypeOK', NEW p \in Profiles, NEW row \in Profiles,
           NEW call, NEW to, NEW invitation,
           Decide(p, call, row, to, invitation),
           WritesFit([call |-> call, row |-> row, to |-> to, invitation |-> invitation])
    PROVE  SerialInv'
<1>1. Alone(p)
  BY StartsAlone DEF Decide, Alone
<1> DEFINE w == [call |-> call, row |-> row, to |-> to, invitation |-> invitation]
           r == [stage |-> "decided", writes |-> w]
<1>2. req' = [req EXCEPT ![p] = r] /\ UNCHANGED vars
  BY DEF Decide
<1>3. r.stage = "decided" /\ r.writes = w
  OBVIOUS
<1> HIDE DEF r, w
<1>4. WritesFit(r.writes)
  BY <1>3 DEF w
<1>5. QED
  BY <1>1, <1>2, <1>3, <1>4, OnlyRequestMoves

LEMMA ReadsAlone ==
    ASSUME Serial, SerialInv, TxTypeOK', NEW p \in Profiles, NEW op, NEW seen, NEW call,
           Read(p, op, seen, call),
           ReadFits(p, [stage |-> "read", op |-> op, seen |-> seen, call |-> call])
    PROVE  SerialInv'
<1>1. Alone(p)
  BY StartsAlone DEF Read, Alone
<1> DEFINE r == [stage |-> "read", op |-> op, seen |-> seen, call |-> call]
<1>2. req' = [req EXCEPT ![p] = r] /\ UNCHANGED vars
  BY DEF Read
<1>3. r.stage = "read" /\ ReadFits(p, r)
  OBVIOUS
<1> HIDE DEF r
<1>4. QED
  BY <1>1, <1>2, <1>3, OnlyRequestMoves

LEMMA CountsAlone ==
    ASSUME SerialInv, TxTypeOK', NEW p \in Profiles, req[p] # Idle,
           NEW call, NEW to, NEW invitation,
           Count(p, call, to, invitation),
           WritesFit([call |-> call, row |-> p, to |-> to, invitation |-> invitation])
    PROVE  SerialInv'
<1>1. Alone(p)
  BY DEF SerialInv
<1> DEFINE w == [call |-> call, row |-> p, to |-> to, invitation |-> invitation]
           r == [stage |-> IF to = Keep THEN "decided" ELSE "flushed", writes |-> w]
<1>2. req' = [req EXCEPT ![p] = r] /\ UNCHANGED vars
  BY DEF Count
<1>3. r.stage \in {"decided", "flushed"} /\ r.writes = w
  OBVIOUS
<1> HIDE DEF r, w
<1>4. WritesFit(r.writes)
  BY <1>3 DEF w
<1>5. QED
  BY <1>1, <1>2, <1>3, <1>4, OnlyRequestMoves

LEMMA SerialInit == TxInit => SerialInv
  BY TxInitTypeOK DEF TxInit, Init, SerialInv, Sound, RequestFits

LEMMA SerialNext == Serial /\ SerialInv /\ [TxNext]_txVars => SerialInv'
<1> SUFFICES ASSUME Serial, SerialInv, [TxNext]_txVars PROVE SerialInv'
  OBVIOUS
<1>0. TxTypeOK'
  BY TxNextTypeOK DEF SerialInv
<1>t. TypeOK /\ TxTypeOK /\ Sound(status, part, pending)
  BY DEF SerialInv, TxTypeOK
<1> DEFINE W(call, row, to, invitation) ==
             [call |-> call, row |-> row, to |-> to, invitation |-> invitation]
<1>k. /\ Keep \notin CallStatus /\ Keep \notin PartStatus
      /\ Keep \notin {"clear", "add", "insert"}
      /\ {"cancelled", "missed", "accepted", "ended", "declined"} \subseteq CallStatus
      /\ {"joined", "ringing", "removed", "declined", "left"} \subseteq PartStatus
  BY KeepAssumption DEF CallStatus, PartStatus, Joinable, Terminal, Open
<1>1. ASSUME NEW invitees \in SUBSET Profiles, TxCreate(invitees) PROVE SerialInv'
  <2>1. \A p \in Profiles : req[p] = Idle
    BY <1>1 DEF TxCreate, Create, SerialInv, RequestFits, ReadFits, WritesFit, TxTypeOK,
       Requests
  <2>2. Sound(status, part, pending)'
    <3>1. PICK t \in invitees : t # Caller
      BY <1>1 DEF TxCreate, Create, CanCreate
    <3>2. part'[t] = "ringing"
      BY <1>1, <3>1 DEF TxCreate, Create
    <3> QED
      BY <1>1, <3>1, <3>2 DEF TxCreate, Create, Sound
  <2>3. QED
    BY <1>0, <2>1, <2>2, <1>1 DEF TxCreate, SerialInv, RequestFits
<1>2. CASE TxRingTimeout
  BY <1>0, <1>2 DEF TxRingTimeout, RingTimeout, SerialInv, RequestFits, ReadFits, WritesFit,
     Sound, SomeoneJoined, StatusAfter, PartAfter, PendingAfter, Alone
<1>3. CASE ReadCancel
  <2>1. WritesFit(W("cancelled", Caller, Keep, Keep))
    BY <1>3, <1>t, <1>k DEF ReadCancel, WritesFit, Sound, StatusAfter, PartAfter, PendingAfter
  <2>2. QED
    BY <2>1, <1>3, <1>0, CallerAssumption, DecidesAlone DEF ReadCancel
<1>4. ASSUME NEW p \in Profiles, ReadLook(p) PROVE SerialInv'
  <2>1. status = "ringing" /\ StatusSeen = "missed"
    BY <1>4 DEF ReadLook, StatusSeen
  <2>2. WritesFit(W("missed", p, Keep, Keep))
    BY <2>1, <1>t, <1>k DEF WritesFit, Sound, StatusAfter, PartAfter, PendingAfter
  <2>3. QED
    BY <2>1, <2>2, <1>4, <1>0, DecidesAlone DEF ReadLook
<1>5. ASSUME NEW p \in Profiles, ReadToken(p) \/ ReadAccept(p) PROVE SerialInv'
  <2>1. PICK call \in {"accepted", Keep} :
          /\ Decide(p, call, p, "joined", "clear")
          /\ call = "accepted" => status = "ringing"
          /\ call = Keep => status = "accepted" \/ p = Caller
          /\ status # "none"
    <3>1. CASE ReadToken(p)
      <4> DEFINE call == IF status = "ringing" /\ p # Caller THEN "accepted" ELSE Keep
      <4>1. Decide(p, call, p, "joined", "clear") /\ status \in {"ringing", "accepted"}
        BY <3>1 DEF ReadToken, Joinable, StatusSeen
      <4>2. QED
        BY <4>1, <1>k
    <3>2. CASE ReadAccept(p)
      <4> DEFINE call == IF status = "ringing" THEN "accepted" ELSE Keep
      <4>1. Decide(p, call, p, "joined", "clear") /\ status \in {"ringing", "accepted"}
        BY <3>2 DEF ReadAccept, Joinable, StatusSeen
      <4>2. QED
        BY <4>1, <1>k
    <3>3. QED
      BY <1>5, <3>1, <3>2
  <2>2. WritesFit(W(call, p, "joined", "clear"))
    BY <2>1, <1>t, <1>k DEF WritesFit, Sound, SomeoneJoined, StatusAfter, PartAfter,
       PendingAfter, TypeOK
  <2>3. QED
    BY <2>1, <2>2, <1>0, DecidesAlone
<1>6. ASSUME NEW p \in Profiles, ReadDecline(p) PROVE SerialInv'
  <2>1. Read(p, "decline", StatusSeen, IF StatusSeen = status THEN Keep ELSE StatusSeen)
    BY <1>6 DEF ReadDecline
  <2>2. ReadFits(p, [stage |-> "read", op |-> "decline", seen |-> StatusSeen,
                     call |-> IF StatusSeen = status THEN Keep ELSE StatusSeen])
    BY <1>6, <1>t DEF ReadDecline, ReadFits, StatusSeen, Sound
  <2>3. QED
    BY <2>1, <2>2, <1>0, ReadsAlone
<1>7. ASSUME NEW p \in Profiles, ReadEnd(p) PROVE SerialInv'
  <2>1. Read(p, IF part[p] = "joined" THEN "leave" ELSE "end", status, Keep)
    BY <1>7 DEF ReadEnd
  <2>2. ReadFits(p, [stage |-> "read", op |-> IF part[p] = "joined" THEN "leave" ELSE "end",
                     seen |-> status, call |-> Keep])
    BY <1>7, <1>t DEF ReadEnd, ReadFits, IsParticipant, Sound
  <2>3. QED
    BY <2>1, <2>2, <1>0, ReadsAlone
<1>8. ASSUME NEW p \in Profiles, ReadRemove(p) PROVE SerialInv'
  <2>1. WritesFit(W(Keep, p, "removed", Keep))
    BY <1>8, <1>t, <1>k DEF ReadRemove, IsParticipant, WritesFit, Sound, SomeoneJoined,
       StatusAfter, PartAfter, PendingAfter, TypeOK
  <2>2. QED
    BY <2>1, <1>8, <1>0, CallerAssumption, DecidesAlone DEF ReadRemove
<1>9. ASSUME NEW p \in Profiles, NEW target \in Profiles, ReadInvite(p, target)
      PROVE  SerialInv'
  <2>1. PICK invitation \in {"add", "insert"} :
          Decide(p, Keep, target, "ringing", invitation)
    BY <1>9 DEF ReadInvite
  <2>2. WritesFit(W(Keep, target, "ringing", invitation))
    BY <2>1, <1>9, <1>t, <1>k DEF ReadInvite, Open, WritesFit, Sound, SomeoneJoined,
       StatusAfter, PartAfter, PendingAfter, TypeOK
  <2>3. QED
    BY <2>1, <2>2, <1>0, DecidesAlone
<1>10. ASSUME NEW p \in Profiles, CountDecline(p) PROVE SerialInv'
  <2> DEFINE r == req[p]
             closes == r.seen = "ringing" /\ ~SomeoneMayAnswer([part EXCEPT ![p] = "declined"])
             call == IF closes THEN "declined" ELSE r.call
  <2>1. ReadFits(p, r) /\ r # Idle /\ r.op = "decline"
    BY <1>10 DEF CountDecline, Counting, SerialInv, RequestFits
  <2>2. Count(p, call, "declined", "clear")
    BY <1>10 DEF CountDecline
  <2>3. WritesFit(W(call, p, "declined", "clear"))
    BY <2>1, <1>t, <1>k DEF ReadFits, SomeoneMayAnswer, Open, WritesFit, Sound,
       SomeoneJoined, StatusAfter, PartAfter, PendingAfter, TypeOK
  <2>4. QED
    BY <2>1, <2>2, <2>3, <1>0, CountsAlone
<1>11. ASSUME NEW p \in Profiles, CountEnd(p) PROVE SerialInv'
  <2> DEFINE r == req[p]
             leaves == r.op = "leave"
             after == IF leaves THEN [part EXCEPT ![p] = "left"] ELSE part
             closes == r.seen \notin Terminal /\ (~SomeoneJoined(after) \/ p = Caller)
             call == IF closes THEN "ended" ELSE Keep
             to == IF leaves THEN "left" ELSE Keep
  <2>1. ReadFits(p, r) /\ r # Idle /\ r.op \in {"leave", "end"}
    BY <1>11 DEF CountEnd, Counting, SerialInv, RequestFits
  <2>2. Count(p, call, to, Keep)
    BY <1>11 DEF CountEnd
  <2>3. status \in {"ringing", "accepted"} \cup Terminal
    BY <2>1, <1>t DEF ReadFits, TypeOK, CallStatus, Joinable
  <2>4. WritesFit(W(call, p, to, Keep))
    BY <2>1, <2>3, <1>t, <1>k DEF ReadFits, Terminal, WritesFit, Sound,
       SomeoneJoined, StatusAfter, PartAfter, PendingAfter, TypeOK
  <2>5. QED
    BY <2>1, <2>2, <2>4, <1>0, CountsAlone
<1>12. ASSUME NEW p \in Profiles, Commit(p) PROVE SerialInv'
  <2> DEFINE w == req[p].writes
  <2>1. WritesFit(w) /\ Alone(p) /\ req[p] # Idle
    BY <1>12 DEF Commit, SerialInv, RequestFits
  <2>2. status' = StatusAfter(w) /\ part' = PartAfter(w) /\ pending' = PendingAfter(w)
    <3>1. w.invitation \in {"clear", "add", "insert", Keep}
      BY <1>12, <1>t, RequestFields DEF Commit
    <3>2. QED
      BY <3>1, <1>12, <1>k DEF Commit, StatusAfter, PartAfter, PendingAfter
  <2>3. Sound(status, part, pending)'
    BY <2>1, <2>2 DEF WritesFit, Sound, SomeoneJoined
  <2>4. \A q \in Profiles : req'[q] = Idle
    BY <2>1, <1>12, <1>t DEF Commit, Alone, TxTypeOK
  <2>5. QED
    BY <2>3, <2>4, <1>0 DEF SerialInv, RequestFits
<1>13. ASSUME NEW p \in Profiles, InsertFails(p) PROVE SerialInv'
  <2>1. Alone(p)
    BY <1>13 DEF InsertFails, SerialInv
  <2>2. QED
    BY <2>1, <1>13, <1>0, OnlyRequestMoves DEF InsertFails
<1>14. CASE UNCHANGED txVars
  BY <1>0, <1>14 DEF txVars, SerialInv, RequestFits, ReadFits, WritesFit,
     Sound, SomeoneJoined, StatusAfter, PartAfter, PendingAfter, Alone
<1>15. QED
  BY <1>1, <1>2, <1>3, <1>4, <1>5, <1>6, <1>7, <1>8, <1>9, <1>10, <1>11, <1>12,
     <1>13, <1>14 DEF TxNext

\* One request at a time, no request is left half-sure: while a call rings somebody
\* may still answer, no settled participant has an invitation, and leaving last
\* closes the call, though every request decides on what it read earlier.
THEOREM SerialRequestsAreSound ==
    Serial => (TxSpec => [](/\ SomebodyHasNotDeclined
                            /\ SettledHasNoInvitation
                            /\ EmptiedOnlyByRemoval))
<1> SUFFICES ASSUME Serial
             PROVE TxSpec => [](/\ SomebodyHasNotDeclined
                                /\ SettledHasNoInvitation
                                /\ EmptiedOnlyByRemoval)
  OBVIOUS
<1>1. SerialInv => SomebodyHasNotDeclined /\ SettledHasNoInvitation /\ EmptiedOnlyByRemoval
  BY DEF SerialInv, Sound, SomebodyHasNotDeclined, SettledHasNoInvitation,
     EmptiedOnlyByRemoval
<1>2. SerialInv /\ [TxNext]_txVars => SerialInv'
  BY SerialNext
<1>3. QED
  BY <1>1, <1>2, SerialInit, PTL DEF TxSpec

\* One request at a time, the transactions keep the promise of CallLifecycle: what
\* breaks it in calls_tx_closed is two requests that overlap, nothing else.
THEOREM SerialRequestsKeepPromise == Serial => (TxSpec => KeepsPromise)
<1> SUFFICES ASSUME Serial PROVE TxSpec => KeepsPromise
  OBVIOUS
<1>1. TxInit => Promise!Init
  BY DEF TxInit, Init, Promise!Init
<1>2. SerialInv /\ [TxNext]_txVars => SerialInv'
  BY SerialNext
<1>3. SerialInv /\ [TxNext]_txVars => [Promise!Next]_(Promise!vars)
  <2> SUFFICES ASSUME SerialInv, [TxNext]_txVars PROVE [Promise!Next]_(Promise!vars)
    OBVIOUS
  <2> USE DEF Promise!Next, Promise!vars, Promise!Ring, Promise!Answer, Promise!GiveUp,
          Promise!HangUp
  <2>1. ASSUME NEW invitees \in SUBSET Profiles, TxCreate(invitees) PROVE Promise!Ring
    BY <2>1 DEF TxCreate, Create
  <2>2. ASSUME NEW p \in Profiles, Commit(p) PROVE [Promise!Next]_(Promise!vars)
    <3>1. WritesFit(req[p].writes) /\ answered \in BOOLEAN
      BY <2>2 DEF Commit, SerialInv, RequestFits, TxTypeOK, TypeOK
    <3>2. QED
      BY <3>1, <2>2, KeepAssumption DEF Commit, WritesFit, CallStatus, Joinable
  <2>3. CASE vars' = vars \/ TxRingTimeout
    BY <2>3 DEF vars, TxRingTimeout, RingTimeout
  <2>4. QED
    BY <2>1, <2>2, <2>3 DEF TxNext, txVars, vars, ReadCancel, ReadLook, ReadToken, ReadAccept,
       ReadDecline, ReadEnd, ReadRemove, ReadInvite, CountDecline, CountEnd, InsertFails,
       Decide, Read, Count
<1>4. QED
  BY <1>1, <1>2, <1>3, SerialInit, PTL DEF TxSpec, KeepsPromise, Promise!Spec
============================================================================
