------------------------------ MODULE CallsTx ------------------------------
(***************************************************************************)
(* The requests of Calls as the database sees them: each one reads the     *)
(* call and the participant rows, decides in Python on what it read, and   *)
(* writes when its session flushes and commits (db.py's get_session). The  *)
(* transactions are READ COMMITTED, no row is read FOR UPDATE and no row   *)
(* has a version column, so what was read may be stale when it is written. *)
(*                                                                         *)
(* A request holds its decided writes until it commits. decline_call and   *)
(* end_call count participants after autoflushing their own row: between   *)
(* that count and the commit the row is locked and the count can go stale. *)
(* One request of each profile is in flight at a time.                     *)
(***************************************************************************)
EXTENDS Calls, FiniteSets, Naturals

CONSTANTS
    Keep, Idle,     \* "this column is not written", "no request"
    MaxInFlight     \* bound of the model: requests in flight at a time

\* "Not written" is no value of a column.
ASSUME KeepAssumption == Keep \notin CallStatus \cup PartStatus \cup {"clear", "add", "insert"}

VARIABLE req    \* the request in flight of each profile

txVars == <<status, answered, overdue, part, pending, req>>

\* What a request will write: the call's status, one participant's status,
\* and what happens to that participant's pending invitation; "insert" is a new
\* one that comes with a new participant row.
Writes == [call : (CallStatus \ {"none"}) \cup {Keep}, row : Profiles,
           to : (PartStatus \ {"none"}) \cup {Keep},
           invitation : {"clear", "add", "insert"} \cup {Keep}]

\* Requests that have read the status of the call they are about to count in,
\* and requests whose writes are decided; `flushed' ones hold the row's lock.
Requests ==
    [stage : {"read"}, op : {"decline", "leave", "end"}, seen : CallStatus,
     call : {"missed", Keep}]
    \cup [stage : {"decided", "flushed"}, writes : Writes]

----------------------------------------------------------------------------
TxInit == Init /\ req = [p \in Profiles |-> Idle]

\* Nobody else can reach the call before create_call commits.
TxCreate(invitees) == Create(invitees) /\ UNCHANGED req

TxRingTimeout == RingTimeout /\ UNCHANGED req

MayStart(p) ==
    /\ req[p] = Idle
    /\ Cardinality({q \in Profiles : req[q] # Idle}) < MaxInFlight

\* p's request has read all it needs and decided on its writes.
Decide(p, call, row, to, invitation) ==
    /\ MayStart(p)
    /\ req' = [req EXCEPT ![p] =
                 [stage |-> "decided",
                  writes |-> [call |-> call, row |-> row, to |-> to,
                              invitation |-> invitation]]]
    /\ UNCHANGED vars

ReadLook(p) ==
    /\ IsParticipant(p) /\ StatusSeen # status
    /\ Decide(p, StatusSeen, p, Keep, Keep)

ReadToken(p) ==
    /\ IsParticipant(p)
    /\ StatusSeen \in Joinable
    /\ part[p] \notin {"declined", "removed", "joined"}
    /\ Decide(p, IF status = "ringing" /\ p # Caller THEN "accepted" ELSE Keep,
              p, "joined", "clear")

ReadAccept(p) ==
    /\ part[p] \in {"invited", "ringing"}
    /\ StatusSeen \in Joinable
    /\ Decide(p, IF status = "ringing" THEN "accepted" ELSE Keep, p, "joined", "clear")

ReadCancel ==
    /\ status = "ringing"
    /\ Decide(Caller, "cancelled", Caller, Keep, Keep)

ReadInvite(p, target) ==
    /\ part[p] = "joined"
    /\ Reach(p, target)
    /\ part[target] \notin Open
    /\ Decide(p, Keep, target, "ringing", IF IsParticipant(target) THEN "add" ELSE "insert")

ReadRemove(target) ==
    /\ target # Caller
    /\ IsParticipant(target)
    /\ Decide(Caller, Keep, target, "removed", Keep)

\* decline_call and end_call have read the call and p's row; decline_call has
\* also expired an overdue call.
Read(p, op, seen, call) ==
    /\ MayStart(p)
    /\ req' = [req EXCEPT ![p] = [stage |-> "read", op |-> op, seen |-> seen,
                                  call |-> call]]
    /\ UNCHANGED vars

ReadDecline(p) ==
    /\ part[p] \in {"invited", "ringing"}
    /\ Read(p, "decline", StatusSeen, IF StatusSeen = status THEN Keep ELSE StatusSeen)

\* A participant who is not joined writes no row of his own.
ReadEnd(p) ==
    /\ IsParticipant(p)
    /\ Read(p, IF part[p] = "joined" THEN "leave" ELSE "end", status, Keep)

\* p's row is locked by somebody's flushed but uncommitted update.
Locked(row, p) ==
    \E q \in Profiles \ {p} : /\ req[q] # Idle
                              /\ req[q].stage = "flushed"
                              /\ req[q].writes.row = row

\* Autoflush p's row, then count the committed rows and this one.
Count(p, call, to, invitation) ==
    /\ to # Keep => ~Locked(p, p)
    /\ req' = [req EXCEPT ![p] =
                 [stage |-> IF to = Keep THEN "decided" ELSE "flushed",
                  writes |-> [call |-> call, row |-> p, to |-> to,
                              invitation |-> invitation]]]
    /\ UNCHANGED vars

Counting(p, ops) == req[p] # Idle /\ req[p].stage = "read" /\ req[p].op \in ops

CountDecline(p) ==
    /\ Counting(p, {"decline"})
    /\ LET closes == /\ req[p].seen = "ringing"
                     /\ ~SomeoneMayAnswer([part EXCEPT ![p] = "declined"])
       IN  Count(p, IF closes THEN "declined" ELSE req[p].call, "declined", "clear")

\* Fault: the end of a call that is already closed closes it again.
CountEndAgain(p) ==
    /\ Counting(p, {"leave", "end"})
    /\ LET leaves == req[p].op = "leave"
           after  == IF leaves THEN [part EXCEPT ![p] = "left"] ELSE part
       IN  Count(p, IF ~SomeoneJoined(after) \/ p = Caller THEN "ended" ELSE Keep,
                 IF leaves THEN "left" ELSE Keep, Keep)
CountEnd(p) ==
    /\ Counting(p, {"leave", "end"})
    /\ LET leaves == req[p].op = "leave"
           after  == IF leaves THEN [part EXCEPT ![p] = "left"] ELSE part
           closes == /\ req[p].seen \notin Terminal
                     /\ ~SomeoneJoined(after) \/ p = Caller
       IN  Count(p, IF closes THEN "ended" ELSE Keep,
                 IF leaves THEN "left" ELSE Keep, Keep)

\* The writes become visible together; UPDATE ... WHERE id overwrites whatever
\* another request committed since this one read.
Commit(p) ==
    /\ req[p] # Idle /\ req[p].stage \in {"decided", "flushed"}
    /\ LET w == req[p].writes
       IN  /\ w.to # Keep => ~Locked(w.row, p)
           /\ w.invitation = "insert" => ~IsParticipant(w.row)
           /\ status' = IF w.call = Keep THEN status ELSE w.call
           /\ answered' = (answered \/ w.call = "accepted")
           /\ part' = IF w.to = Keep THEN part ELSE [part EXCEPT ![w.row] = w.to]
           /\ pending' = CASE w.invitation = "clear" -> pending \ {w.row}
                           [] w.invitation \in {"add", "insert"} -> pending \cup {w.row}
                           [] OTHER -> pending
    /\ req' = [req EXCEPT ![p] = Idle]
    /\ UNCHANGED overdue

\* Somebody else's invitation has inserted the row: unique (call_session_id,
\* profile_id) rejects this one and the request is rolled back.
InsertFails(p) ==
    /\ req[p] # Idle /\ req[p].stage = "decided"
    /\ req[p].writes.invitation = "insert" /\ IsParticipant(req[p].writes.row)
    /\ req' = [req EXCEPT ![p] = Idle]
    /\ UNCHANGED vars

TxNext ==
    \/ \E invitees \in SUBSET Profiles : TxCreate(invitees)
    \/ TxRingTimeout
    \/ ReadCancel
    \/ \E p \in Profiles : ReadLook(p)
    \/ \E p \in Profiles : ReadToken(p)
    \/ \E p \in Profiles : ReadAccept(p)
    \/ \E p \in Profiles : ReadDecline(p)
    \/ \E p \in Profiles : ReadEnd(p)
    \/ \E p \in Profiles : ReadRemove(p)
    \/ \E p, target \in Profiles : ReadInvite(p, target)
    \/ \E p \in Profiles : CountDecline(p)
    \/ \E p \in Profiles : CountEnd(p)
    \/ \E p \in Profiles : Commit(p)
    \/ \E p \in Profiles : InsertFails(p)

TxSpec == TxInit /\ [][TxNext]_txVars

\* The database finishes every transaction, the clock runs, and a participant
\* who is idle keeps polling.
TxFairness ==
    /\ WF_txVars(TxRingTimeout)
    /\ \A p \in Profiles : WF_txVars(CountDecline(p) \/ CountEnd(p) \/ Commit(p) \/ InsertFails(p))
    /\ \A p \in Profiles : SF_txVars(ReadLook(p))

TxFairSpec == TxSpec /\ TxFairness

----------------------------------------------------------------------------
TxTypeOK == TypeOK /\ req \in [Profiles -> Requests \cup {Idle}]

\* A closed call stays closed: "once here, an endpoint should never silently
\* keep mutating the row" (the comment on _TERMINAL_CALL_STATUSES).
ClosedStaysClosed == [][(status \in Terminal) => (status' = status)]_txVars

\* Only a request that overlaps the closing can undo it: a call that closed with
\* nobody answering is not opened or ended by any request that comes later.
UnansweredIsFinal ==
    LET missed == status \in {"missed", "declined", "cancelled"}
    IN  [](missed /\ (\A p \in Profiles : req[p] = Idle) => []missed)
============================================================================
