------------------------- MODULE CallClientsProofs -------------------------
(***************************************************************************)
(* The pages of a call, for any people: with them the server still runs    *)
(* Calls, and nobody who is joined is left without a window or connection. *)
(***************************************************************************)
EXTENDS CallClients, CallsProofs

\* What the pages do to the call's rows is a step of Calls, or none.
LEMMA ClientStepIsCallStep == [ClientsNext]_allvars => [Next]_vars
<1> SUFFICES ASSUME [ClientsNext]_allvars PROVE [Next]_vars
  OBVIOUS
<1>1. ASSUME NEW invitees \in SUBSET Profiles, StartCall(invitees) PROVE Next
  BY <1>1 DEF StartCall, Next
<1>2. CASE ClientsRingTimeout
  BY <1>2 DEF ClientsRingTimeout, Next
<1>3. ASSUME NEW p \in Profiles, Poll(p) PROVE Next
  BY <1>3 DEF Poll, Next
<1>4. ASSUME NEW p \in Profiles,
             TakePoll(p) \/ LosePoll(p) \/ OnAccept(p) \/ OnDecline(p) \/ Connected(p)
             \/ Drop(p) \/ Leave(p) \/ CloseFatal(p) \/ ClosePage(p) \/ OpenPage(p) \/ Hear(p)
      PROVE  UNCHANGED vars
  BY <1>4 DEF TakePoll, LosePoll, OnAccept, OnDecline, Connected, Drop, Leave, CloseFatal,
              ClosePage, OpenPage, Hear, CallStarted, Accepted, Opens, TokenAnswered, Ended
<1>5. ASSUME NEW p \in Profiles, AcceptServed(p) PROVE [Next]_vars
  BY <1>5 DEF AcceptServed, Fails, Next
<1>6. ASSUME NEW p \in Profiles, Declined(p) PROVE [Next]_vars
  BY <1>6 DEF Declined, Fails, Next
<1>7. ASSUME NEW p \in Profiles, TokenServed(p) PROVE [Next]_vars
  BY <1>7 DEF TokenServed, Tokened, Fails, Next
<1>8. ASSUME NEW p \in Profiles, EndServed(p) PROVE [Next]_vars
  BY <1>8 DEF EndServed, TellsEnd, Fails, Next
<1>9. ASSUME NEW p \in Profiles, NEW target \in Profiles,
             RemoveFrom(target) \/ InviteFrom(p, target)
      PROVE  Next
  BY <1>9 DEF RemoveFrom, InviteFrom, Next
<1>10. CASE UNCHANGED allvars
  BY <1>10 DEF allvars
<1>11. QED
  BY <1>1, <1>2, <1>3, <1>4, <1>5, <1>6, <1>7, <1>8, <1>9, <1>10 DEF ClientsNext, Serve

\* Whatever pages, windows and polls do, and whatever is lost, the call's rows
\* behave as Calls says: its invariants and CallLifecycle hold of them.
THEOREM ClientsImplementCalls == ClientsSpec => Spec
<1>1. ClientsInit => Init
  BY DEF ClientsInit
<1>2. QED
  BY <1>1, ClientStepIsCallStep, PTL DEF ClientsSpec, Spec

----------------------------------------------------------------------------
\* Messages of two people, kinds or stages are two messages.
LEMMA MessagesDiffer ==
    ASSUME NEW p, NEW q, NEW o1, NEW o2
    PROVE  /\ Request(p, o1) = Request(q, o2) <=> p = q /\ o1 = o2
           /\ Answer(p, o1) = Answer(q, o2) <=> p = q /\ o1 = o2
           /\ Failure(p, o1) = Failure(q, o2) <=> p = q /\ o1 = o2
           /\ Request(p, o1) # Answer(q, o2) /\ Request(p, o1) # Failure(q, o2)
           /\ Answer(p, o1) # Failure(q, o2)
  BY DEF Request, Answer, Failure

LEMMA MessageFields ==
    ASSUME NEW p, NEW op
    PROVE  /\ Request(p, op).who = p /\ Answer(p, op).who = p /\ Failure(p, op).who = p
           /\ Request(p, op).stage = "sent" /\ Answer(p, op).stage = "answered"
           /\ Failure(p, op).stage = "failed"
           /\ p \in Profiles /\ op \in Ops =>
                /\ Request(p, op) \in [who : Profiles, op : Ops, stage : Stages]
                /\ Answer(p, op) \in [who : Profiles, op : Ops, stage : Stages]
                /\ Failure(p, op) \in [who : Profiles, op : Ops, stage : Stages]
  BY DEF Request, Answer, Failure, Stages

\* Nothing of the kind is under way, then neither request nor answer is.
LEMMA NothingUnderWay ==
    ASSUME NEW p, NEW op, ~UnderWay(p, op)
    PROVE  Request(p, op) \notin wire /\ Answer(p, op) \notin wire /\ Failure(p, op) \notin wire
  BY DEF UnderWay, Request, Answer, Failure

\* A page that is gone shows nothing, polls nothing, is in no room and hears nothing.
ClosedPageIsEmpty ==
    \A p \in Profiles \ open :
        /\ window[p] = "none" /\ media[p] = "off" /\ poll[p] = NoPoll
        /\ \A op \in Ops : Answer(p, op) \notin wire

\* A request and its answer are not under way together.
OneOfAKind ==
    \A p \in Profiles, op \in {"accept", "token", "end"} :
        Request(p, op) \in wire => Answer(p, op) \notin wire /\ Failure(p, op) \notin wire

\* The call never rings for its caller, who asks for one token, in an unanswered
\* call, and only the caller is joined while it rings.
CallerIsNotRung ==
    /\ Caller \notin ring /\ poll[Caller] # TRUE
    /\ Request(Caller, "accept") \notin wire /\ Answer(Caller, "accept") \notin wire
    /\ Request(Caller, "decline") \notin wire
    /\ Request(Caller, "token") \in wire /\ status \notin Terminal => part[Caller] = "invited"
    /\ Answer(Caller, "create") \in wire /\ status \notin Terminal
         => part[Caller] = "invited" /\ Request(Caller, "token") \notin wire
    /\ status = "ringing" => \A p \in Profiles \ {Caller} : part[p] # "joined"

\* A page accepts before it has a window.
AcceptsWithoutWindow ==
    \A p \in Profiles : Request(p, "accept") \in wire \/ Answer(p, "accept") \in wire
                            => window[p] = "none"

\* JoinedHasWindow, made inductive: who is joined behind a window that has given
\* up has a connection, so closing that window is safe; behind a window that waits
\* for its end nobody is joined any more once the end is served; and no window
\* hears of a failed token when its page is joined.
Attended(p) ==
    \/ window[p] \in {"joining", "inCall", "leaving"} \/ media[p] # "off"
    \/ Answer(p, "accept") \in wire \/ Answer(p, "token") \in wire
LeavingWaits(p) ==
    Request(p, "end") \in wire \/ Answer(p, "end") \in wire => window[p] = "leaving"
LeaverIsOut(p) ==
    Answer(p, "end") \in wire => Request(p, "token") \notin wire /\ part[p] # "joined"
FailureIsTrue(p) ==
    Failure(p, "token") \in wire /\ window[p] = "joining" => part[p] # "joined"

JoinedAreAttended ==
    faults = 0 =>
        /\ open = Profiles
        /\ \A p \in Profiles : LeavingWaits(p)
        /\ status \notin Terminal =>
               /\ \A p \in Profiles : FailureIsTrue(p)
               /\ \A p \in Profiles \ overtaken :
                      LeaverIsOut(p) /\ (part[p] = "joined" => Attended(p))

PageInv == OneOfAKind /\ CallerIsNotRung /\ AcceptsWithoutWindow /\ JoinedAreAttended

CInv == IInv /\ ClientsTypeOK /\ ClosedPageIsEmpty /\ PageInv

LEMMA ClientsInitCInv == ClientsInit => CInv
<1> SUFFICES ASSUME ClientsInit PROVE CInv
  OBVIOUS
<1>1. IInv
  BY InitIInv DEF ClientsInit
<1>2. ClientsTypeOK /\ ClosedPageIsEmpty /\ OneOfAKind
  BY ClientsAssumption DEF ClientsInit, ClientsTypeOK, ClosedPageIsEmpty, OneOfAKind, Windows
<1>3. PageInv
  BY <1>2, ClientsAssumption, CallerAssumption
     DEF ClientsInit, Init, PageInv, CallerIsNotRung, AcceptsWithoutWindow, JoinedAreAttended,
         LeavingWaits, LeaverIsOut, FailureIsTrue
<1>4. QED
  BY <1>1, <1>2, <1>3 DEF CInv

LEMMA ClientsNextTypeOK ==
    ClientsTypeOK /\ ClosedPageIsEmpty /\ [ClientsNext]_allvars => ClientsTypeOK'
<1> SUFFICES ASSUME ClientsTypeOK, ClosedPageIsEmpty, [ClientsNext]_allvars PROVE ClientsTypeOK'
  OBVIOUS
<1>B. MaxFaults \in Nat
  BY ClientsAssumption
<1>C. Caller \in Profiles
  BY CallerAssumption
<1> USE <1>B, <1>C, MessagesDiffer, MessageFields, NothingUnderWay
        DEF ClientsTypeOK, Windows, Ops, Fault, Sends, Replies, Closes, PollStopped, Arrives, FailedOf
<1>1. ASSUME NEW invitees \in SUBSET Profiles, StartCall(invitees) PROVE ClientsTypeOK'
  BY <1>1 DEF StartCall
<1>2. CASE ClientsRingTimeout \/ UNCHANGED allvars
  BY <1>2 DEF ClientsRingTimeout, pages, allvars
<1>3. ASSUME NEW p \in Profiles, Poll(p) PROVE ClientsTypeOK'
  BY <1>3 DEF Poll
<1>4. ASSUME NEW p \in Profiles, TakePoll(p) PROVE ClientsTypeOK'
  BY <1>4 DEF TakePoll, Shown, ClosedPageIsEmpty
<1>5. ASSUME NEW p \in Profiles, LosePoll(p) \/ OnAccept(p) \/ OnDecline(p) PROVE ClientsTypeOK'
  BY <1>5 DEF LosePoll, OnAccept, OnDecline, Rung
<1>6. ASSUME NEW p \in Profiles, Connected(p) \/ Drop(p) \/ Leave(p) \/ CloseFatal(p)
      PROVE  ClientsTypeOK'
  BY <1>6 DEF Connected, Drop, Leave, CloseFatal, ClosedPageIsEmpty
<1>7. ASSUME NEW p \in Profiles, ClosePage(p) \/ OpenPage(p) PROVE ClientsTypeOK'
  BY <1>7 DEF ClosePage, OpenPage
<1>8. ASSUME NEW p \in Profiles, AcceptServed(p) PROVE ClientsTypeOK'
  BY <1>8 DEF AcceptServed, Fails
<1>9. ASSUME NEW p \in Profiles, Declined(p) PROVE ClientsTypeOK'
  BY <1>9 DEF Declined, Fails
<1>10. ASSUME NEW p \in Profiles, TokenServed(p) PROVE ClientsTypeOK'
  BY <1>10 DEF TokenServed, Fails
<1>11. ASSUME NEW p \in Profiles, EndServed(p) PROVE ClientsTypeOK'
  BY <1>11 DEF EndServed, Fails
<1>12. ASSUME NEW p \in Profiles, CallStarted(p) \/ Accepted(p) PROVE ClientsTypeOK'
  BY <1>12 DEF CallStarted, Accepted, Opens
<1>13. ASSUME NEW p \in Profiles, TokenAnswered(p) \/ Ended(p) PROVE ClientsTypeOK'
  BY <1>13 DEF TokenAnswered, Ended, ClosedPageIsEmpty
<1>14. ASSUME NEW p \in Profiles, NEW target \in Profiles,
              RemoveFrom(target) \/ InviteFrom(p, target)
      PROVE  ClientsTypeOK'
  BY <1>14 DEF RemoveFrom, InviteFrom, pages
<1> HIDE DEF ClientsTypeOK
<1>15. QED
  BY <1>1, <1>2, <1>3, <1>4, <1>5, <1>6, <1>7, <1>8, <1>9, <1>10, <1>11, <1>12, <1>13, <1>14
     DEF ClientsNext, Serve, Hear

\* A page that is gone has no window, no connection, no poll and no answer to come.
LEMMA ClosedPageStaysEmpty ==
    ClientsTypeOK /\ ClosedPageIsEmpty /\ [ClientsNext]_allvars => ClosedPageIsEmpty'
<1> SUFFICES ASSUME ClientsTypeOK, ClosedPageIsEmpty, [ClientsNext]_allvars
             PROVE  ClosedPageIsEmpty'
  OBVIOUS
<1> USE MessagesDiffer, MessageFields, NothingUnderWay
        DEF ClosedPageIsEmpty, ClientsTypeOK, Closes, PollStopped, FailedOf, Sends, Replies, Ops
<1>1. ASSUME NEW invitees \in SUBSET Profiles, StartCall(invitees) PROVE ClosedPageIsEmpty'
  BY <1>1 DEF StartCall
<1>2. CASE ClientsRingTimeout \/ UNCHANGED allvars
  BY <1>2 DEF ClientsRingTimeout, pages, allvars
<1>3. ASSUME NEW p \in Profiles,
             Poll(p) \/ TakePoll(p) \/ LosePoll(p) \/ OnAccept(p) \/ OnDecline(p)
      PROVE  ClosedPageIsEmpty'
  BY <1>3 DEF Poll, TakePoll, LosePoll, OnAccept, OnDecline
<1>4. ASSUME NEW p \in Profiles, Connected(p) \/ Drop(p) \/ Leave(p) \/ CloseFatal(p)
      PROVE  ClosedPageIsEmpty'
  BY <1>4 DEF Connected, Drop, Leave, CloseFatal
<1>5. ASSUME NEW p \in Profiles, ClosePage(p) \/ OpenPage(p) PROVE ClosedPageIsEmpty'
  BY <1>5 DEF ClosePage, OpenPage, UnderWay
<1>6. ASSUME NEW p \in Profiles, AcceptServed(p) \/ Declined(p) \/ TokenServed(p) \/ EndServed(p)
      PROVE  ClosedPageIsEmpty'
  <2>1. CASE AcceptServed(p)
    BY <2>1 DEF AcceptServed
  <2>2. CASE Declined(p)
    BY <2>2 DEF Declined
  <2>3. CASE TokenServed(p)
    BY <2>3 DEF TokenServed
  <2>4. CASE EndServed(p)
    BY <2>4 DEF EndServed
  <2>5. QED
    BY <1>6, <2>1, <2>2, <2>3, <2>4
<1>7. ASSUME NEW p \in Profiles, CallStarted(p) \/ Accepted(p) PROVE ClosedPageIsEmpty'
  BY <1>7 DEF CallStarted, Accepted, Opens
<1>8. ASSUME NEW p \in Profiles, TokenAnswered(p) \/ Ended(p) PROVE ClosedPageIsEmpty'
  BY <1>8 DEF TokenAnswered, Ended
<1>9. ASSUME NEW p \in Profiles, NEW target \in Profiles,
             RemoveFrom(target) \/ InviteFrom(p, target)
      PROVE  ClosedPageIsEmpty'
  BY <1>9 DEF RemoveFrom, InviteFrom, pages
<1> HIDE DEF ClosedPageIsEmpty
<1>10. QED
  BY <1>1, <1>2, <1>3, <1>4, <1>5, <1>6, <1>7, <1>8, <1>9 DEF ClientsNext, Serve, Hear

\* A page asks again only after its last request of the kind was answered.
LEMMA StaysOneOfAKind == ClientsTypeOK /\ OneOfAKind /\ [ClientsNext]_allvars => OneOfAKind'
<1> SUFFICES ASSUME ClientsTypeOK, OneOfAKind, [ClientsNext]_allvars PROVE OneOfAKind'
  OBVIOUS
<1> USE MessagesDiffer, MessageFields, NothingUnderWay
        DEF OneOfAKind, ClientsTypeOK, Sends, Replies
<1>1. ASSUME NEW invitees \in SUBSET Profiles, StartCall(invitees) PROVE OneOfAKind'
  BY <1>1 DEF StartCall
<1>2. CASE ClientsRingTimeout \/ UNCHANGED allvars
  BY <1>2 DEF ClientsRingTimeout, pages, allvars
<1>3. ASSUME NEW p \in Profiles,
             Poll(p) \/ TakePoll(p) \/ LosePoll(p) \/ OnAccept(p) \/ OnDecline(p)
      PROVE  OneOfAKind'
  BY <1>3 DEF Poll, TakePoll, LosePoll, OnAccept, OnDecline
<1>4. ASSUME NEW p \in Profiles, Connected(p) \/ Drop(p) \/ Leave(p) \/ CloseFatal(p)
      PROVE  OneOfAKind'
  BY <1>4 DEF Connected, Drop, Leave, CloseFatal
<1>5. ASSUME NEW p \in Profiles, ClosePage(p) \/ OpenPage(p) PROVE OneOfAKind'
  BY <1>5 DEF ClosePage, OpenPage
<1>6. ASSUME NEW p \in Profiles, AcceptServed(p) \/ Declined(p) \/ TokenServed(p) \/ EndServed(p)
      PROVE  OneOfAKind'
  <2>1. CASE AcceptServed(p)
    BY <2>1 DEF AcceptServed
  <2>2. CASE Declined(p)
    BY <2>2 DEF Declined
  <2>3. CASE TokenServed(p)
    BY <2>3 DEF TokenServed
  <2>4. CASE EndServed(p)
    BY <2>4 DEF EndServed
  <2>5. QED
    BY <1>6, <2>1, <2>2, <2>3, <2>4
<1>7. ASSUME NEW p \in Profiles, CallStarted(p) \/ Accepted(p) PROVE OneOfAKind'
  BY <1>7 DEF CallStarted, Accepted, Opens
<1>8. ASSUME NEW p \in Profiles, TokenAnswered(p) \/ Ended(p) PROVE OneOfAKind'
  BY <1>8 DEF TokenAnswered, Ended
<1>9. ASSUME NEW p \in Profiles, NEW target \in Profiles,
             RemoveFrom(target) \/ InviteFrom(p, target)
      PROVE  OneOfAKind'
  BY <1>9 DEF RemoveFrom, InviteFrom, pages
<1> HIDE DEF OneOfAKind
<1>10. QED
  BY <1>1, <1>2, <1>3, <1>4, <1>5, <1>6, <1>7, <1>8, <1>9 DEF ClientsNext, Serve, Hear

\* No window opens while an acceptance is on its way, but by that acceptance.
LEMMA AcceptsStayWithoutWindow == CInv /\ [ClientsNext]_allvars => AcceptsWithoutWindow'
<1> SUFFICES ASSUME CInv, [ClientsNext]_allvars PROVE AcceptsWithoutWindow'
  OBVIOUS
<1>T. ClientsTypeOK /\ OneOfAKind /\ AcceptsWithoutWindow /\ CallerIsNotRung
  BY DEF CInv, PageInv
<1> USE <1>T, MessagesDiffer, MessageFields, NothingUnderWay
        DEF AcceptsWithoutWindow, ClientsTypeOK, Closes, FailedOf, Sends, Replies
<1>1. ASSUME NEW invitees \in SUBSET Profiles, StartCall(invitees) PROVE AcceptsWithoutWindow'
  BY <1>1 DEF StartCall
<1>2. CASE ClientsRingTimeout \/ UNCHANGED allvars
  BY <1>2 DEF ClientsRingTimeout, pages, allvars
<1>3. ASSUME NEW p \in Profiles,
             Poll(p) \/ TakePoll(p) \/ LosePoll(p) \/ OnAccept(p) \/ OnDecline(p)
      PROVE  AcceptsWithoutWindow'
  BY <1>3 DEF Poll, TakePoll, LosePoll, OnAccept, OnDecline, Rung
<1>4. ASSUME NEW p \in Profiles, Connected(p) \/ Drop(p) \/ Leave(p) \/ CloseFatal(p)
      PROVE  AcceptsWithoutWindow'
  BY <1>4 DEF Connected, Drop, Leave, CloseFatal
<1>5. ASSUME NEW p \in Profiles, ClosePage(p) \/ OpenPage(p) PROVE AcceptsWithoutWindow'
  BY <1>5 DEF ClosePage, OpenPage
<1>6. ASSUME NEW p \in Profiles, AcceptServed(p) \/ Declined(p) \/ TokenServed(p) \/ EndServed(p)
      PROVE  AcceptsWithoutWindow'
  <2>1. CASE AcceptServed(p)
    BY <2>1 DEF AcceptServed, Arrives
  <2>2. CASE Declined(p)
    BY <2>2 DEF Declined, Arrives
  <2>3. CASE TokenServed(p)
    BY <2>3 DEF TokenServed, Arrives
  <2>4. CASE EndServed(p)
    BY <2>4 DEF EndServed, Arrives
  <2>5. QED
    BY <1>6, <2>1, <2>2, <2>3, <2>4
<1>7. ASSUME NEW p \in Profiles, CallStarted(p) PROVE AcceptsWithoutWindow'
  BY <1>7 DEF CallStarted, Opens, CallerIsNotRung
<1>8. ASSUME NEW p \in Profiles, Accepted(p) PROVE AcceptsWithoutWindow'
  BY <1>8 DEF Accepted, Opens, OneOfAKind
<1>9. ASSUME NEW p \in Profiles, TokenAnswered(p) \/ Ended(p) PROVE AcceptsWithoutWindow'
  BY <1>9 DEF TokenAnswered, Ended
<1>10. ASSUME NEW p \in Profiles, NEW target \in Profiles,
             RemoveFrom(target) \/ InviteFrom(p, target)
      PROVE  AcceptsWithoutWindow'
  BY <1>10 DEF RemoveFrom, InviteFrom, pages
<1> HIDE DEF AcceptsWithoutWindow
<1>11. QED
  BY <1>1, <1>2, <1>3, <1>4, <1>5, <1>6, <1>7, <1>8, <1>9, <1>10 DEF ClientsNext, Serve, Hear

\* A call that is open was open before, and it rings from the start or not at all.
LEMMA OpenCallWasOpen ==
    ASSUME IInv, [ClientsNext]_allvars
    PROVE  /\ status' \notin Terminal => status \notin Terminal
           /\ status' = "ringing" => status \in {"none", "ringing"}
  BY ClientStepIsCallStep, StepKeepsPromise
     DEF Promise!Next, Promise!vars, Promise!Ring, Promise!Answer, Promise!GiveUp,
         Promise!HangUp, Terminal

\* The call never rings for the one who made it.
LEMMA CallerStaysUnrung == CInv /\ [ClientsNext]_allvars => CallerIsNotRung'
<1> SUFFICES ASSUME CInv, [ClientsNext]_allvars PROVE CallerIsNotRung'
  OBVIOUS
<1>T. /\ ClientsTypeOK /\ CallerIsNotRung /\ TypeOK /\ NoRowsBeforeCreate
      /\ Caller \in Profiles /\ NoPoll # TRUE
  BY CallerAssumption, ClientsAssumption DEF CInv, PageInv, IInv
<1>O. /\ status' \notin Terminal => status \notin Terminal
      /\ status' = "ringing" => status \in {"none", "ringing"}
  BY OpenCallWasOpen DEF CInv
<1> USE <1>T, <1>O DEF CallerIsNotRung, ClientsTypeOK, TypeOK, Closes, PollStopped, FailedOf,
        Request, Answer, Failure, Sends, Replies, Arrives, Joinable
<1>1. ASSUME NEW invitees \in SUBSET Profiles, StartCall(invitees) PROVE CallerIsNotRung'
  <2>1. status = "none" /\ status \notin Terminal /\ part[Caller] = "none"
    BY <1>1 DEF StartCall, Create, NoRowsBeforeCreate, Terminal
  <2>2. QED
    BY <1>1, <2>1 DEF StartCall, Create
<1>2. CASE ClientsRingTimeout \/ UNCHANGED allvars
  BY <1>2 DEF ClientsRingTimeout, RingTimeout, pages, allvars, vars
<1>3. ASSUME NEW p \in Profiles, Poll(p) PROVE CallerIsNotRung'
  <2>1. ~RingsFor(Caller)
    BY DEF RingsFor
  <2>2. poll'[Caller] # TRUE
    BY <1>3, <2>1 DEF Poll
  <2>3. QED
    BY <1>3, <2>2 DEF Poll, Look, NoRowsBeforeCreate
<1>4. ASSUME NEW p \in Profiles, TakePoll(p) PROVE CallerIsNotRung'
  BY <1>4 DEF TakePoll, Shown, vars
<1>5. ASSUME NEW p \in Profiles, LosePoll(p) \/ OnAccept(p) \/ OnDecline(p)
      PROVE  CallerIsNotRung'
  BY <1>5 DEF LosePoll, OnAccept, OnDecline, Rung, vars
<1>6. ASSUME NEW p \in Profiles, Connected(p) \/ Drop(p) \/ Leave(p) \/ CloseFatal(p)
      PROVE  CallerIsNotRung'
  BY <1>6 DEF Connected, Drop, Leave, CloseFatal, vars
<1>7. ASSUME NEW p \in Profiles, ClosePage(p) \/ OpenPage(p) PROVE CallerIsNotRung'
  BY <1>7 DEF ClosePage, OpenPage, vars
<1>8. ASSUME NEW p \in Profiles, AcceptServed(p) PROVE CallerIsNotRung'
  <2>1. p # Caller
    BY <1>8 DEF AcceptServed
  <2>2. part'[Caller] = part[Caller]
    BY <1>8, <2>1 DEF AcceptServed, Accept, Join, Fails, vars
  <2>3. UNCHANGED <<poll, ring>>
    BY <1>8 DEF AcceptServed
  <2>4. \A m \in wire' : m.who = Caller => m \in wire
    BY <1>8, <2>1 DEF AcceptServed
  <2>5. status' = "ringing" => \A q \in Profiles \ {Caller} : part'[q] # "joined"
    BY <1>8 DEF AcceptServed, Accept, Join, Fails, vars
  <2>6. QED
    BY <2>2, <2>3, <2>4, <2>5
<1>9. ASSUME NEW p \in Profiles, Declined(p) PROVE CallerIsNotRung'
  <2>1. p # Caller
    BY <1>9 DEF Declined
  <2>2. /\ part'[Caller] = part[Caller]
        /\ \A q \in Profiles : part'[q] = "joined" => part[q] = "joined"
    BY <1>9, <2>1 DEF Declined, Decline, Fails, vars
  <2>3. UNCHANGED <<ring, poll>> /\ wire' \subseteq wire
    BY <1>9 DEF Declined
  <2>4. status = "none" => status' = "none"
    BY <1>9 DEF Declined, Decline, Fails, StatusSeen, vars
  <2>5. QED
    BY <2>2, <2>3, <2>4
<1>10. ASSUME NEW p \in Profiles, TokenServed(p) PROVE CallerIsNotRung'
  BY <1>10 DEF TokenServed, Tokened, Token, Join, Fails, vars
<1>11. ASSUME NEW p \in Profiles, EndServed(p) PROVE CallerIsNotRung'
  BY <1>11 DEF EndServed, TellsEnd, End, Fails, vars
<1>12. ASSUME NEW p \in Profiles, CallStarted(p) \/ Accepted(p) PROVE CallerIsNotRung'
  <2>1. UNCHANGED <<status, part, ring>> /\ (poll'[Caller] = TRUE => poll[Caller] = TRUE)
    BY <1>12 DEF CallStarted, Accepted, Opens, vars
  <2>2. wire' \subseteq wire \cup {Request(p, "token")}
    BY <1>12 DEF CallStarted, Accepted, Opens
  <2>3. p = Caller => Answer(p, "create") \in wire /\ Answer(p, "create") \notin wire'
    BY <1>12 DEF CallStarted, Accepted, Opens
  <2>4. QED
    BY <2>1, <2>2, <2>3
<1>13. ASSUME NEW p \in Profiles, TokenAnswered(p) \/ Ended(p) PROVE CallerIsNotRung'
  BY <1>13 DEF TokenAnswered, Ended, vars
<1>14. ASSUME NEW p \in Profiles, NEW target \in Profiles,
              RemoveFrom(target) \/ InviteFrom(p, target)
      PROVE  CallerIsNotRung'
  BY <1>14 DEF RemoveFrom, InviteFrom, Remove, Invite, Open, pages
<1> HIDE DEF CallerIsNotRung
<1>15. QED
  BY <1>1, <1>2, <1>3, <1>4, <1>5, <1>6, <1>7, <1>8, <1>9, <1>10, <1>11, <1>12, <1>13, <1>14
     DEF ClientsNext, Serve, Hear

\* As long as nothing fails, whoever is joined keeps a window that is alive, a
\* connection or an answer to come.
LEMMA JoinedStayAttended == CInv /\ [ClientsNext]_allvars => JoinedAreAttended'
<1> SUFFICES ASSUME CInv, [ClientsNext]_allvars, faults' = 0 PROVE JoinedAreAttended'
  BY DEF JoinedAreAttended
<1>T. /\ ClientsTypeOK /\ OneOfAKind /\ CallerIsNotRung /\ AcceptsWithoutWindow
      /\ JoinedAreAttended /\ TypeOK /\ NoRowsBeforeCreate
      /\ Caller \in Profiles /\ MaxFaults \in Nat
  BY CallerAssumption, ClientsAssumption DEF CInv, PageInv, IInv
<1>F. faults = 0
  BY <1>T DEF ClientsNext, Serve, Hear, StartCall, ClientsRingTimeout, Poll, TakePoll, LosePoll,
              OnAccept, OnDecline, AcceptServed, Declined, TokenServed, EndServed, CallStarted,
              Accepted, Opens, TokenAnswered, Ended, Connected, Drop, Leave, CloseFatal,
              RemoveFrom, InviteFrom, ClosePage, OpenPage, Fails, Fault, ClientsTypeOK, pages,
              allvars
<1>A. /\ open = Profiles
      /\ \A p \in Profiles : LeavingWaits(p)
      /\ status \notin Terminal =>
             /\ \A p \in Profiles : FailureIsTrue(p)
             /\ \A p \in Profiles \ overtaken :
                    LeaverIsOut(p) /\ (part[p] = "joined" => Attended(p))
  BY <1>T, <1>F DEF JoinedAreAttended
<1>O. status' \notin Terminal => status \notin Terminal
  BY OpenCallWasOpen DEF CInv
<1> USE <1>T, <1>F, <1>A, <1>O
\* What is to be shown of every page.
<1> DEFINE Kept(p) ==
        /\ LeavingWaits(p)
        /\ status \notin Terminal =>
               /\ FailureIsTrue(p)
               /\ p \notin overtaken => LeaverIsOut(p) /\ (part[p] = "joined" => Attended(p))
<1>K. \A p \in Profiles : Kept(p)
  OBVIOUS
<1>Q. ASSUME open' = open, \A p \in Profiles : Kept(p)' PROVE JoinedAreAttended'
  BY <1>Q DEF JoinedAreAttended
<1> USE MessagesDiffer, MessageFields, NothingUnderWay
        DEF ClientsTypeOK, TypeOK, Closes, FailedOf, Fault, Attended, LeavingWaits, LeaverIsOut,
            FailureIsTrue, Sends, Replies, Arrives
<1>2. ASSUME NEW invitees \in SUBSET Profiles, StartCall(invitees) PROVE JoinedAreAttended'
  BY <1>Q, <1>2 DEF StartCall, Create
<1>3. CASE ClientsRingTimeout \/ UNCHANGED allvars
  BY <1>Q, <1>3 DEF ClientsRingTimeout, RingTimeout, pages, allvars, vars
<1>4. ASSUME NEW p \in Profiles,
             Poll(p) \/ TakePoll(p) \/ LosePoll(p) \/ OnAccept(p) \/ OnDecline(p)
      PROVE  JoinedAreAttended'
  BY <1>Q, <1>4 DEF Poll, Look, TakePoll, LosePoll, OnAccept, OnDecline, vars
<1>5. ASSUME NEW p \in Profiles, Connected(p) \/ Drop(p) \/ CloseFatal(p)
      PROVE  JoinedAreAttended'
  BY <1>Q, <1>5 DEF Connected, Drop, CloseFatal, vars
<1>6. ASSUME NEW p \in Profiles, Leave(p) PROVE JoinedAreAttended'
  BY <1>Q, <1>6 DEF Leave, vars
<1>7. ASSUME NEW p \in Profiles, ClosePage(p) \/ OpenPage(p) PROVE JoinedAreAttended'
  BY <1>7 DEF ClosePage, OpenPage
<1>8. ASSUME NEW p \in Profiles, AcceptServed(p) PROVE JoinedAreAttended'
  BY <1>Q, <1>8 DEF AcceptServed, Accept, Join, Fails, AcceptsWithoutWindow, vars
<1>9. ASSUME NEW p \in Profiles, Declined(p) PROVE JoinedAreAttended'
  BY <1>Q, <1>9 DEF Declined, Decline, Fails, vars
<1>10. ASSUME NEW p \in Profiles, TokenServed(p) PROVE JoinedAreAttended'
  <2>1. CASE Tokened(p) /\ Replies(p, "token", Answer(p, "token"))
    BY <1>Q, <1>10, <2>1 DEF TokenServed, Tokened, Token, Join, OneOfAKind, vars
  <2>2. CASE /\ UNCHANGED vars /\ Replies(p, "token", Failure(p, "token"))
             /\ part[p] \in {"declined", "removed"} \/ StatusSeen \notin Joinable
    <3>1. part[p] = "joined" /\ status \notin Terminal => p = Caller /\ part[p] = "invited"
      BY <1>10, <2>2 DEF TokenServed, StatusSeen, Joinable, CallStatus, Terminal,
                         CallerIsNotRung, NoRowsBeforeCreate
    <3>2. QED
      BY <1>Q, <1>10, <2>2, <3>1 DEF TokenServed, vars
  <2>3. QED
    BY <1>10, <2>1, <2>2 DEF TokenServed, Fails
<1>11. ASSUME NEW p \in Profiles, EndServed(p) PROVE JoinedAreAttended'
  BY <1>Q, <1>11 DEF EndServed, TellsEnd, End, Fails, vars
<1>12. ASSUME NEW p \in Profiles, CallStarted(p) \/ Accepted(p) PROVE JoinedAreAttended'
  BY <1>Q, <1>12 DEF CallStarted, Accepted, Opens, AcceptsWithoutWindow, vars
<1>13. ASSUME NEW p \in Profiles, TokenAnswered(p) PROVE JoinedAreAttended'
  BY <1>Q, <1>13 DEF TokenAnswered, vars
<1>14. ASSUME NEW p \in Profiles, Ended(p) PROVE JoinedAreAttended'
  BY <1>Q, <1>14 DEF Ended, OneOfAKind, vars
<1>15. ASSUME NEW p \in Profiles, NEW target \in Profiles,
              RemoveFrom(target) \/ InviteFrom(p, target)
      PROVE  JoinedAreAttended'
  BY <1>Q, <1>15 DEF RemoveFrom, InviteFrom, Remove, Invite, pages
<1>16. QED
  BY <1>2, <1>3, <1>4, <1>5, <1>6, <1>7, <1>8, <1>9, <1>10, <1>11, <1>12, <1>13, <1>14, <1>15
     DEF ClientsNext, Serve, Hear

LEMMA ClientsNextCInv == CInv /\ [ClientsNext]_allvars => CInv'
<1>1. CInv /\ [ClientsNext]_allvars => IInv'
  BY ClientStepIsCallStep, NextIInv DEF CInv
<1>2. QED
  BY <1>1, ClientsNextTypeOK, ClosedPageStaysEmpty, StaysOneOfAKind, AcceptsStayWithoutWindow,
     CallerStaysUnrung, JoinedStayAttended DEF CInv, PageInv

\* Every reachable state of the pages is well typed.
THEOREM ClientsTypeCorrect == ClientsSpec => []ClientsTypeOK
<1>1. CInv => ClientsTypeOK
  BY DEF CInv
<1>2. QED
  BY <1>1, ClientsInitCInv, ClientsNextCInv, PTL DEF ClientsSpec

\* As long as nothing fails and nobody's end overtakes their token, nobody is left
\* joined in an open call without its window, a connection or the answer that brings
\* them (endCall before onClose in call-window.tsx).
THEOREM NobodyIsLeftBehind == ClientsSpec => []JoinedHasWindow
<1>1. CInv => JoinedHasWindow
  BY DEF CInv, PageInv, JoinedAreAttended, Attended, JoinedHasWindow
<1>2. QED
  BY <1>1, ClientsInitCInv, ClientsNextCInv, PTL DEF ClientsSpec
============================================================================
