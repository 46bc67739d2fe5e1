---------------------------- MODULE CallClients ----------------------------
(***************************************************************************)
(* The pages of the people in a call: the provider that polls for ringing  *)
(* calls and shows a ring or a window (call-provider.tsx), the window that *)
(* fetches a token, joins the LiveKit room and leaves it (call-window.tsx, *)
(* use-call.ts), and the requests they send to the handlers of Calls.      *)
(* A request is sent, served and answered in three steps; requests,        *)
(* answers and the room's events overtake each other, and a page may go    *)
(* away at any time.                                                       *)
(*                                                                         *)
(* A person has one page, one poll and one request of each kind under way. *)
(* No page sends cancel.                                                   *)
(* The LiveKit server is external: the backend only signs its tokens, so   *)
(* nothing that happens to the call's rows reaches the room.               *)
(***************************************************************************)
EXTENDS Calls, Naturals

CONSTANTS
    MaxFaults,   \* bound of the model: lost messages, failed connections,
                 \* dropped rooms and closed pages
    NoPoll

ASSUME ClientsAssumption == MaxFaults \in Nat /\ NoPoll \notin BOOLEAN

VARIABLES
    open,        \* people with a page
    ring,        \* incoming: people who are shown the ring
    dismissed,   \* people whose page has dismissed the call
    window,      \* the call window of each page
    media,       \* the LiveKit connection of each page
    poll,        \* the poll under way: whether it answers that the call rings
    wire,        \* the requests under way to the server and its answers to pages
    overtaken,   \* history: people whose end was served before a token they asked for
    faults

pages == <<open, ring, dismissed, window, media, poll, wire, overtaken, faults>>
allvars == <<vars, pages>>

Ops == {"create", "accept", "decline", "token", "end"}
Stages == {"sent", "answered", "failed"}
Windows == {"none", "joining", "inCall", "fatal", "leaving"}

ClientsInit ==
    /\ Init
    /\ open = Profiles
    /\ ring = {} /\ dismissed = {} /\ wire = {} /\ overtaken = {}
    /\ window = [p \in Profiles |-> "none"]
    /\ media = [p \in Profiles |-> "off"]
    /\ poll = [p \in Profiles |-> NoPoll]
    /\ faults = 0

\* Bound of the model.
Fault == faults < MaxFaults /\ faults' = faults + 1

Request(p, op) == [who |-> p, op |-> op, stage |-> "sent"]
\* Only getCallToken's failure makes a difference to its page.
Answer(p, op) == [who |-> p, op |-> op, stage |-> "answered"]
Failure(p, op) == [who |-> p, op |-> op, stage |-> "failed"]
UnderWay(p, op) == \E m \in wire : m.who = p /\ m.op = op

\* Bound of the model: a page's last request of the kind has been answered.
Sends(p, op) == ~UnderWay(p, op) /\ wire' = wire \cup {Request(p, op)}
\* The server answers the page that waits, if it still does.
Replies(p, op, answer) ==
    wire' = (wire \ {Request(p, op)}) \cup (IF p \in open THEN {answer} ELSE {})

\* Fault: the answer of a cancelled poll still counts.
StillPolled(p) == poll
\* The effect's cleanup: a poll under way is cancelled.
PollStopped(p) == [poll EXCEPT ![p] = NoPoll]

\* onClose: closeWindow of the provider.
Closes(p) ==
    /\ window' = [window EXCEPT ![p] = "none"]
    /\ dismissed' = dismissed \cup {p}

----------------------------------------------------------------------------
(* The provider.                                                           *)

\* createCall of startCall at the server.
StartCall(invitees) ==
    /\ Caller \in open /\ window[Caller] = "none"
    /\ Create(invitees)
    /\ \/ Replies(Caller, "create", Answer(Caller, "create")) /\ UNCHANGED faults
       \/ Fault /\ UNCHANGED wire
    /\ UNCHANGED <<open, ring, dismissed, window, media, poll, overtaken>>

\* What the poll's filter makes of a call: not one's own, and still unanswered.
\* Fault: it looks for invited participants only.
RingsForInvited(p) == p # Caller /\ part[p] = "invited"
RingsFor(p) == p # Caller /\ part[p] \in {"invited", "ringing"}

\* tick: list_calls, and then the answer, while no window is open.
Poll(p) ==
    /\ p \in open /\ window[p] = "none" /\ poll[p] = NoPoll
    /\ Look(p)
    /\ poll' = [poll EXCEPT ![p] = status' = "ringing" /\ RingsFor(p)]
    /\ UNCHANGED <<open, ring, dismissed, window, media, wire, overtaken, faults>>

\* Fault: an answer without the call leaves the ring on the screen.
ShownUntilDismissed(p, rings) == IF rings THEN ring \cup {p} ELSE ring
Shown(p, rings) == IF rings THEN ring \cup {p} ELSE ring \ {p}

TakePoll(p) ==
    /\ poll[p] # NoPoll
    /\ ring' = Shown(p, poll[p] /\ p \notin dismissed)
    /\ poll' = [poll EXCEPT ![p] = NoPoll]
    /\ UNCHANGED <<vars, open, dismissed, window, media, wire, overtaken, faults>>

LosePoll(p) ==
    /\ poll[p] # NoPoll
    /\ Fault
    /\ poll' = [poll EXCEPT ![p] = NoPoll]
    /\ UNCHANGED <<vars, open, ring, dismissed, window, media, wire, overtaken>>

\* The ring is on the screen while no window is.
Rung(p) == p \in ring /\ window[p] = "none"

OnAccept(p) ==
    /\ Rung(p)
    /\ ring' = ring \ {p}
    /\ Sends(p, "accept")
    /\ UNCHANGED <<vars, open, dismissed, window, media, poll, overtaken, faults>>

OnDecline(p) ==
    /\ Rung(p)
    /\ ring' = ring \ {p}
    /\ dismissed' = dismissed \cup {p}
    /\ Sends(p, "decline")
    /\ UNCHANGED <<vars, open, window, media, poll, overtaken, faults>>

----------------------------------------------------------------------------
(* The requests at the server.                                             *)

Arrives(p, op) == Request(p, op) \in wire

\* The handler refuses, or the request is lost.
Fails(refused) ==
    /\ UNCHANGED vars
    /\ \/ refused /\ UNCHANGED faults
       \/ Fault

AcceptServed(p) ==
    /\ Arrives(p, "accept")
    /\ \/ Accept(p) /\ UNCHANGED faults
       \/ Fails(part[p] \notin {"invited", "ringing"} \/ StatusSeen \notin Joinable)
    /\ Replies(p, "accept", Answer(p, "accept"))
    /\ UNCHANGED <<open, ring, dismissed, window, media, poll, overtaken>>

\* declineCall: nobody waits for the answer.
Declined(p) ==
    /\ Arrives(p, "decline")
    /\ \/ Decline(p) /\ UNCHANGED faults
       \/ Fails(part[p] \notin {"invited", "ringing"})
    /\ wire' = wire \ {Request(p, "decline")}
    /\ UNCHANGED <<open, ring, dismissed, window, media, poll, overtaken>>

\* create_call_token: a joined participant gets one more, and nothing changes.
Tokened(p) == Token(p) \/ (part[p] = "joined" /\ StatusSeen \in Joinable /\ UNCHANGED vars)

TokenServed(p) ==
    /\ Arrives(p, "token")
    /\ \/ Tokened(p) /\ Replies(p, "token", Answer(p, "token")) /\ UNCHANGED faults
       \/ /\ \/ Tokened(p) /\ Fault
             \/ Fails(part[p] \in {"declined", "removed"} \/ StatusSeen \notin Joinable)
          /\ Replies(p, "token", Failure(p, "token"))
    /\ UNCHANGED <<open, ring, dismissed, window, media, poll, overtaken>>

\* Fault: leaving only disconnects the room.
TellsNothing(p) == UNCHANGED vars
TellsEnd(p) == End(p)

EndServed(p) ==
    /\ Arrives(p, "end")
    /\ \/ TellsEnd(p) /\ UNCHANGED faults
       \/ Fails(FALSE)
    /\ Replies(p, "end", Answer(p, "end"))
    /\ overtaken' = IF Arrives(p, "token") THEN overtaken \cup {p} ELSE overtaken
    /\ UNCHANGED <<open, ring, dismissed, window, media, poll>>

Serve(p) == AcceptServed(p) \/ Declined(p) \/ TokenServed(p) \/ EndServed(p)

----------------------------------------------------------------------------
(* The answers at the page.                                                *)

\* setActiveCallId opens the window, which asks for a token; a window that is open
\* stays.
Opens(p, op) ==
    /\ Answer(p, op) \in wire
    /\ IF window[p] = "none"
       THEN /\ ~UnderWay(p, "token")
            /\ window' = [window EXCEPT ![p] = "joining"]
            /\ poll' = PollStopped(p)
            /\ wire' = (wire \ {Answer(p, op)}) \cup {Request(p, "token")}
       ELSE /\ wire' = wire \ {Answer(p, op)}
            /\ UNCHANGED <<window, poll>>
    /\ UNCHANGED <<vars, open, ring, dismissed, media, overtaken, faults>>

CallStarted(p) == p = Caller /\ Opens(p, "create")

\* acceptCall: with or without success.
Accepted(p) == Opens(p, "accept")

FailedOf(p) == IF window[p] = "joining" THEN [window EXCEPT ![p] = "fatal"] ELSE window

\* getCallToken: the script goes on to connect even if its window is gone by then.
TokenAnswered(p) ==
    /\ \/ /\ Answer(p, "token") \in wire
          /\ wire' = wire \ {Answer(p, "token")}
          /\ media' = [media EXCEPT ![p] = "connecting"]
          /\ UNCHANGED window
       \/ /\ Failure(p, "token") \in wire
          /\ wire' = wire \ {Failure(p, "token")}
          /\ window' = FailedOf(p)
          /\ UNCHANGED media
    /\ UNCHANGED <<vars, open, ring, dismissed, poll, overtaken, faults>>

\* endCall of leave: with or without success the room is disconnected and the
\* window closed.
Ended(p) ==
    /\ Answer(p, "end") \in wire
    /\ wire' = wire \ {Answer(p, "end")}
    /\ IF window[p] # "none"
       THEN Closes(p) /\ media' = [media EXCEPT ![p] = "off"]
       ELSE UNCHANGED <<window, dismissed, media>>
    /\ UNCHANGED <<vars, open, ring, poll, overtaken, faults>>

Hear(p) == CallStarted(p) \/ Accepted(p) \/ TokenAnswered(p) \/ Ended(p)

----------------------------------------------------------------------------
(* The window and the room.                                                *)

Connected(p) ==
    /\ media[p] = "connecting"
    /\ \/ /\ media' = [media EXCEPT ![p] = "on"]
          /\ window' = IF window[p] = "joining" THEN [window EXCEPT ![p] = "inCall"] ELSE window
          /\ UNCHANGED faults
       \/ /\ media' = [media EXCEPT ![p] = "off"]
          /\ window' = FailedOf(p)
          /\ Fault
    /\ UNCHANGED <<vars, open, ring, dismissed, poll, wire, overtaken>>

\* The connection is given up after the reconnection attempts, or the room goes:
\* the window closes and sends nothing.
Drop(p) ==
    /\ media[p] = "on"
    /\ Fault
    /\ media' = [media EXCEPT ![p] = "off"]
    /\ IF window[p] = "none" THEN UNCHANGED <<window, dismissed>> ELSE Closes(p)
    /\ UNCHANGED <<vars, open, ring, poll, wire, overtaken>>

\* The cross, or the button that hangs up.
Leave(p) ==
    /\ window[p] \in {"joining", "inCall", "fatal"}
    /\ window' = [window EXCEPT ![p] = "leaving"]
    /\ Sends(p, "end")
    /\ UNCHANGED <<vars, open, ring, dismissed, media, poll, overtaken, faults>>

CloseFatal(p) ==
    /\ window[p] = "fatal"
    /\ Closes(p)
    /\ UNCHANGED <<vars, open, ring, media, poll, wire, overtaken, faults>>

\* Sent from a window in the call, and served before that window is gone.
InviteFrom(p, target) ==
    /\ window[p] \in {"inCall", "leaving"}
    /\ Invite(p, target)
    /\ UNCHANGED pages

RemoveFrom(target) ==
    /\ window[Caller] \in {"inCall", "leaving"}
    /\ Remove(target)
    /\ UNCHANGED pages

\* The tab is closed or reloaded: what it has sent still arrives, what is
\* answered to it does not.
ClosePage(p) ==
    /\ p \in open
    /\ Fault
    /\ open' = open \ {p} /\ ring' = ring \ {p} /\ dismissed' = dismissed \ {p}
    /\ window' = [window EXCEPT ![p] = "none"]
    /\ media' = [media EXCEPT ![p] = "off"]
    /\ poll' = PollStopped(p)
    /\ wire' = {m \in wire : m.who # p \/ m.stage = "sent"}
    /\ UNCHANGED <<vars, overtaken>>

\* Bound of the model: the former page's requests have ended.
OpenPage(p) ==
    /\ p \notin open
    /\ \A op \in Ops : ~UnderWay(p, op)
    /\ open' = open \cup {p}
    /\ UNCHANGED <<vars, ring, dismissed, window, media, poll, wire, overtaken, faults>>

ClientsRingTimeout == RingTimeout /\ UNCHANGED pages

ClientsNext ==
    \/ \E invitees \in SUBSET Profiles : StartCall(invitees)
    \/ ClientsRingTimeout
    \/ \E p \in Profiles : Poll(p) \/ TakePoll(p)
    \/ \E p \in Profiles : LosePoll(p)
    \/ \E p \in Profiles : OnAccept(p)
    \/ \E p \in Profiles : OnDecline(p)
    \/ \E p \in Profiles : Serve(p)
    \/ \E p \in Profiles : Hear(p)
    \/ \E p \in Profiles : Connected(p)
    \/ \E p \in Profiles : Drop(p)
    \/ \E p \in Profiles : Leave(p)
    \/ \E p \in Profiles : CloseFatal(p)
    \/ \E p \in Profiles : RemoveFrom(p)
    \/ \E p, target \in Profiles : InviteFrom(p, target)
    \/ \E p \in Profiles : ClosePage(p)
    \/ \E p \in Profiles : OpenPage(p)

ClientsSpec == ClientsInit /\ [][ClientsNext]_allvars

\* A page polls every five seconds, the server answers, answers arrive, connecting
\* ends. That the ring's timeout passes is not among it, so it can excuse no page from
\* ringing.
ClientsFairness ==
    /\ \A p \in Profiles : /\ WF_allvars(Poll(p))
                           /\ WF_allvars(TakePoll(p))
                           /\ WF_allvars(Serve(p))
                           /\ WF_allvars(Hear(p))
                           /\ WF_allvars(Connected(p))

FairClients == ClientsSpec /\ ClientsFairness

----------------------------------------------------------------------------
ClientsTypeOK ==
    /\ open \subseteq Profiles /\ ring \subseteq open /\ dismissed \subseteq open
    /\ window \in [Profiles -> Windows]
    /\ media \in [Profiles -> {"off", "connecting", "on"}]
    /\ poll \in [Profiles -> BOOLEAN \cup {NoPoll}]
    /\ wire \subseteq [who : Profiles, op : Ops, stage : Stages]
    /\ overtaken \subseteq Profiles
    /\ faults \in 0 .. MaxFaults

\* Whoever counts as joined in a call that goes on has it on their screen, a
\* connection to its room, or the answer under way that gives them one, as long as
\* nothing fails and their end does not overtake their token: no other order of
\* ring, accept, token, end, removal and their answers leaves a participant behind.
JoinedHasWindow ==
    \A p \in Profiles \ overtaken :
        part[p] = "joined" /\ status \notin Terminal /\ faults = 0
            => \/ window[p] # "none" \/ media[p] # "off"
               \/ \E op \in {"accept", "token"} : Answer(p, op) \in wire

\* Whoever the call rings for is shown the ring, or the call, their part in it or
\* their page changes (the filter in call-provider.tsx's tick).
RingIsShown ==
    \A p \in Profiles :
        LET waits == /\ status = "ringing" /\ p # Caller /\ part[p] \in {"invited", "ringing"}
                     /\ p \in open \ dismissed /\ window[p] = "none"
        IN  waits ~> (p \in ring \/ ~waits)

\* A ring goes from the screen when the call was answered, ended or missed.
RingGoes == \A p \in Profiles : (Rung(p) /\ status # "ringing") ~> ~Rung(p)
============================================================================
