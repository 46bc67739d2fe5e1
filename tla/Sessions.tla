------------------------------ MODULE Sessions ------------------------------
(***************************************************************************)
(* Signing in, staying signed in and viewing a firm as the platform's      *)
(* super-admin.  A tab keeps its access token in memory (auth-client.ts);  *)
(* the browser's tabs share three cookies; every request to the app's own  *)
(* /api/auth routes (session-server.ts) takes the cookies as they are when *)
(* it is sent and changes them when its answer arrives.  The backend keeps *)
(* one row for each refresh token and rotates it (local_auth.py): it reads *)
(* the row, then commits, and two such transactions may interleave.        *)
(*                                                                         *)
(* Left out: passwords and lockout, the 30 days after which a refresh      *)
(* token expires, the contents of pages.  A tab has one request to the     *)
(* auth routes in flight at a time; two parallel refreshes of one page are *)
(* two tabs of the model.                                                  *)
(***************************************************************************)
EXTENDS Naturals, FiniteSets

CONSTANTS
    Users, Superadmins,      \* people, and those of them with is_superadmin
    Firms,                   \* tenants a super-admin can view
    Browsers, Tabs,
    BrowserOf(_),            \* the browser a tab is open in
    MaxTokens, MaxFaults,    \* bounds of the model: refresh tokens; lost answers
                             \* and changed passwords
    None, Keep, Idle         \* no value; "this cookie is not set"; no request

ASSUME SessionsAssumption ==
    /\ Superadmins \subseteq Users
    /\ \A t \in Tabs : BrowserOf(t) \in Browsers
    /\ MaxTokens \in Nat /\ MaxFaults \in Nat
    /\ None \notin Users /\ None \notin Firms /\ None \notin Nat
    /\ Keep \notin Nat /\ Keep # None

VARIABLES
    rows,    \* auth_refresh_tokens: whose each token is and whether it is spent
    jar,     \* the cookies sn_refresh, sn_access and sn_act_as of each browser
    tab,     \* accessToken, hydrated and hadLiveSession of each tab
    req,     \* the request of each tab that is under way
    faults,  \* how many answers were lost and passwords changed
    taken,   \* a presented token was taken for a stolen one
    excuse   \* history: what has happened that can spend a token twice

vars == <<rows, jar, tab, req, faults, taken, excuse>>

Tokens == 1 .. MaxTokens
Access == [user : Users, firm : Firms \cup {None}]
Jar    == [refresh : Tokens \cup {None}, access : Access \cup {None},
           actAs : Firms \cup {None}]
Row    == [user : Users, browser : Browsers, state : {"live", "spent", "revoked"}]
Tab    == [token : Access \cup {None}, hydrated : BOOLEAN, wasLive : BOOLEAN]

ASSUME NoneIsNoRow == None \notin Row

\* What an answer does to the cookies.
SetCookies == [refresh : Tokens \cup {None, Keep}, access : Access \cup {None, Keep},
               actAs : Firms \cup {None, Keep}]
Kinds == {"session", "refresh", "login", "enter", "exit", "logout"}

\* "found": the backend has read a live row and will rotate it.
Requests ==
    [stage : {"sent", "found"}, kind : Kinds, jar : Jar, arg : Users \cup Firms \cup {None}]
    \cup [stage : {"answered"}, kind : Kinds, presented : BOOLEAN, set : SetCookies,
          body : [token : Access \cup {None, Keep}, reload : BOOLEAN]]

ASSUME IdleIsNoRequest == Idle \notin Requests

NoCookies == [refresh |-> None, access |-> None, actAs |-> None]
Fresh     == [token |-> None, hydrated |-> FALSE, wasLive |-> FALSE]
KeepAll   == [refresh |-> Keep, access |-> Keep, actAs |-> Keep]

\* Fault: a refused refresh leaves the cookies alone.
RefusedKeepingCookies == KeepAll
Refused == NoCookies

\* Fault: signing out leaves the refresh cookie.
SignedOutKeepingRefresh == [refresh |-> Keep, access |-> None, actAs |-> Keep]
SignedOut == [refresh |-> None, access |-> None, actAs |-> Keep]

Init ==
    /\ rows = [k \in Tokens |-> None]
    /\ jar = [b \in Browsers |-> NoCookies]
    /\ tab = [t \in Tabs |-> Fresh]
    /\ req = [t \in Tabs |-> Idle]
    /\ faults = 0 /\ taken = FALSE /\ excuse = {}

----------------------------------------------------------------------------
\* A request of this kind, with these cookies, shows the refresh token to the
\* backend: the other ones find what they need in the access cookie.
Presents(kind, cookies) ==
    /\ cookies.refresh # None
    /\ \/ kind \in {"refresh", "exit", "logout"}
       \/ kind \in {"session", "enter"} /\ cookies.access = None

Presenting(t) ==
    /\ req[t] # Idle
    /\ IF req[t].stage = "answered" THEN req[t].presented
                                    ELSE Presents(req[t].kind, req[t].jar)

Unissued == {k \in Tokens : rows[k] = None}

\* It may end in a new refresh token.
MayIssue(kind, cookies) ==
    \/ kind = "login"
    \/ /\ kind # "logout" /\ Presents(kind, cookies)
       /\ rows[cookies.refresh].state = "live"

\* Bound of the model: a token is left for every request that may need one.
TokensRemain ==
    Cardinality(Unissued) >
        Cardinality({t \in Tabs : /\ req[t] # Idle /\ req[t].stage # "answered"
                                  /\ MayIssue(req[t].kind, req[t].jar)})

\* The browser sends a request with the cookies it has now.
Send(t, kind, arg) ==
    LET b == BrowserOf(t)
    IN  /\ req[t] = Idle
        /\ MayIssue(kind, jar[b]) => TokensRemain
        /\ req' = [req EXCEPT ![t] = [stage |-> "sent", kind |-> kind,
                                      jar |-> jar[b], arg |-> arg]]
        /\ excuse' = IF /\ Presents(kind, jar[b])
                        /\ \E u \in Tabs \ {t} : BrowserOf(u) = b /\ Presenting(u)
                     THEN excuse \cup {"overlap"} ELSE excuse
        /\ UNCHANGED <<rows, jar, tab, faults, taken>>

----------------------------------------------------------------------------
(* The tab.                                                                *)

LoadAnew(t) ==
    /\ req[t] = Idle
    /\ tab' = [tab EXCEPT ![t] = Fresh]
    /\ UNCHANGED <<rows, jar, req, faults, taken, excuse>>

Reload(t) == tab[t] # Fresh /\ LoadAnew(t)

\* The first call of a page reads its access token from the session route.
Hydrate(t) == ~tab[t].hydrated /\ Send(t, "session", None)

\* GET /auth/me, once a minute: it succeeds, ...
PollSucceeds(t) ==
    /\ req[t] = Idle
    /\ tab[t].token # None /\ ~tab[t].wasLive
    /\ tab' = [tab EXCEPT ![t].wasLive = TRUE]
    /\ UNCHANGED <<rows, jar, req, faults, taken, excuse>>

\* ... or it gets a 401 with a token, and refreshes, ...
PollExpired(t) == tab[t].token # None /\ Send(t, "refresh", None)

\* ... or a 401 without one, and a page that was live goes to /login.
PollSignedOut(t) ==
    /\ tab[t].hydrated /\ tab[t].token = None /\ tab[t].wasLive
    /\ LoadAnew(t)

SignIn(t, u) == tab[t].hydrated /\ tab[t].token = None /\ Send(t, "login", u)

\* The button, or 25 minutes without an event in this tab.
SignOut(t) == tab[t].wasLive /\ Send(t, "logout", None)

StartImpersonation(t, f) ==
    /\ tab[t].token # None
    /\ tab[t].token.user \in Superadmins /\ tab[t].token.firm = None
    /\ Send(t, "enter", f)

ExitImpersonation(t) ==
    /\ tab[t].token # None /\ tab[t].token.firm # None
    /\ Send(t, "exit", None)

----------------------------------------------------------------------------
(* The auth routes and the backend.                                        *)

Answer(t, set, token, reload) ==
    req' = [req EXCEPT ![t] = [stage |-> "answered", kind |-> @.kind,
                               presented |-> Presenting(t), set |-> set,
                               body |-> [token |-> token, reload |-> reload]]]

\* A failed sign-in or impersonation is an error message; any other failure
\* leaves the tab without a token.
FailureToken(kind) == IF kind \in {"login", "enter"} THEN Keep ELSE None

At(t, stage, kinds) == req[t] # Idle /\ req[t].stage = stage /\ req[t].kind \in kinds

\* GET /api/auth/session with an access cookie.
AnswerFromCookie(t) ==
    /\ At(t, "sent", {"session"})
    /\ req[t].jar.access # None
    /\ Answer(t, KeepAll, req[t].jar.access, FALSE)
    /\ UNCHANGED <<rows, jar, tab, faults, taken, excuse>>

Rotates(t) ==
    /\ At(t, "sent", {"session", "refresh", "exit", "enter"})
    /\ req[t].kind \in {"session", "enter"} => req[t].jar.access = None

\* refreshFromCookie: "No session to refresh."
NothingToRefresh(t) ==
    /\ Rotates(t) /\ req[t].jar.refresh = None
    /\ Answer(t, IF req[t].kind = "exit" THEN [KeepAll EXCEPT !.actAs = None] ELSE KeepAll,
              FailureToken(req[t].kind), req[t].kind = "exit")
    /\ UNCHANGED <<rows, jar, tab, faults, taken, excuse>>

\* The backend reads the row, and it is live.
FindRow(t) ==
    /\ Rotates(t) /\ req[t].jar.refresh # None
    /\ rows[req[t].jar.refresh].state = "live"
    /\ req' = [req EXCEPT ![t].stage = "found"]
    /\ UNCHANGED <<rows, jar, tab, faults, taken, excuse>>

RevokeAll(u) ==
    rows' = [k \in Tokens |-> IF rows[k] # None /\ rows[k].user = u /\ rows[k].state = "live"
                              THEN [rows[k] EXCEPT !.state = "revoked"] ELSE rows[k]]

\* It was rotated or revoked: every session of its user is revoked.
DetectReuse(t) ==
    /\ Rotates(t) /\ req[t].jar.refresh # None
    /\ rows[req[t].jar.refresh].state # "live"
    /\ RevokeAll(rows[req[t].jar.refresh].user)
    /\ taken' = TRUE
    /\ Answer(t, Refused, FailureToken(req[t].kind), req[t].kind = "exit")
    /\ UNCHANGED <<jar, tab, faults, excuse>>

\* A deactivated account or a suspended firm: 403.
Refuse(t) ==
    /\ At(t, "found", Kinds)
    /\ Answer(t, Refused, FailureToken(req[t].kind), req[t].kind = "exit")
    /\ UNCHANGED <<rows, jar, tab, faults, taken, excuse>>

NextToken(k) == k \in Unissued /\ \A j \in Unissued : k <= j

\* The firm a rotated session goes on to view: the marker's, or the one asked for.
Target(t) ==
    CASE req[t].kind \in {"session", "refresh"} -> req[t].jar.actAs
      [] req[t].kind = "enter" -> req[t].arg
      [] OTHER -> None

\* Fault: anybody is let into a firm.
AnybodyMayImpersonate(user) == TRUE
MayImpersonate(user) == user \in Superadmins

\* Fault: the backend's new refresh token is not passed on.
NewRefreshDropped(k) == Keep
NewRefresh(k) == k

\* The firm of the marker could not be entered again.
Ends(t, minted) == Target(t) # None /\ ~minted /\ req[t].kind # "enter"

\* Fault: a firm that cannot be entered stays in the marker.
MarkerKept(t, minted) == IF req[t].kind = "enter" /\ minted THEN Target(t) ELSE Keep
Marker(t, minted) ==
    CASE req[t].kind = "exit" \/ Ends(t, minted) -> None
      [] req[t].kind = "enter" /\ minted -> Target(t)
      [] OTHER -> Keep

\* Commit the new row and the old row's end, then trade the access token for one
\* of the firm if there is a firm to view; the backend refuses anyone but a
\* super-admin, and minting may fail for other reasons.  A tab whose firm is lost
\* loads the Admin console anew, unless it stays there (handleImpersonationLost).
Rotate(t) ==
    /\ At(t, "found", Kinds)
    /\ \E k \in Tokens, minted, stays \in BOOLEAN :
        LET old    == req[t].jar.refresh
            user   == rows[old].user
            enters == req[t].kind = "enter"
            access == [user |-> user, firm |-> IF minted THEN Target(t) ELSE None]
        IN  /\ NextToken(k)
            /\ minted => Target(t) # None /\ MayImpersonate(user)
            /\ stays => Ends(t, minted)
            /\ rows' = [rows EXCEPT ![old].state = "spent",
                                    ![k] = [user |-> user, browser |-> BrowserOf(t),
                                            state |-> "live"]]
            /\ Answer(t, [refresh |-> NewRefresh(k), access |-> access,
                          actAs |-> Marker(t, minted)],
                      IF enters /\ ~minted THEN Keep ELSE access,
                      \/ req[t].kind = "exit" \/ (Ends(t, minted) /\ ~stays)
                      \/ enters /\ minted)
    /\ UNCHANGED <<jar, tab, faults, taken, excuse>>

\* POST /api/auth/impersonate with an access cookie; the tab then loads anew.
Enter(t) ==
    /\ At(t, "sent", {"enter"})
    /\ LET bearer == req[t].jar.access
           access == [user |-> bearer.user, firm |-> req[t].arg]
       IN  /\ bearer # None
           /\ \/ /\ MayImpersonate(bearer.user)
                 /\ Answer(t, [refresh |-> Keep, access |-> access, actAs |-> req[t].arg],
                           access, TRUE)
              \/ Answer(t, KeepAll, Keep, FALSE)
    /\ UNCHANGED <<rows, jar, tab, faults, taken, excuse>>

\* issue_tokens and proxyAuthAndSetCookies, or a wrong password.
Login(t) ==
    /\ At(t, "sent", {"login"})
    /\ \/ \E k \in Tokens :
            /\ NextToken(k)
            /\ rows' = [rows EXCEPT ![k] = [user |-> req[t].arg, browser |-> BrowserOf(t),
                                            state |-> "live"]]
            /\ LET access == [user |-> req[t].arg, firm |-> None]
               IN  Answer(t, [refresh |-> k, access |-> access, actAs |-> Keep], access, FALSE)
       \/ UNCHANGED rows /\ Answer(t, KeepAll, Keep, FALSE)
    /\ UNCHANGED <<jar, tab, faults, taken, excuse>>

\* The route clears two cookies whether or not the backend was reached.
Logout(t) ==
    /\ At(t, "sent", {"logout"})
    /\ LET k == req[t].jar.refresh
       IN  \/ /\ k # None /\ rows[k].state = "live"
              /\ rows' = [rows EXCEPT ![k].state = "revoked"]
           \/ UNCHANGED rows
    /\ Answer(t, SignedOut, None, FALSE)
    /\ UNCHANGED <<jar, tab, faults, taken, excuse>>

\* The backend is not reached or its answer is lost (502), or the tab never gets
\* the route's answer: no new cookie, whatever the backend has committed.
LoseAnswer(t) ==
    /\ At(t, "sent", Kinds \ {"logout"}) \/ At(t, "answered", Kinds)
    /\ faults < MaxFaults
    /\ faults' = faults + 1
    /\ excuse' = excuse \cup {"lost"}
    /\ \E marker \in {Keep, None} :
        /\ marker = None => req[t].kind = "exit"
        /\ Answer(t, [KeepAll EXCEPT !.actAs = marker], FailureToken(req[t].kind),
                  req[t].kind = "exit")
    /\ UNCHANGED <<rows, jar, tab, taken>>

----------------------------------------------------------------------------
\* Fault: a cookie the answer does not name is overwritten.
AppliedAlways(old, set) == set
Applied(old, set) == IF set = Keep THEN old ELSE set

Names(r, k) ==
    r # Idle /\ IF r.stage = "answered" THEN r.set.refresh = k ELSE r.jar.refresh = k

\* When t has its answer, a cookie or a request still holds token k. The model
\* forgets the row of any other token, which nobody can present again.
NamedAfter(t, k) ==
    \/ \E b \in Browsers :
        k = IF b = BrowserOf(t) THEN Applied(jar[b].refresh, req[t].set.refresh)
                                ELSE jar[b].refresh
    \/ \E u \in Tabs \ {t} : Names(req[u], k)

\* The answer reaches the browser: cookies first, then the script.
Deliver(t) ==
    /\ At(t, "answered", Kinds)
    /\ LET b    == BrowserOf(t)
           set  == req[t].set
           body == req[t].body
       IN  /\ jar' = [jar EXCEPT ![b] = [refresh |-> Applied(jar[b].refresh, set.refresh),
                                         access  |-> Applied(jar[b].access, set.access),
                                         actAs   |-> Applied(jar[b].actAs, set.actAs)]]
           /\ tab' = [tab EXCEPT ![t] =
                        IF body.reload THEN Fresh
                        ELSE IF body.token = Keep THEN tab[t]
                        ELSE [tab[t] EXCEPT !.token = body.token, !.hydrated = TRUE,
                                            !.wasLive = tab[t].wasLive /\ req[t].kind # "logout"]]
    /\ req' = [req EXCEPT ![t] = Idle]
    /\ rows' = [k \in Tokens |-> IF NamedAfter(t, k) THEN rows[k] ELSE None]
    /\ UNCHANGED <<faults, taken, excuse>>

\* The access cookie lives for 15 minutes.
AccessCookieExpires(b) ==
    /\ jar[b].access # None
    /\ jar' = [jar EXCEPT ![b].access = None]
    /\ UNCHANGED <<rows, tab, req, faults, taken, excuse>>

\* A password is reset or changed, or an administrator revokes the account.
PasswordChanged(u) ==
    /\ faults < MaxFaults
    /\ faults' = faults + 1
    /\ RevokeAll(u)
    /\ excuse' = excuse \cup {"reset"}
    /\ UNCHANGED <<jar, tab, req, taken>>

Route(t) ==
    \/ AnswerFromCookie(t) \/ NothingToRefresh(t) \/ FindRow(t) \/ DetectReuse(t)
    \/ Rotate(t) \/ Enter(t) \/ Login(t) \/ Logout(t) \/ Deliver(t)

Next ==
    \/ \E t \in Tabs : Reload(t)
    \/ \E t \in Tabs : Hydrate(t)
    \/ \E t \in Tabs : PollSucceeds(t)
    \/ \E t \in Tabs : PollExpired(t)
    \/ \E t \in Tabs : PollSignedOut(t)
    \/ \E t \in Tabs, u \in Users : SignIn(t, u)
    \/ \E t \in Tabs : SignOut(t)
    \/ \E t \in Tabs, f \in Firms : StartImpersonation(t, f)
    \/ \E t \in Tabs : ExitImpersonation(t)
    \/ \E t \in Tabs : Route(t)
    \/ \E t \in Tabs : Refuse(t)
    \/ \E t \in Tabs : LoseAnswer(t)
    \/ \E b \in Browsers : AccessCookieExpires(b)
    \/ \E u \in Users : PasswordChanged(u)

Spec == Init /\ [][Next]_vars

\* The backend and the routes answer, pages hydrate and poll, and an access token
\* expires for good: a live tab gets its 401 in the end.
Fairness ==
    /\ \A t \in Tabs : /\ WF_vars(Route(t))
                       /\ WF_vars(Hydrate(t))
                       /\ WF_vars(PollSignedOut(t))
                       /\ SF_vars(PollExpired(t))
    /\ \A b \in Browsers : WF_vars(AccessCookieExpires(b))

FairSpec == Spec /\ Fairness

----------------------------------------------------------------------------
SessionsTypeOK ==
    /\ rows \in [Tokens -> Row \cup {None}]
    /\ jar \in [Browsers -> Jar]
    /\ tab \in [Tabs -> Tab]
    /\ req \in [Tabs -> Requests \cup {Idle}]
    /\ faults \in 0 .. MaxFaults /\ taken \in BOOLEAN
    /\ excuse \subseteq {"overlap", "lost", "reset"}

\* "Evidence the token was copied" (refresh's docstring in local_auth.py): as
\* nobody copies one here, a token presented twice means that two requests of one
\* browser overlapped, an answer was lost or the sessions were revoked.
ReuseHasACause == taken => excuse # {}

\* No session ends unnoticed: a browser whose refresh token is spent has its
\* successor, or its removal, in an answer on the way.
SpentCookieIsReplaced ==
    \A b \in Browsers :
        LET k == jar[b].refresh
        IN  (k # None /\ rows[k].state # "live" /\ ~taken /\ excuse \subseteq {"overlap"})
            => \E t \in Tabs : /\ BrowserOf(t) = b
                               /\ At(t, "answered", Kinds)
                               /\ req[t].set.refresh # Keep

\* Whatever marker an earlier session has left in the browser, only a super-admin
\* acts for a firm: no tab, cookie or answer holds such a token of anyone else.
OnlySuperadminsAct ==
    LET Honest(a) == a \in {None, Keep} \/ a.firm = None \/ a.user \in Superadmins
    IN  /\ \A b \in Browsers : Honest(jar[b].access)
        /\ \A t \in Tabs : /\ Honest(tab[t].token)
                           /\ At(t, "answered", Kinds) => /\ Honest(req[t].set.access)
                                                          /\ Honest(req[t].body.token)

\* A dead session is noticed: while some tab of the browser shows a live one, a
\* spent refresh cookie is replaced or removed (hadLiveSession in session.tsx),
\* unless an answer was lost.
DeadSessionIsNoticed ==
    \A b \in Browsers :
        LET dead == jar[b].refresh # None /\ rows[jar[b].refresh].state # "live"
        IN  (dead /\ \E t \in Tabs : BrowserOf(t) = b /\ tab[t].wasLive /\ tab[t].token # None)
            ~> (~dead \/ "lost" \in excuse)

\* A marker that outlived its super-admin's session does not stay with the next
\* person for long: the refresh that cannot enter the firm removes it.
StaleMarkerGoes ==
    \A b \in Browsers :
        LET stale == /\ jar[b].actAs # None /\ jar[b].refresh # None
                     /\ rows[jar[b].refresh].user \notin Superadmins
        IN  (stale /\ \E t \in Tabs : BrowserOf(t) = b /\ tab[t].wasLive /\ tab[t].token # None)
            ~> (~stale \/ "lost" \in excuse)
============================================================================
