--------------------------- MODULE SessionsProofs ---------------------------
(***************************************************************************)
(* Theorems about Sessions for any people, firms, browsers and tabs: its   *)
(* types; that only a super-admin ever acts for a firm; that a token is    *)
(* taken for a stolen one only for a cause; and that a spent refresh       *)
(* cookie has its replacement on the way.                                  *)
(***************************************************************************)
EXTENDS Sessions, TLAPS

Pending  == [stage : {"sent", "found"}, kind : Kinds, jar : Jar,
             arg : Users \cup Firms \cup {None}]
Body     == [token : Access \cup {None, Keep}, reload : BOOLEAN]
Answered == [stage : {"answered"}, kind : Kinds, presented : BOOLEAN,
             set : SetCookies, body : Body]

IsPending(t)  == req[t] # Idle /\ req[t].stage # "answered"
IsAnswered(t) == req[t] # Idle /\ req[t].stage = "answered"

\* Nothing but overlapping requests has happened that can spend a token twice.
Quiet == ~taken /\ excuse \subseteq {"overlap"}

Honest(a) == a \in {None, Keep} \/ a.firm = None \/ a.user \in Superadmins

\* A request carries an argument of its kind; one that has found its row
\* presented a token.
RequestsFit ==
    \A t \in Tabs : IsPending(t) =>
        /\ req[t].kind = "enter" => req[t].arg \in Firms
        /\ req[t].kind = "login" => req[t].arg \in Users
        /\ req[t].stage = "found" => Presents(req[t].kind, req[t].jar)

\* A token a cookie, a request or an answer names has a row, and belongs to
\* that browser alone.
HeldBy(k, b) == rows[k] \in Row /\ rows[k].browser = b
NamesHaveRows ==
    /\ \A b \in Browsers : jar[b].refresh # None => HeldBy(jar[b].refresh, b)
    /\ \A t \in Tabs : IsPending(t) /\ req[t].jar.refresh # None
                         => HeldBy(req[t].jar.refresh, BrowserOf(t))
    /\ \A t \in Tabs : IsAnswered(t) /\ req[t].set.refresh \in Tokens
                         => HeldBy(req[t].set.refresh, BrowserOf(t))

\* A new token is known only to the answer that brings it.
FreshIsAlone ==
    \A t \in Tabs : IsAnswered(t) /\ req[t].set.refresh \in Tokens =>
        /\ \A b \in Browsers : jar[b].refresh # req[t].set.refresh
        /\ \A u \in Tabs : IsPending(u) => req[u].jar.refresh # req[t].set.refresh
        /\ \A u \in Tabs : IsAnswered(u) /\ req[u].set.refresh = req[t].set.refresh => u = t
        /\ Quiet => rows[req[t].set.refresh].state = "live"

\* Whoever spent the token in a cookie presented it, and has not delivered yet.
SpentIsReplaced ==
    \A b \in Browsers :
        Quiet /\ jar[b].refresh # None /\ rows[jar[b].refresh].state # "live"
        => \E t \in Tabs : /\ BrowserOf(t) = b /\ IsAnswered(t)
                           /\ req[t].set.refresh # Keep /\ req[t].presented

\* Without a cause a browser presents its token once at a time, and it is live.
OnePresents ==
    excuse = {} =>
        /\ \A t \in Tabs : IsPending(t) /\ Presents(req[t].kind, req[t].jar)
                             => rows[req[t].jar.refresh].state = "live"
        /\ \A t, u \in Tabs : Presenting(t) /\ Presenting(u) /\ BrowserOf(t) = BrowserOf(u)
                                => t = u

\* OnlySuperadminsAct, of the requests on their way to the backend as well.
AllHonest ==
    /\ \A b \in Browsers : Honest(jar[b].access)
    /\ \A t \in Tabs : /\ Honest(tab[t].token)
                       /\ IsPending(t) => Honest(req[t].jar.access)
                       /\ IsAnswered(t) => Honest(req[t].set.access) /\ Honest(req[t].body.token)

IInv == /\ SessionsTypeOK /\ RequestsFit /\ NamesHaveRows /\ FreshIsAlone
        /\ SpentIsReplaced /\ OnePresents /\ ReuseHasACause /\ AllHonest

----------------------------------------------------------------------------
\* The two shapes of a request.
LEMMA Shapes ==
  ASSUME SessionsTypeOK, NEW t \in Tabs
  PROVE  /\ IsPending(t) => req[t] \in Pending
         /\ IsAnswered(t) => req[t] \in Answered
         /\ req[t] # Idle <=> IsPending(t) \/ IsAnswered(t)
<1>1. req[t] \in Pending \cup Answered \cup {Idle}
  BY DEF SessionsTypeOK, Requests, Pending, Answered, Body
<1>2. /\ \A r \in Pending : r.stage # "answered"
      /\ \A r \in Answered : r.stage = "answered"
  BY DEF Pending, Answered
<1> QED
  BY <1>1, <1>2 DEF IsPending, IsAnswered

LEMMA PendingFields ==
  ASSUME NEW r \in Pending
  PROVE  /\ r.stage \in {"sent", "found"} /\ r.kind \in Kinds /\ r.jar \in Jar
         /\ r.arg \in Users \cup Firms \cup {None}
         /\ r.jar.refresh \in Tokens \cup {None}
         /\ r.jar.access \in Access \cup {None}
         /\ r.jar.actAs \in Firms \cup {None}
  BY DEF Pending, Jar

LEMMA AnsweredFields ==
  ASSUME NEW r \in Answered
  PROVE  /\ r.stage = "answered" /\ r.kind \in Kinds /\ r.presented \in BOOLEAN
         /\ r.set \in SetCookies /\ r.body \in Body
         /\ r.set.refresh \in Tokens \cup {None, Keep}
         /\ r.set.access \in Access \cup {None, Keep}
         /\ r.set.actAs \in Firms \cup {None, Keep}
         /\ r.body.token \in Access \cup {None, Keep} /\ r.body.reload \in BOOLEAN
  BY DEF Answered, SetCookies, Body

LEMMA AccessFields ==
  ASSUME NEW a \in Access PROVE a.user \in Users /\ a.firm \in Firms \cup {None}
  BY DEF Access

LEMMA RowUpdates ==
  ASSUME NEW r \in Row, NEW s \in {"live", "spent", "revoked"}
  PROVE  /\ [r EXCEPT !.state = s] \in Row
         /\ [r EXCEPT !.state = s].browser = r.browser
         /\ [r EXCEPT !.state = s].state = s
         /\ r.user \in Users
  BY DEF Row

LEMMA Settings ==
  /\ KeepAll \in SetCookies /\ Refused \in SetCookies /\ SignedOut \in SetCookies
  /\ [KeepAll EXCEPT !.actAs = None] \in SetCookies
  /\ KeepAll.refresh = Keep /\ [KeepAll EXCEPT !.actAs = None].refresh = Keep
  /\ KeepAll.access = Keep /\ [KeepAll EXCEPT !.actAs = None].access = Keep
  /\ Refused.refresh = None /\ SignedOut.refresh = None
  /\ Refused.access = None /\ SignedOut.access = None
  /\ Keep \notin Tokens /\ None \notin Tokens /\ Keep # None
  BY SessionsAssumption DEF KeepAll, Refused, NoCookies, SignedOut, SetCookies, Tokens

LEMMA InitIInv == Init => IInv
<1> SUFFICES ASSUME Init PROVE IInv
  OBVIOUS
<1>1. NoCookies \in Jar /\ Fresh \in Tab
  BY DEF NoCookies, Jar, Fresh, Tab
<1>2. SessionsTypeOK
  <2>1. /\ rows \in [Tokens -> Row \cup {None}]
        /\ jar \in [Browsers -> Jar]
        /\ tab \in [Tabs -> Tab]
        /\ req \in [Tabs -> Requests \cup {Idle}]
    BY <1>1 DEF Init
  <2>2. faults \in 0 .. MaxFaults /\ taken \in BOOLEAN /\ excuse = {}
    <3>1. MaxFaults \in Nat
      BY SessionsAssumption
    <3>2. faults = 0 /\ taken = FALSE /\ excuse = {}
      BY DEF Init
    <3>3. faults \in 0 .. MaxFaults
      BY <3>1, <3>2
    <3> QED
      BY <3>2, <3>3, Zenon
  <2> QED
    BY <2>1, <2>2 DEF SessionsTypeOK
<1>3. \A t \in Tabs : ~IsPending(t) /\ ~IsAnswered(t) /\ ~Presenting(t)
  BY DEF Init, IsPending, IsAnswered, Presenting
<1>4. \A b \in Browsers : jar[b].refresh = None /\ jar[b].access = None
  BY DEF Init, NoCookies
<1>5. RequestsFit /\ NamesHaveRows /\ FreshIsAlone /\ SpentIsReplaced /\ OnePresents
  BY <1>3, <1>4 DEF RequestsFit, NamesHaveRows, FreshIsAlone, SpentIsReplaced, OnePresents
<1>6. ReuseHasACause /\ AllHonest
  BY <1>3, <1>4 DEF Init, ReuseHasACause, AllHonest, Honest, Fresh
<1> QED
  BY <1>2, <1>5, <1>6 DEF IInv

----------------------------------------------------------------------------
\* Sending copies the browser's cookies, and notes when it overlaps.
LEMMA SendKeeps ==
  ASSUME IInv, NEW t \in Tabs, NEW kind \in Kinds,
         NEW arg \in Users \cup Firms \cup {None},
         kind = "enter" => arg \in Firms, kind = "login" => arg \in Users,
         Send(t, kind, arg)
  PROVE  IInv'
<1> DEFINE b == BrowserOf(t)
           r == [stage |-> "sent", kind |-> kind, jar |-> jar[b], arg |-> arg]
<1>0. SessionsTypeOK /\ b \in Browsers /\ jar[b] \in Jar
  BY SessionsAssumption DEF IInv, SessionsTypeOK
<1>1. /\ req[t] = Idle /\ req' = [req EXCEPT ![t] = r]
      /\ UNCHANGED <<rows, jar, tab, faults, taken>>
      /\ excuse' \in {excuse, excuse \cup {"overlap"}}
      /\ excuse' = {} => /\ excuse = {}
                         /\ Presents(kind, jar[b]) =>
                              \A u \in Tabs \ {t} : BrowserOf(u) = b => ~Presenting(u)
  BY DEF Send
<1>2. r \in Pending /\ r \in Requests
  BY <1>0 DEF Pending, Requests
<1>3. SessionsTypeOK'
  BY <1>0, <1>1, <1>2 DEF SessionsTypeOK
<1>4. /\ req'[t] = r
      /\ \A u \in Tabs \ {t} : req'[u] = req[u]
  BY <1>0, <1>1 DEF SessionsTypeOK
<1>5. /\ ~IsAnswered(t)' /\ ~IsPending(t) /\ ~IsAnswered(t) /\ ~Presenting(t)
      /\ \A u \in Tabs \ {t} : /\ IsPending(u)' <=> IsPending(u)
                               /\ IsAnswered(u)' <=> IsAnswered(u)
                               /\ Presenting(u)' <=> Presenting(u)
      /\ Quiet' <=> Quiet
  BY <1>1, <1>4 DEF IsPending, IsAnswered, Presenting, Quiet
<1>6. RequestsFit'
  BY <1>4, <1>5 DEF IInv, RequestsFit, Presents
<1>7. NamesHaveRows'
  BY <1>0, <1>1, <1>4, <1>5 DEF IInv, NamesHaveRows, HeldBy
<1>8. FreshIsAlone'
  BY <1>0, <1>1, <1>4, <1>5 DEF IInv, FreshIsAlone
<1>9. SpentIsReplaced'
  BY <1>1, <1>4, <1>5 DEF IInv, SpentIsReplaced
<1>10. AllHonest'
  BY <1>0, <1>1, <1>4, <1>5 DEF IInv, AllHonest, Honest
<1>11. ReuseHasACause'
  BY <1>1 DEF IInv, ReuseHasACause
<1>12. OnePresents'
  <2> SUFFICES ASSUME excuse' = {} PROVE OnePresents'
    BY DEF OnePresents
  <2>1. excuse = {} /\ Quiet
    BY <1>1 DEF IInv, ReuseHasACause, Quiet
  <2>2. ASSUME Presents(kind, jar[b]) PROVE rows[jar[b].refresh].state = "live"
    <3>1. jar[b].refresh # None
      BY <2>2 DEF Presents
    <3>2. \A u \in Tabs \ {t} : BrowserOf(u) = b => ~Presenting(u)
      BY <1>1, <2>2
    <3>3. ASSUME NEW u \in Tabs, IsAnswered(u), req[u].presented PROVE Presenting(u)
      BY <3>3 DEF IsAnswered, Presenting
    <3> QED
      BY <1>0, <1>5, <2>1, <3>1, <3>2, <3>3 DEF IInv, SpentIsReplaced
  <2>3. ASSUME NEW u \in Tabs, IsPending(u)', Presents(req[u].kind, req[u].jar)'
        PROVE  (rows[req[u].jar.refresh].state = "live")'
    <3>1. CASE u = t
      BY <1>1, <1>4, <2>2, <2>3, <3>1 DEF Presents
    <3>2. CASE u # t
      BY <1>1, <1>4, <1>5, <2>1, <2>3, <3>2 DEF IInv, OnePresents, Presents
    <3> QED
      BY <3>1, <3>2
  <2>4. Presenting(t)' => Presents(kind, jar[b])
    BY <1>4 DEF Presenting, Presents
  <2>5. ASSUME NEW u \in Tabs, NEW v \in Tabs,
               Presenting(u)', Presenting(v)', BrowserOf(u) = BrowserOf(v)
        PROVE  u = v
    BY <1>1, <1>5, <2>1, <2>4, <2>5 DEF IInv, OnePresents
  <2> QED
    BY <2>3, <2>5 DEF OnePresents
<1> QED
  BY <1>3, <1>6, <1>7, <1>8, <1>9, <1>10, <1>11, <1>12 DEF IInv

----------------------------------------------------------------------------
\* What an answer may do to the rows: give its browser a new token, and end
\* the one its request presented.
LEMMA AnswerKeeps ==
  ASSUME IInv, NEW t \in Tabs, req[t] # Idle,
         NEW set \in SetCookies, NEW token \in Access \cup {None, Keep},
         NEW reload \in BOOLEAN,
         Answer(t, set, token, reload),
         Honest(set.access), Honest(token),
         UNCHANGED <<jar, tab>>,
         faults' \in 0 .. MaxFaults, taken' \in BOOLEAN,
         excuse' \subseteq {"overlap", "lost", "reset"},
         rows' \in [Tokens -> Row \cup {None}],
         \A k \in Tokens : rows[k] \in Row =>
             rows'[k] \in Row /\ rows'[k].browser = rows[k].browser,
         set.refresh \in Tokens => /\ rows[set.refresh] = None
                                   /\ HeldBy(set.refresh, BrowserOf(t))'
                                   /\ rows'[set.refresh].state = "live",
         Quiet' => Quiet /\ IsPending(t),
         excuse' = {} => excuse = {} /\ ~taken',
         \A k \in Tokens : Quiet' /\ rows[k] \in Row /\ rows'[k].state # rows[k].state =>
             IsPending(t) /\ k = req[t].jar.refresh /\ set.refresh # Keep /\ Presenting(t)
  PROVE  IInv'
<1> DEFINE r == [stage |-> "answered", kind |-> req[t].kind, presented |-> Presenting(t),
                 set |-> set, body |-> [token |-> token, reload |-> reload]]
<1>0. SessionsTypeOK /\ Keep \notin Tokens /\ None \notin Tokens
  BY Settings DEF IInv
<1>1. req' = [req EXCEPT ![t] = r]
  BY <1>0 DEF Answer, SessionsTypeOK
<1>2. req'[t] = r /\ \A u \in Tabs \ {t} : req'[u] = req[u]
  BY <1>0, <1>1 DEF SessionsTypeOK
<1>3. r \in Answered
  <2>1. req[t].kind \in Kinds
    BY <1>0, Shapes, PendingFields, AnsweredFields
  <2>2. Presenting(t) \in BOOLEAN
    BY <1>0, Shapes, AnsweredFields DEF Presenting, Presents, IsAnswered
  <2> QED
    BY <2>1, <2>2 DEF Answered, Body
<1>4. SessionsTypeOK'
  <2>1. r \in Requests
    BY <1>3 DEF Requests, Answered, Body
  <2> QED
    BY <1>0, <1>1, <2>1 DEF SessionsTypeOK
<1>5. /\ ~IsPending(t)' /\ IsAnswered(t)'
      /\ req'[t].set = set /\ req'[t].body.token = token
      /\ req'[t].presented = Presenting(t)
      /\ \A u \in Tabs \ {t} : /\ IsPending(u)' <=> IsPending(u)
                               /\ IsAnswered(u)' <=> IsAnswered(u)
                               /\ Presenting(u)' <=> Presenting(u)
      /\ Presenting(t)' => Presenting(t)
  <2>1. r # Idle
    BY <1>3, IdleIsNoRequest DEF Requests, Answered, Body
  <2> QED
    BY <1>2, <2>1 DEF IsPending, IsAnswered, Presenting
<1>6. RequestsFit'
  BY <1>2, <1>5 DEF IInv, RequestsFit, Presents
<1>7. NamesHaveRows'
  <2>1. ASSUME NEW k \in Tokens, NEW b \in Browsers, HeldBy(k, b) PROVE HeldBy(k, b)'
    BY <2>1 DEF HeldBy
  <2>2. NamesHaveRows
    BY DEF IInv
  <2>3. ASSUME NEW b \in Browsers, jar'[b].refresh # None PROVE HeldBy(jar[b].refresh, b)'
    <3>1. jar[b].refresh \in Tokens
      BY <1>0, <2>3 DEF SessionsTypeOK, Jar
    <3>2. HeldBy(jar[b].refresh, b)
      BY <2>2, <2>3 DEF NamesHaveRows
    <3> QED
      BY <2>1, <3>1, <3>2
  <2>4. ASSUME NEW u \in Tabs, IsPending(u)', req'[u].jar.refresh # None
        PROVE  HeldBy(req[u].jar.refresh, BrowserOf(u))'
    <3>1. u # t /\ IsPending(u) /\ req'[u] = req[u]
      BY <1>2, <1>5, <2>4
    <3>2. req[u].jar.refresh \in Tokens
      BY <1>0, <2>4, <3>1, Shapes, PendingFields
    <3>3. HeldBy(req[u].jar.refresh, BrowserOf(u)) /\ BrowserOf(u) \in Browsers
      BY <2>2, <2>4, <3>1, SessionsAssumption DEF NamesHaveRows
    <3>4. HeldBy(req[u].jar.refresh, BrowserOf(u)) => rows'[req[u].jar.refresh] \in Row
                                     /\ rows'[req[u].jar.refresh].browser = BrowserOf(u)
      BY <3>2 DEF HeldBy
    <3> QED
      BY <3>1, <3>3, <3>4 DEF HeldBy
  <2>5. ASSUME NEW u \in Tabs, IsAnswered(u)', req'[u].set.refresh \in Tokens
        PROVE  HeldBy(req[u].set.refresh, BrowserOf(u))'
    <3>1. CASE u = t
      BY <1>5, <2>5, <3>1 DEF HeldBy
    <3>2. CASE u # t
      BY <1>2, <1>5, <2>2, <2>5, <3>2 DEF NamesHaveRows, HeldBy
    <3> QED
      BY <3>1, <3>2
  <2> QED
    BY <2>3, <2>4, <2>5 DEF NamesHaveRows
<1>8. AllHonest'
  BY <1>2, <1>5 DEF IInv, AllHonest, Honest
<1>9. ReuseHasACause'
  BY DEF ReuseHasACause
\* The new token had no row, and every name had one.
<1>10. ASSUME set.refresh \in Tokens
       PROVE  /\ \A b \in Browsers : jar[b].refresh # set.refresh
              /\ \A u \in Tabs : IsPending(u) => req[u].jar.refresh # set.refresh
              /\ \A u \in Tabs : IsAnswered(u) => req[u].set.refresh # set.refresh
  <2>1. rows[set.refresh] \notin Row
    BY <1>10, NoneIsNoRow
  <2> QED
    BY <1>0, <1>10, <2>1 DEF IInv, NamesHaveRows, HeldBy
<1>11. FreshIsAlone'
  <2> SUFFICES ASSUME NEW u \in Tabs, IsAnswered(u)', req'[u].set.refresh \in Tokens
               PROVE  /\ \A b \in Browsers : jar[b].refresh # req'[u].set.refresh
                      /\ \A v \in Tabs : IsPending(v)' => req'[v].jar.refresh # req'[u].set.refresh
                      /\ \A v \in Tabs : IsAnswered(v)' /\ req'[v].set.refresh = req'[u].set.refresh
                                            => v = u
                      /\ Quiet' => rows'[req'[u].set.refresh].state = "live"
    BY DEF FreshIsAlone
  <2>1. CASE u = t
    BY <1>2, <1>5, <1>10, <2>1
  <2>2. CASE u # t
    <3>1. IsAnswered(u) /\ req'[u] = req[u]
      BY <1>2, <1>5, <2>2
    <3>2. /\ \A b \in Browsers : jar[b].refresh # req[u].set.refresh
          /\ \A v \in Tabs : IsPending(v) => req[v].jar.refresh # req[u].set.refresh
          /\ \A v \in Tabs : IsAnswered(v) /\ req[v].set.refresh = req[u].set.refresh => v = u
          /\ Quiet => rows[req[u].set.refresh].state = "live"
      BY <3>1 DEF IInv, FreshIsAlone
    <3>3. set.refresh # req[u].set.refresh
      BY <1>10, <3>1
    <3>4. rows[req[u].set.refresh] \in Row
      BY <3>1 DEF IInv, NamesHaveRows, HeldBy
    <3>5. Quiet' => rows'[req[u].set.refresh].state = "live"
      BY <3>1, <3>2, <3>4
    <3> QED
      BY <1>2, <1>5, <3>1, <3>2, <3>3, <3>5
  <2> QED
    BY <2>1, <2>2
\* Nobody else presents the token that is ended.
<1>12. ASSUME NEW b \in Browsers, jar[b].refresh # None,
              Quiet', rows'[jar[b].refresh].state # "live"
       PROVE  \E u \in Tabs : /\ BrowserOf(u) = b /\ IsAnswered(u)'
                              /\ req'[u].set.refresh # Keep /\ req'[u].presented
  <2>1. jar[b].refresh \in Tokens /\ HeldBy(jar[b].refresh, b)
    BY <1>0, <1>12 DEF IInv, SessionsTypeOK, Jar, NamesHaveRows
  <2>2. CASE rows'[jar[b].refresh].state = rows[jar[b].refresh].state
    <3>1. PICK u \in Tabs : /\ BrowserOf(u) = b /\ IsAnswered(u)
                            /\ req[u].set.refresh # Keep /\ req[u].presented
      BY <1>12, <2>2 DEF IInv, SpentIsReplaced
    <3>2. u # t
      BY <1>12, <3>1 DEF IsPending, IsAnswered
    <3> QED
      BY <1>2, <1>5, <3>1, <3>2
  <2>3. CASE rows'[jar[b].refresh].state # rows[jar[b].refresh].state
    <3>1. /\ IsPending(t) /\ jar[b].refresh = req[t].jar.refresh
          /\ set.refresh # Keep /\ Presenting(t)
      BY <1>12, <2>1, <2>3 DEF HeldBy
    <3>2. BrowserOf(t) = b
      BY <1>12, <2>1, <3>1 DEF IInv, NamesHaveRows, HeldBy
    <3> QED
      BY <1>5, <3>1, <3>2
  <2> QED
    BY <2>2, <2>3
<1>13. SpentIsReplaced'
  BY <1>12 DEF SpentIsReplaced
<1>14. OnePresents'
  <2> SUFFICES ASSUME excuse' = {} PROVE OnePresents'
    BY DEF OnePresents
  <2>1. Quiet' /\ OnePresents /\ excuse = {} /\ IsPending(t)
    BY DEF IInv, Quiet
  <2>2. ASSUME NEW u \in Tabs, IsPending(u)', Presents(req[u].kind, req[u].jar)'
        PROVE  (rows[req[u].jar.refresh].state = "live")'
    <3>1. u # t /\ IsPending(u) /\ req'[u] = req[u] /\ Presents(req[u].kind, req[u].jar)
      BY <1>2, <1>5, <2>2 DEF Presents
    <3>2. /\ rows[req[u].jar.refresh].state = "live"
          /\ req[u].jar.refresh \in Tokens /\ HeldBy(req[u].jar.refresh, BrowserOf(u))
      BY <1>0, <2>1, <3>1, Shapes, PendingFields DEF IInv, OnePresents, NamesHaveRows, Presents
    <3>3. rows'[req[u].jar.refresh].state # rows[req[u].jar.refresh].state => FALSE
      <4> SUFFICES ASSUME rows'[req[u].jar.refresh].state # rows[req[u].jar.refresh].state
                   PROVE  FALSE
        OBVIOUS
      <4>1. req[u].jar.refresh = req[t].jar.refresh /\ Presenting(t)
        BY <2>1, <3>2 DEF HeldBy
      <4>2. BrowserOf(u) = BrowserOf(t)
        BY <1>0, <2>1, <3>2, <4>1 DEF IInv, NamesHaveRows, HeldBy
      <4>3. Presenting(u)
        BY <3>1 DEF Presenting, IsPending
      <4> QED
        BY <2>1, <3>1, <4>1, <4>2, <4>3 DEF OnePresents
    <3> QED
      BY <3>1, <3>2, <3>3
  <2>3. ASSUME NEW u \in Tabs, NEW v \in Tabs,
               Presenting(u)', Presenting(v)', BrowserOf(u) = BrowserOf(v)
        PROVE  u = v
    BY <1>5, <2>1, <2>3 DEF OnePresents
  <2> QED
    BY <2>2, <2>3 DEF OnePresents
<1> QED
  BY <1>4, <1>6, <1>7, <1>8, <1>9, <1>11, <1>13, <1>14 DEF IInv

----------------------------------------------------------------------------
\* An answer that gives no token and a request that ended none.
LEMMA PlainAnswerKeeps ==
  ASSUME IInv, NEW t \in Tabs, req[t] # Idle,
         NEW set \in SetCookies, NEW token \in Access \cup {None, Keep},
         NEW reload \in BOOLEAN,
         Answer(t, set, token, reload),
         Honest(set.access), Honest(token), set.refresh \notin Tokens,
         UNCHANGED <<rows, jar, tab, taken>>,
         \/ IsPending(t) /\ UNCHANGED <<faults, excuse>>
         \/ faults' \in 0 .. MaxFaults /\ excuse' = excuse \cup {"lost"}
  PROVE  IInv'
<1>0. SessionsTypeOK
  BY DEF IInv
<1>1. /\ faults' \in 0 .. MaxFaults /\ taken' \in BOOLEAN
      /\ excuse' \subseteq {"overlap", "lost", "reset"}
  BY <1>0 DEF SessionsTypeOK
<1>2. /\ rows' \in [Tokens -> Row \cup {None}]
      /\ \A k \in Tokens : rows[k] \in Row =>
             rows'[k] \in Row /\ rows'[k].browser = rows[k].browser
      /\ \A k \in Tokens : rows'[k] = rows[k]
  BY <1>0 DEF SessionsTypeOK
<1>3. (Quiet' => Quiet /\ IsPending(t)) /\ (excuse' = {} => excuse = {} /\ ~taken')
  BY DEF IInv, ReuseHasACause, Quiet
<1> QED
  BY <1>1, <1>2, <1>3, AnswerKeeps

LEMMA HonestSettings ==
  /\ Honest(KeepAll.access) /\ Honest(Refused.access) /\ Honest(SignedOut.access)
  /\ Honest([KeepAll EXCEPT !.actAs = None].access)
  /\ Honest(None) /\ Honest(Keep)
  /\ \A kind : Honest(FailureToken(kind)) /\ FailureToken(kind) \in {None, Keep}
  BY Settings DEF Honest, FailureToken

LEMMA AnswerFromCookieKeeps ==
  ASSUME IInv, NEW t \in Tabs, AnswerFromCookie(t) PROVE IInv'
<1>1. /\ req[t] # Idle /\ IsPending(t)
      /\ Answer(t, KeepAll, req[t].jar.access, FALSE)
      /\ UNCHANGED <<rows, jar, tab, taken, faults, excuse>>
  BY DEF AnswerFromCookie, At, IsPending
<1>2. req[t].jar.access \in Access \cup {None, Keep} /\ Honest(req[t].jar.access)
  BY <1>1, Shapes, PendingFields DEF IInv, AllHonest
<1> QED
  BY <1>1, <1>2, Settings, HonestSettings, PlainAnswerKeeps

LEMMA NothingToRefreshKeeps ==
  ASSUME IInv, NEW t \in Tabs, NothingToRefresh(t) PROVE IInv'
<1> DEFINE set == IF req[t].kind = "exit" THEN [KeepAll EXCEPT !.actAs = None] ELSE KeepAll
<1>1. /\ req[t] # Idle /\ IsPending(t)
      /\ Answer(t, set, FailureToken(req[t].kind), req[t].kind = "exit")
      /\ UNCHANGED <<rows, jar, tab, taken, faults, excuse>>
  BY DEF NothingToRefresh, Rotates, At, IsPending
<1>2. set \in SetCookies /\ Honest(set.access) /\ set.refresh \notin Tokens
  BY Settings, HonestSettings
<1>3. FailureToken(req[t].kind) \in Access \cup {None, Keep} /\ Honest(FailureToken(req[t].kind))
  BY HonestSettings
<1> QED
  BY <1>1, <1>2, <1>3, PlainAnswerKeeps

LEMMA RefuseKeeps ==
  ASSUME IInv, NEW t \in Tabs, Refuse(t) PROVE IInv'
<1>1. /\ req[t] # Idle /\ IsPending(t)
      /\ Answer(t, Refused, FailureToken(req[t].kind), req[t].kind = "exit")
      /\ UNCHANGED <<rows, jar, tab, taken, faults, excuse>>
  BY DEF Refuse, At, IsPending
<1>2. FailureToken(req[t].kind) \in Access \cup {None, Keep} /\ Honest(FailureToken(req[t].kind))
  BY HonestSettings
<1>3. Refused.refresh \notin Tokens
  BY Settings
<1> QED
  BY <1>1, <1>2, <1>3, Settings, HonestSettings, PlainAnswerKeeps

LEMMA LoseAnswerKeeps ==
  ASSUME IInv, NEW t \in Tabs, LoseAnswer(t) PROVE IInv'
<1>1. PICK marker \in {Keep, None} :
         Answer(t, [KeepAll EXCEPT !.actAs = marker], FailureToken(req[t].kind),
                req[t].kind = "exit")
  BY DEF LoseAnswer
<1>2. /\ req[t] # Idle /\ UNCHANGED <<rows, jar, tab, taken>>
      /\ excuse' = excuse \cup {"lost"}
  BY DEF LoseAnswer, At
<1>3. faults' \in 0 .. MaxFaults
  <2>1. MaxFaults \in Nat /\ faults \in 0 .. MaxFaults
    BY SessionsAssumption DEF IInv, SessionsTypeOK
  <2> QED
    BY <2>1 DEF LoseAnswer
<1>4. /\ [KeepAll EXCEPT !.actAs = marker] \in SetCookies
      /\ [KeepAll EXCEPT !.actAs = marker].refresh = Keep
      /\ [KeepAll EXCEPT !.actAs = marker].access = Keep
  BY DEF KeepAll, SetCookies
<1>5. FailureToken(req[t].kind) \in Access \cup {None, Keep} /\ Honest(FailureToken(req[t].kind))
  BY HonestSettings
<1> QED
  BY <1>1, <1>2, <1>3, <1>4, <1>5, Settings, HonestSettings, PlainAnswerKeeps

LEMMA EnterKeeps ==
  ASSUME IInv, NEW t \in Tabs, Enter(t) PROVE IInv'
<1> DEFINE bearer == req[t].jar.access
           access == [user |-> bearer.user, firm |-> req[t].arg]
           set    == [refresh |-> Keep, access |-> access, actAs |-> req[t].arg]
<1>1. /\ req[t] # Idle /\ IsPending(t) /\ bearer # None /\ req[t].kind = "enter"
      /\ \/ MayImpersonate(bearer.user) /\ Answer(t, set, access, TRUE)
         \/ Answer(t, KeepAll, Keep, FALSE)
      /\ UNCHANGED <<rows, jar, tab, taken, faults, excuse>>
  BY DEF Enter, At, IsPending
<1>2. CASE Answer(t, KeepAll, Keep, FALSE)
  BY <1>1, <1>2, Settings, HonestSettings, PlainAnswerKeeps
<1>3. CASE MayImpersonate(bearer.user) /\ Answer(t, set, access, TRUE)
  <2>1. bearer \in Access /\ req[t].arg \in Firms
    BY <1>1, Shapes, PendingFields DEF IInv, RequestsFit
  <2>2. access \in Access /\ Honest(access)
    BY <1>3, <2>1, AccessFields DEF Access, Honest, MayImpersonate
  <2>3. set \in SetCookies /\ set.refresh = Keep /\ set.access = access
    BY <2>1, <2>2 DEF SetCookies
  <2> QED
    BY <1>1, <1>3, <2>2, <2>3, Settings, PlainAnswerKeeps
<1> QED
  BY <1>1, <1>2, <1>3

----------------------------------------------------------------------------
\* Revoking keeps every row a row of its browser.
LEMMA RevokeAllKeeps ==
  ASSUME SessionsTypeOK, NEW u, RevokeAll(u)
  PROVE  /\ rows' \in [Tokens -> Row \cup {None}]
         /\ \A k \in Tokens : rows[k] \in Row =>
                rows'[k] \in Row /\ rows'[k].browser = rows[k].browser
<1>1. \A k \in Tokens : rows[k] \in Row \cup {None}
  BY DEF SessionsTypeOK
<1>2. \A k \in Tokens : /\ rows'[k] \in Row \cup {None}
                        /\ rows[k] \in Row => rows'[k] \in Row /\ rows'[k].browser = rows[k].browser
  BY <1>1, RowUpdates DEF RevokeAll
<1> QED
  BY <1>2 DEF RevokeAll

LEMMA DetectReuseKeeps ==
  ASSUME IInv, NEW t \in Tabs, DetectReuse(t) PROVE IInv'
<1>1. /\ req[t] # Idle /\ IsPending(t)
      /\ Answer(t, Refused, FailureToken(req[t].kind), req[t].kind = "exit")
      /\ req[t].jar.refresh # None /\ rows[req[t].jar.refresh].state # "live"
      /\ RevokeAll(rows[req[t].jar.refresh].user)
      /\ taken' = TRUE /\ UNCHANGED <<jar, tab, faults, excuse>>
  BY DEF DetectReuse, Rotates, At, IsPending
<1>2. /\ FailureToken(req[t].kind) \in Access \cup {None, Keep}
      /\ Honest(FailureToken(req[t].kind))
      /\ Refused.refresh \notin Tokens
  BY HonestSettings, Settings
\* One presentation at a time would have found the row live.
<1>3. excuse # {}
  <2>1. Presents(req[t].kind, req[t].jar)
    BY <1>1 DEF DetectReuse, Rotates, At, Presents
  <2> QED
    BY <1>1, <2>1 DEF IInv, OnePresents
<1>4. ~Quiet' /\ taken' \in BOOLEAN /\ faults' \in 0 .. MaxFaults
      /\ excuse' \subseteq {"overlap", "lost", "reset"}
  <2>1. taken' \in BOOLEAN
    BY <1>1, Zenon
  <2> QED
    BY <1>1, <2>1 DEF Quiet, IInv, SessionsTypeOK
<1>5. /\ rows' \in [Tokens -> Row \cup {None}]
      /\ \A k \in Tokens : rows[k] \in Row =>
             rows'[k] \in Row /\ rows'[k].browser = rows[k].browser
  BY <1>1, RevokeAllKeeps DEF IInv
<1> QED
  BY <1>1, <1>2, <1>3, <1>4, <1>5, Settings, HonestSettings, AnswerKeeps

LEMMA RotateKeeps ==
  ASSUME IInv, NEW t \in Tabs, Rotate(t) PROVE IInv'
<1>1. PICK k \in Tokens, minted \in BOOLEAN, stays \in BOOLEAN :
        LET old    == req[t].jar.refresh
            user   == rows[old].user
            enters == req[t].kind = "enter"
            access == [user |-> user, firm |-> IF minted THEN Target(t) ELSE None]
        IN  /\ NextToken(k)
            /\ minted => Target(t) # None /\ MayImpersonate(user)
            /\ rows' = [rows EXCEPT ![old].state = "spent",
                                    ![k] = [user |-> user, browser |-> BrowserOf(t),
                                            state |-> "live"]]
            /\ Answer(t, [refresh |-> NewRefresh(k), access |-> access,
                          actAs |-> Marker(t, minted)],
                      IF enters /\ ~minted THEN Keep ELSE access,
                      \/ req[t].kind = "exit" \/ (Ends(t, minted) /\ ~stays)
                      \/ enters /\ minted)
  BY ZenonT(60) DEF Rotate
<1> DEFINE old    == req[t].jar.refresh
           user   == rows[old].user
           access == [user |-> user, firm |-> IF minted THEN Target(t) ELSE None]
           set    == [refresh |-> k, access |-> access, actAs |-> Marker(t, minted)]
           token  == IF req[t].kind = "enter" /\ ~minted THEN Keep ELSE access
           new    == [user |-> user, browser |-> BrowserOf(t), state |-> "live"]
           reload == \/ req[t].kind = "exit" \/ (Ends(t, minted) /\ ~stays)
                     \/ req[t].kind = "enter" /\ minted
<1>2. /\ rows[k] = None /\ k # Keep
      /\ minted => Target(t) # None /\ MayImpersonate(user)
      /\ rows' = [rows EXCEPT ![old].state = "spent", ![k] = new]
      /\ Answer(t, set, token, reload)
  BY <1>1, Settings DEF NextToken, Unissued, NewRefresh
<1>3. /\ req[t] # Idle /\ IsPending(t) /\ req[t].stage = "found"
      /\ UNCHANGED <<jar, tab, faults, taken, excuse>>
  BY DEF Rotate, At, IsPending
<1>4. Presents(req[t].kind, req[t].jar) /\ Presenting(t)
  BY <1>3 DEF IInv, RequestsFit, Presenting
<1>5. req[t] \in Pending /\ SessionsTypeOK
  BY <1>3, Shapes DEF IInv
<1>6. old \in Tokens /\ rows[old] \in Row /\ user \in Users
  <2>1. old \in Tokens /\ rows[old] \in Row
    BY <1>3, <1>4, <1>5, PendingFields DEF Presents, IInv, NamesHaveRows, HeldBy
  <2> QED
    BY <2>1, RowUpdates
<1>7. k # old
  BY <1>2, <1>6, NoneIsNoRow
<1>8. Target(t) \in Firms \cup {None}
  BY <1>3, <1>5, PendingFields DEF Target, IInv, RequestsFit
<1>9. access \in Access /\ Honest(access)
  BY <1>2, <1>6, <1>8 DEF Access, Honest, MayImpersonate
<1>10. set \in SetCookies
  <2>1. Marker(t, minted) \in Firms \cup {None, Keep}
    BY <1>8 DEF Marker
  <2> QED
    BY <1>9, <2>1 DEF SetCookies
<1>11. token \in Access \cup {None, Keep} /\ Honest(token) /\ reload \in BOOLEAN
  BY <1>9, HonestSettings
<1>12. new \in Row
  BY <1>6, SessionsAssumption DEF Row
<1>13. /\ rows' \in [Tokens -> Row \cup {None}]
       /\ rows'[k] = new
       /\ rows'[old] = [rows[old] EXCEPT !.state = "spent"]
       /\ \A j \in Tokens \ {k, old} : rows'[j] = rows[j]
  <2>1. [rows[old] EXCEPT !.state = "spent"] \in Row
    BY <1>6, RowUpdates
  <2> QED
    BY <1>2, <1>5, <1>6, <1>7, <1>12, <2>1 DEF SessionsTypeOK
<1>14. \A j \in Tokens : rows[j] \in Row => rows'[j] \in Row /\ rows'[j].browser = rows[j].browser
  <2>1. rows'[old] \in Row /\ rows'[old].browser = rows[old].browser
    BY <1>6, <1>13, RowUpdates, ZenonT(60)
  <2>2. rows[k] \notin Row
    BY <1>2, NoneIsNoRow
  <2> QED
    BY <1>13, <2>1, <2>2
<1>15. HeldBy(k, BrowserOf(t))' /\ rows'[k].state = "live"
  BY <1>12, <1>13 DEF HeldBy
<1>16. \A j \in Tokens : rows[j] \in Row /\ rows'[j].state # rows[j].state => j = old
  BY <1>2, <1>13, NoneIsNoRow
<1>17. /\ faults' \in 0 .. MaxFaults /\ taken' \in BOOLEAN
       /\ excuse' \subseteq {"overlap", "lost", "reset"}
       /\ Quiet' => Quiet
       /\ excuse' = {} => excuse = {} /\ ~taken'
  BY <1>3 DEF IInv, SessionsTypeOK, Quiet, ReuseHasACause
<1>18. PICK sent \in SetCookies, given \in Access \cup {None, Keep}, anew \in BOOLEAN :
          /\ sent.refresh = k /\ sent.access = access /\ given = token
          /\ Answer(t, sent, given, anew)
  BY <1>2, <1>10, <1>11
<1>19. /\ Honest(sent.access) /\ Honest(given)
       /\ sent.refresh \in Tokens => /\ rows[sent.refresh] = None
                                     /\ HeldBy(sent.refresh, BrowserOf(t))'
                                     /\ rows'[sent.refresh].state = "live"
       /\ sent.refresh # Keep /\ rows' \in [Tokens -> Row \cup {None}]
  BY <1>2, <1>9, <1>11, <1>13, <1>15, <1>18
<1>20. \A j \in Tokens : Quiet' /\ rows[j] \in Row /\ rows'[j].state # rows[j].state =>
           IsPending(t) /\ j = req[t].jar.refresh /\ sent.refresh # Keep /\ Presenting(t)
  BY <1>3, <1>4, <1>16, <1>19
<1> QED
  BY <1>3, <1>14, <1>17, <1>18, <1>19, <1>20, AnswerKeeps, SMTT(60)

LEMMA LoginKeeps ==
  ASSUME IInv, NEW t \in Tabs, Login(t) PROVE IInv'
<1>1. /\ req[t] # Idle /\ IsPending(t) /\ req[t].kind = "login"
      /\ UNCHANGED <<jar, tab, faults, taken, excuse>>
  BY DEF Login, At, IsPending
<1>2. CASE UNCHANGED rows /\ Answer(t, KeepAll, Keep, FALSE)
  BY <1>1, <1>2, Settings, HonestSettings, PlainAnswerKeeps
<1>3. CASE \E k \in Tokens :
            /\ NextToken(k)
            /\ rows' = [rows EXCEPT ![k] = [user |-> req[t].arg, browser |-> BrowserOf(t),
                                            state |-> "live"]]
            /\ LET access == [user |-> req[t].arg, firm |-> None]
               IN  Answer(t, [refresh |-> k, access |-> access, actAs |-> Keep], access, FALSE)
  <2> DEFINE access == [user |-> req[t].arg, firm |-> None]
             new    == [user |-> req[t].arg, browser |-> BrowserOf(t), state |-> "live"]
  <2>1. PICK k \in Tokens :
            /\ rows[k] = None
            /\ rows' = [rows EXCEPT ![k] = new]
            /\ Answer(t, [refresh |-> k, access |-> access, actAs |-> Keep], access, FALSE)
    BY <1>3 DEF NextToken, Unissued
  <2> DEFINE set == [refresh |-> k, access |-> access, actAs |-> Keep]
  <2>2. req[t].arg \in Users
    BY <1>1 DEF IInv, RequestsFit
  <2>3. access \in Access /\ Honest(access) /\ new \in Row
    BY <2>2, SessionsAssumption DEF Access, Honest, Row
  <2>4. set \in SetCookies /\ set.refresh = k /\ set.access = access
    BY <2>3 DEF SetCookies
  <2>5. /\ rows' \in [Tokens -> Row \cup {None}] /\ rows'[k] = new
        /\ \A j \in Tokens : rows[j] \in Row => rows'[j] = rows[j]
    BY <2>1, <2>3, NoneIsNoRow DEF IInv, SessionsTypeOK
  <2>6. HeldBy(k, BrowserOf(t))' /\ rows'[k].state = "live"
    BY <2>3, <2>5 DEF HeldBy
  <2>7. /\ faults' \in 0 .. MaxFaults /\ taken' \in BOOLEAN
        /\ excuse' \subseteq {"overlap", "lost", "reset"}
        /\ Quiet' => Quiet
        /\ excuse' = {} => excuse = {} /\ ~taken'
    BY <1>1 DEF IInv, SessionsTypeOK, Quiet, ReuseHasACause
  <2>8. Answer(t, set, access, FALSE)
    BY <2>1
  <2> HIDE DEF set, access, new
  <2> QED
    BY <1>1, <2>1, <2>3, <2>4, <2>5, <2>6, <2>7, <2>8, AnswerKeeps
<1> QED
  BY <1>2, <1>3 DEF Login

LEMMA LogoutKeeps ==
  ASSUME IInv, NEW t \in Tabs, Logout(t) PROVE IInv'
<1> DEFINE k == req[t].jar.refresh
<1>1. /\ req[t] # Idle /\ IsPending(t) /\ req[t].kind = "logout"
      /\ req[t].stage = "sent"
      /\ Answer(t, SignedOut, None, FALSE)
      /\ UNCHANGED <<jar, tab, faults, taken, excuse>>
  BY DEF Logout, At, IsPending
<1>2. CASE UNCHANGED rows
  BY <1>1, <1>2, Settings, HonestSettings, PlainAnswerKeeps
<1>3. CASE k # None /\ rows[k].state = "live" /\ rows' = [rows EXCEPT ![k].state = "revoked"]
  <2>1. Presenting(t)
    BY <1>1, <1>3 DEF Presenting, Presents
  <2>2. k \in Tokens /\ rows[k] \in Row
    BY <1>1, <1>3, Shapes, PendingFields DEF IInv, NamesHaveRows, HeldBy
  <2>3. [rows[k] EXCEPT !.state = "revoked"] \in Row
        /\ [rows[k] EXCEPT !.state = "revoked"].browser = rows[k].browser
    BY <2>2, RowUpdates
  <2>4. /\ rows' \in [Tokens -> Row \cup {None}]
        /\ rows'[k] = [rows[k] EXCEPT !.state = "revoked"]
        /\ \A j \in Tokens \ {k} : rows'[j] = rows[j]
    BY <1>3, <2>2, <2>3 DEF IInv, SessionsTypeOK
  <2>5. /\ \A j \in Tokens : rows[j] \in Row =>
               rows'[j] \in Row /\ rows'[j].browser = rows[j].browser
        /\ \A j \in Tokens : rows'[j].state # rows[j].state => j = k
    BY <2>3, <2>4
  <2>6. /\ faults' \in 0 .. MaxFaults /\ taken' \in BOOLEAN
        /\ excuse' \subseteq {"overlap", "lost", "reset"}
        /\ Quiet' => Quiet
        /\ excuse' = {} => excuse = {} /\ ~taken'
    BY <1>1 DEF IInv, SessionsTypeOK, Quiet, ReuseHasACause
  <2>7. SignedOut.refresh \notin Tokens /\ SignedOut.refresh # Keep
    BY Settings
  <2> QED
    BY <1>1, <2>1, <2>4, <2>5, <2>6, <2>7, Settings, HonestSettings, AnswerKeeps, ZenonT(60)
<1> QED
  BY <1>2, <1>3 DEF Logout

----------------------------------------------------------------------------
LEMMA FindRowKeeps ==
  ASSUME IInv, NEW t \in Tabs, FindRow(t) PROVE IInv'
<1>1. /\ req[t] # Idle /\ IsPending(t) /\ req[t].stage = "sent"
      /\ req' = [req EXCEPT ![t].stage = "found"]
      /\ Presents(req[t].kind, req[t].jar)
      /\ UNCHANGED <<rows, jar, tab, faults, taken, excuse>>
  BY DEF FindRow, Rotates, At, IsPending, Presents
<1>2. SessionsTypeOK /\ req[t] \in Pending
  BY <1>1, Shapes DEF IInv
<1> DEFINE r == [req[t] EXCEPT !.stage = "found"]
<1>3. r \in Pending /\ r.stage = "found" /\ r.kind = req[t].kind
      /\ r.jar = req[t].jar /\ r.arg = req[t].arg
  BY <1>2 DEF Pending
<1>4. r \in Requests /\ r # Idle
  BY <1>3, IdleIsNoRequest DEF Pending, Requests
<1>5. req' = [req EXCEPT ![t] = r] /\ req'[t] = r /\ \A u \in Tabs \ {t} : req'[u] = req[u]
  BY <1>1, <1>2 DEF SessionsTypeOK
<1>6. SessionsTypeOK'
  BY <1>1, <1>2, <1>4, <1>5 DEF SessionsTypeOK
<1>7. /\ IsPending(t)' /\ ~IsAnswered(t)' /\ ~IsAnswered(t)
      /\ Presenting(t)' /\ Presenting(t)
      /\ \A u \in Tabs \ {t} : /\ IsPending(u)' <=> IsPending(u)
                               /\ IsAnswered(u)' <=> IsAnswered(u)
                               /\ Presenting(u)' <=> Presenting(u)
      /\ Quiet' <=> Quiet
  BY <1>1, <1>3, <1>4, <1>5 DEF IsPending, IsAnswered, Presenting, Presents, Quiet
<1>8. RequestsFit'
  BY <1>1, <1>3, <1>5, <1>7 DEF IInv, RequestsFit, Presents
<1>9. NamesHaveRows' /\ FreshIsAlone' /\ SpentIsReplaced'
  BY <1>1, <1>3, <1>5, <1>7, SMTT(60)
  DEF IInv, NamesHaveRows, HeldBy, FreshIsAlone, SpentIsReplaced
<1>10. OnePresents'
  BY <1>1, <1>3, <1>5, <1>7 DEF IInv, OnePresents, Presents
<1>11. ReuseHasACause' /\ AllHonest'
  BY <1>1, <1>3, <1>5, <1>7 DEF IInv, ReuseHasACause, AllHonest, Honest
<1> QED
  BY <1>6, <1>8, <1>9, <1>10, <1>11 DEF IInv

LEMMA DeliverKeeps ==
  ASSUME IInv, NEW t \in Tabs, Deliver(t) PROVE IInv'
<1> DEFINE b    == BrowserOf(t)
           set  == req[t].set
           body == req[t].body
<1>1. /\ IsAnswered(t) /\ req' = [req EXCEPT ![t] = Idle]
      /\ jar' = [jar EXCEPT ![b] = [refresh |-> Applied(jar[b].refresh, set.refresh),
                                    access  |-> Applied(jar[b].access, set.access),
                                    actAs   |-> Applied(jar[b].actAs, set.actAs)]]
      /\ tab' = [tab EXCEPT ![t] =
                   IF body.reload THEN Fresh
                   ELSE IF body.token = Keep THEN tab[t]
                   ELSE [tab[t] EXCEPT !.token = body.token, !.hydrated = TRUE,
                                       !.wasLive = tab[t].wasLive /\ req[t].kind # "logout"]]
      /\ rows' = [k \in Tokens |-> IF NamedAfter(t, k) THEN rows[k] ELSE None]
      /\ UNCHANGED <<faults, taken, excuse>>
  BY DEF Deliver, At, IsAnswered
<1>2. SessionsTypeOK /\ req[t] \in Answered /\ b \in Browsers
      /\ Keep \notin Tokens /\ None \notin Tokens
  BY <1>1, Shapes, SessionsAssumption, Settings DEF IInv
<1>3. /\ req'[t] = Idle /\ \A u \in Tabs \ {t} : req'[u] = req[u]
      /\ ~IsPending(t)' /\ ~IsAnswered(t)' /\ ~IsPending(t) /\ ~Presenting(t)'
      /\ \A u \in Tabs \ {t} : /\ IsPending(u)' <=> IsPending(u)
                               /\ IsAnswered(u)' <=> IsAnswered(u)
                               /\ Presenting(u)' <=> Presenting(u)
      /\ Quiet' <=> Quiet
  BY <1>1, <1>2 DEF SessionsTypeOK, IsPending, IsAnswered, Presenting, Quiet
<1>4. /\ jar'[b].refresh = IF set.refresh = Keep THEN jar[b].refresh ELSE set.refresh
      /\ jar'[b].access = IF set.access = Keep THEN jar[b].access ELSE set.access
      /\ \A c \in Browsers \ {b} : jar'[c] = jar[c]
  BY <1>1, <1>2 DEF SessionsTypeOK, Applied
\* What is named afterwards keeps its row.
<1>5. \A k \in Tokens : NamedAfter(t, k) => rows'[k] = rows[k]
  BY <1>1
<1>6. /\ \A c \in Browsers : jar'[c].refresh \in Tokens => NamedAfter(t, jar'[c].refresh)
      /\ \A u \in Tabs \ {t} : IsPending(u) => NamedAfter(t, req[u].jar.refresh)
      /\ \A u \in Tabs \ {t} : IsAnswered(u) => NamedAfter(t, req[u].set.refresh)
  BY <1>1, <1>2, <1>4 DEF NamedAfter, Names, IsPending, IsAnswered, Applied
<1>7. SessionsTypeOK'
  <2>1. jar' \in [Browsers -> Jar]
    BY <1>1, <1>2, AnsweredFields DEF SessionsTypeOK, Jar, Applied
  <2>2. tab' \in [Tabs -> Tab]
    <3>1. Fresh \in Tab /\ tab[t] \in Tab
      BY <1>2 DEF Fresh, Tab, SessionsTypeOK
    <3>2. body.token \in Access \cup {None, Keep}
      BY <1>2, AnsweredFields
    <3>3. body.token # Keep =>
            [tab[t] EXCEPT !.token = body.token, !.hydrated = TRUE,
                           !.wasLive = tab[t].wasLive /\ req[t].kind # "logout"] \in Tab
      BY <3>1, <3>2 DEF Tab
    <3> QED
      BY <1>1, <1>2, <3>1, <3>3 DEF SessionsTypeOK
  <2>3. rows' \in [Tokens -> Row \cup {None}]
    BY <1>1, <1>2 DEF SessionsTypeOK
  <2>4. req' \in [Tabs -> Requests \cup {Idle}]
    BY <1>1, <1>2 DEF SessionsTypeOK
  <2> QED
    BY <1>1, <1>2, <2>1, <2>2, <2>3, <2>4 DEF SessionsTypeOK
<1>8. RequestsFit'
  BY <1>3 DEF IInv, RequestsFit, Presents
<1>9. \A c \in Browsers : jar'[c].refresh # None =>
          /\ jar'[c].refresh \in Tokens
          /\ HeldBy(jar'[c].refresh, c)
          /\ rows'[jar'[c].refresh] = rows[jar'[c].refresh]
  <2>1. \A c \in Browsers : jar'[c].refresh # None => jar'[c].refresh \in Tokens
    BY <1>7 DEF SessionsTypeOK, Jar
  <2>2. \A c \in Browsers : jar'[c].refresh # None => HeldBy(jar'[c].refresh, c)
    BY <1>1, <1>2, <1>4, <2>1 DEF IInv, NamesHaveRows
  <2> QED
    BY <1>5, <1>6, <2>1, <2>2
<1>10. NamesHaveRows'
  <2>1. \A c \in Browsers : jar'[c].refresh # None => HeldBy(jar[c].refresh, c)'
    BY <1>9 DEF HeldBy
  <2>2. \A u \in Tabs : IsPending(u)' /\ req'[u].jar.refresh # None
                          => HeldBy(req[u].jar.refresh, BrowserOf(u))'
    BY <1>2, <1>3, <1>5, <1>6, Shapes, PendingFields DEF IInv, NamesHaveRows, HeldBy
  <2>3. \A u \in Tabs : IsAnswered(u)' /\ req'[u].set.refresh \in Tokens
                          => HeldBy(req[u].set.refresh, BrowserOf(u))'
    BY <1>3, <1>5, <1>6 DEF IInv, NamesHaveRows, HeldBy
  <2> QED
    BY <2>1, <2>2, <2>3 DEF NamesHaveRows
<1>11. FreshIsAlone'
  <2> SUFFICES ASSUME NEW u \in Tabs, IsAnswered(u)', req'[u].set.refresh \in Tokens
               PROVE  /\ \A c \in Browsers : jar'[c].refresh # req'[u].set.refresh
                      /\ \A v \in Tabs : IsPending(v)' => req'[v].jar.refresh # req'[u].set.refresh
                      /\ \A v \in Tabs : IsAnswered(v)' /\ req'[v].set.refresh = req'[u].set.refresh
                                            => v = u
                      /\ Quiet' => rows'[req'[u].set.refresh].state = "live"
    BY DEF FreshIsAlone
  <2>1. u # t /\ req'[u] = req[u] /\ IsAnswered(u)
    BY <1>3
  <2>2. /\ \A c \in Browsers : jar[c].refresh # req[u].set.refresh
        /\ \A v \in Tabs : IsPending(v) => req[v].jar.refresh # req[u].set.refresh
        /\ \A v \in Tabs : IsAnswered(v) /\ req[v].set.refresh = req[u].set.refresh => v = u
        /\ Quiet => rows[req[u].set.refresh].state = "live"
    BY <2>1 DEF IInv, FreshIsAlone
  <2>3. \A c \in Browsers : jar'[c].refresh # req[u].set.refresh
    BY <1>1, <1>4, <2>1, <2>2
  <2>4. rows'[req[u].set.refresh] = rows[req[u].set.refresh]
    BY <1>5, <1>6, <2>1
  <2> QED
    BY <1>3, <2>1, <2>2, <2>3, <2>4
<1>12. SpentIsReplaced'
  <2> SUFFICES ASSUME NEW c \in Browsers, Quiet', jar'[c].refresh # None,
                      rows'[jar'[c].refresh].state # "live"
               PROVE  \E u \in Tabs : /\ BrowserOf(u) = c /\ IsAnswered(u)'
                                      /\ req'[u].set.refresh # Keep /\ req'[u].presented
    BY DEF SpentIsReplaced
  <2>1. rows[jar'[c].refresh].state # "live"
    BY <1>9
  <2>2. jar'[c].refresh = jar[c].refresh
    BY <1>1, <1>3, <1>4, <1>9, <2>1, SMTT(60) DEF IInv, FreshIsAlone
  <2>3. PICK u \in Tabs : /\ BrowserOf(u) = c /\ IsAnswered(u)
                          /\ req[u].set.refresh # Keep /\ req[u].presented
    BY <1>3, <2>1, <2>2 DEF IInv, SpentIsReplaced
  <2>4. u # t
    \* The cookie would hold what t has brought, and that is live.
    <3>1. SUFFICES ASSUME u = t PROVE FALSE
      OBVIOUS
    <3>2. jar'[b].refresh = set.refresh /\ c = b
      BY <1>4, <2>3, <3>1
    <3>3. set.refresh \in Tokens
      BY <1>9, <3>2
    <3> QED
      BY <1>1, <1>3, <2>1, <3>2, <3>3 DEF IInv, FreshIsAlone
  <2> QED
    BY <1>3, <2>3, <2>4
<1>13. OnePresents'
  <2> SUFFICES ASSUME excuse' = {} PROVE OnePresents'
    BY DEF OnePresents
  <2>1. ASSUME NEW u \in Tabs, IsPending(u)', Presents(req[u].kind, req[u].jar)'
        PROVE  (rows[req[u].jar.refresh].state = "live")'
    <3>1. u # t /\ req'[u] = req[u] /\ IsPending(u) /\ Presents(req[u].kind, req[u].jar)
      BY <1>3, <2>1 DEF Presents
    <3>2. rows[req[u].jar.refresh].state = "live"
      BY <1>1, <3>1 DEF IInv, OnePresents
    <3>3. req[u].jar.refresh \in Tokens
      BY <1>2, <3>1, Shapes, PendingFields DEF Presents
    <3> QED
      BY <1>5, <1>6, <3>1, <3>2, <3>3
  <2>2. ASSUME NEW u \in Tabs, NEW v \in Tabs,
               Presenting(u)', Presenting(v)', BrowserOf(u) = BrowserOf(v)
        PROVE  u = v
    BY <1>1, <1>3, <2>2 DEF IInv, OnePresents
  <2> QED
    BY <2>1, <2>2 DEF OnePresents
<1>14. ReuseHasACause'
  BY <1>1 DEF IInv, ReuseHasACause
<1>15. AllHonest'
  <2>1. /\ \A c \in Browsers : Honest(jar[c].access)
        /\ Honest(set.access) /\ Honest(body.token)
        /\ \A u \in Tabs : Honest(tab[u].token)
    BY <1>1 DEF IInv, AllHonest
  <2>2. \A c \in Browsers : Honest(jar'[c].access)
    BY <1>4, <2>1
  <2>3. \A u \in Tabs : Honest(tab'[u].token)
    <3>1. tab'[t].token \in {None, tab[t].token, body.token}
      BY <1>1, <1>2 DEF SessionsTypeOK, Tab, Fresh
    <3>2. \A u \in Tabs \ {t} : tab'[u] = tab[u]
      BY <1>1, <1>2 DEF SessionsTypeOK
    <3> QED
      BY <2>1, <3>1, <3>2, HonestSettings
  <2>4. \A u \in Tabs : /\ IsPending(u)' => Honest(req'[u].jar.access)
                        /\ IsAnswered(u)' => /\ Honest(req'[u].set.access)
                                             /\ Honest(req'[u].body.token)
    BY <1>3 DEF IInv, AllHonest
  <2> QED
    BY <2>2, <2>3, <2>4 DEF AllHonest, Honest
<1> QED
  BY <1>7, <1>8, <1>10, <1>11, <1>12, <1>13, <1>14, <1>15 DEF IInv

LEMMA AccessCookieExpiresKeeps ==
  ASSUME IInv, NEW b \in Browsers, AccessCookieExpires(b) PROVE IInv'
<1>1. /\ jar' = [jar EXCEPT ![b].access = None]
      /\ UNCHANGED <<rows, tab, req, faults, taken, excuse>>
  BY DEF AccessCookieExpires
<1>2. SessionsTypeOK /\ jar[b] \in Jar
  BY DEF IInv, SessionsTypeOK
<1>3. [jar[b] EXCEPT !.access = None] \in Jar
  BY <1>2 DEF Jar
<1>4. /\ \A c \in Browsers : jar'[c].refresh = jar[c].refresh
      /\ \A c \in Browsers : jar'[c].access \in {None, jar[c].access}
  BY <1>1, <1>2 DEF SessionsTypeOK, Jar
<1>5. SessionsTypeOK'
  BY <1>1, <1>2, <1>3 DEF SessionsTypeOK
<1>6. RequestsFit' /\ ReuseHasACause'
  BY <1>1 DEF IInv, RequestsFit, ReuseHasACause, IsPending, Presents
<1>7. NamesHaveRows' /\ FreshIsAlone'
  BY <1>1, <1>4 DEF IInv, NamesHaveRows, HeldBy, FreshIsAlone, IsPending, IsAnswered, Quiet
<1>8. SpentIsReplaced' /\ OnePresents'
  BY <1>1, <1>4
  DEF IInv, SpentIsReplaced, OnePresents, IsPending, IsAnswered, Quiet, Presenting, Presents
<1>9. AllHonest'
  BY <1>1, <1>4, HonestSettings DEF IInv, AllHonest, Honest, IsPending, IsAnswered
<1> QED
  BY <1>5, <1>6, <1>7, <1>8, <1>9 DEF IInv

LEMMA PasswordChangedKeeps ==
  ASSUME IInv, NEW u \in Users, PasswordChanged(u) PROVE IInv'
<1>1. /\ RevokeAll(u) /\ faults < MaxFaults /\ faults' = faults + 1
      /\ excuse' = excuse \cup {"reset"} /\ UNCHANGED <<jar, tab, req, taken>>
  BY DEF PasswordChanged
<1>2. ~Quiet' /\ excuse' # {}
  BY <1>1 DEF Quiet
<1>3. /\ rows' \in [Tokens -> Row \cup {None}]
      /\ \A k \in Tokens : rows[k] \in Row =>
             rows'[k] \in Row /\ rows'[k].browser = rows[k].browser
  BY <1>1, RevokeAllKeeps DEF IInv
<1>4. SessionsTypeOK'
  <2>1. MaxFaults \in Nat
    BY SessionsAssumption
  <2>2. faults' \in 0 .. MaxFaults
    BY <1>1, <2>1 DEF IInv, SessionsTypeOK
  <2> QED
    BY <1>1, <1>3, <2>2 DEF IInv, SessionsTypeOK
<1>5. RequestsFit' /\ AllHonest'
  BY <1>1 DEF IInv, RequestsFit, AllHonest, Honest, IsPending, IsAnswered, Presents
<1>6. NamesHaveRows'
  <2>1. /\ \A b \in Browsers : jar[b].refresh \in Tokens \cup {None}
        /\ \A t \in Tabs : IsPending(t) => req[t].jar.refresh \in Tokens \cup {None}
    BY Shapes, PendingFields DEF IInv, SessionsTypeOK, Jar
  <2> QED
    BY <1>1, <1>3, <2>1 DEF IInv, NamesHaveRows, HeldBy, IsPending, IsAnswered
<1>7. FreshIsAlone'
  BY <1>1, <1>2 DEF IInv, FreshIsAlone, IsPending, IsAnswered
<1>8. SpentIsReplaced' /\ OnePresents' /\ ReuseHasACause'
  BY <1>2 DEF SpentIsReplaced, OnePresents, ReuseHasACause
<1> QED
  BY <1>4, <1>5, <1>6, <1>7, <1>8 DEF IInv

\* A tab that forgets its token, or learns that it works.
LEMMA TabStepKeeps ==
  ASSUME IInv, NEW t \in Tabs, LoadAnew(t) \/ PollSucceeds(t) PROVE IInv'
<1>1. /\ UNCHANGED <<rows, jar, req, faults, taken, excuse>>
      /\ tab' \in {[tab EXCEPT ![t] = Fresh], [tab EXCEPT ![t].wasLive = TRUE]}
  BY DEF LoadAnew, PollSucceeds
<1>2. tab \in [Tabs -> Tab] /\ Fresh \in Tab /\ [tab[t] EXCEPT !.wasLive = TRUE] \in Tab
  BY DEF IInv, SessionsTypeOK, Tab, Fresh
<1>3. tab' \in [Tabs -> Tab] /\ \A u \in Tabs : tab'[u].token \in {None, tab[u].token}
  <2>1. CASE tab' = [tab EXCEPT ![t] = Fresh]
    BY <1>2, <2>1 DEF Fresh
  <2>2. CASE tab' = [tab EXCEPT ![t].wasLive = TRUE]
    <3>1. tab' = [tab EXCEPT ![t] = [tab[t] EXCEPT !.wasLive = TRUE]]
      BY <1>2, <2>2
    <3>2. [tab[t] EXCEPT !.wasLive = TRUE].token = tab[t].token
      BY <1>2 DEF Tab
    <3> QED
      BY <1>2, <3>1, <3>2
  <2> QED
    BY <1>1, <2>1, <2>2
<1>4. SessionsTypeOK'
  BY <1>1, <1>3 DEF IInv, SessionsTypeOK
<1>5. RequestsFit' /\ NamesHaveRows' /\ FreshIsAlone' /\ ReuseHasACause'
  BY <1>1 DEF IInv, RequestsFit, NamesHaveRows, HeldBy, FreshIsAlone, ReuseHasACause,
     IsPending, IsAnswered, Presents, Quiet
<1>6. SpentIsReplaced' /\ OnePresents'
  BY <1>1 DEF IInv, SpentIsReplaced, OnePresents, IsPending, IsAnswered, Quiet,
     Presenting, Presents
<1>7. AllHonest'
  BY <1>1, <1>3, HonestSettings DEF IInv, AllHonest, Honest, IsPending, IsAnswered
<1> QED
  BY <1>4, <1>5, <1>6, <1>7 DEF IInv

LEMMA NextIInv == IInv /\ [Next]_vars => IInv'
<1> SUFFICES ASSUME IInv, [Next]_vars PROVE IInv'
  OBVIOUS
<1>1. ASSUME NEW t \in Tabs, Reload(t) \/ PollSucceeds(t) \/ PollSignedOut(t) PROVE IInv'
  BY <1>1, TabStepKeeps DEF Reload, PollSignedOut
<1>2. ASSUME NEW t \in Tabs,
             Hydrate(t) \/ PollExpired(t) \/ SignOut(t) \/ ExitImpersonation(t)
      PROVE  IInv'
  <2>1. PICK kind \in {"session", "refresh", "logout", "exit"} : Send(t, kind, None)
    BY <1>2 DEF Hydrate, PollExpired, SignOut, ExitImpersonation
  <2> QED
    BY <2>1, SendKeeps DEF Kinds
<1>3. ASSUME NEW t \in Tabs, NEW u \in Users, SignIn(t, u) PROVE IInv'
  BY <1>3, SendKeeps DEF SignIn, Kinds
<1>4. ASSUME NEW t \in Tabs, NEW f \in Firms, StartImpersonation(t, f) PROVE IInv'
  BY <1>4, SendKeeps DEF StartImpersonation, Kinds
<1>5. ASSUME NEW t \in Tabs, Route(t) PROVE IInv'
  BY <1>5, AnswerFromCookieKeeps, NothingToRefreshKeeps, FindRowKeeps, DetectReuseKeeps,
     RotateKeeps, EnterKeeps, LoginKeeps, LogoutKeeps, DeliverKeeps DEF Route
<1>6. ASSUME NEW t \in Tabs, Refuse(t) \/ LoseAnswer(t) PROVE IInv'
  BY <1>6, RefuseKeeps, LoseAnswerKeeps
<1>7. ASSUME NEW b \in Browsers, AccessCookieExpires(b) PROVE IInv'
  BY <1>7, AccessCookieExpiresKeeps
<1>8. ASSUME NEW u \in Users, PasswordChanged(u) PROVE IInv'
  BY <1>8, PasswordChangedKeeps
<1>9. ASSUME UNCHANGED vars PROVE IInv'
  BY <1>9 DEF vars, IInv, SessionsTypeOK, RequestsFit, NamesHaveRows, HeldBy, FreshIsAlone,
     SpentIsReplaced, OnePresents, ReuseHasACause, AllHonest, Honest, IsPending, IsAnswered,
     Presents, Presenting, Quiet
<1> QED
  BY <1>1, <1>2, <1>3, <1>4, <1>5, <1>6, <1>7, <1>8, <1>9 DEF Next

----------------------------------------------------------------------------
THEOREM InvariantHolds == Spec => []IInv
  BY InitIInv, NextIInv, PTL DEF Spec

\* Every variable keeps its type: a request carries what its kind needs, a row
\* has a user and one of the three states of auth_refresh_tokens.
THEOREM SessionsTypeCorrect == Spec => []SessionsTypeOK
<1>1. IInv => SessionsTypeOK
  BY DEF IInv
<1> QED
  BY <1>1, InvariantHolds, PTL

\* Whatever marker a browser holds and however requests interleave, only a
\* super-admin's token names a firm (impersonate in admin.py).
THEOREM OnlySuperadminsEnter == Spec => []OnlySuperadminsAct
<1>1. IInv => OnlySuperadminsAct
  BY DEF IInv, AllHonest, OnlySuperadminsAct, Honest, At, IsAnswered
<1> QED
  BY <1>1, InvariantHolds, PTL

\* A refresh token is taken for a stolen one only after overlapping requests,
\* a lost answer or a revocation (refresh in local_auth.py).
THEOREM TakenForACause == Spec => []ReuseHasACause
<1>1. IInv => ReuseHasACause
  BY DEF IInv
<1> QED
  BY <1>1, InvariantHolds, PTL

\* However many requests overlap, a browser whose refresh token is spent has an
\* answer on the way that replaces or removes it.
THEOREM ReplacementIsComing == Spec => []SpentCookieIsReplaced
<1>1. IInv => SpentCookieIsReplaced
  BY DEF IInv, SpentIsReplaced, SpentCookieIsReplaced, Quiet, At, IsAnswered, SessionsTypeOK,
     Requests
<1> QED
  BY <1>1, InvariantHolds, PTL
=============================================================================
