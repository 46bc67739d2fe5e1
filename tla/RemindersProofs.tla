-------------------------- MODULE RemindersProofs --------------------------
(***************************************************************************)
(* Reminders, for any firms, deadlines, ladders and sweepers: a reminder   *)
(* is mailed once, a sweep of all firms that commits has stored all that   *)
(* was due, and days only tighten the rung a deadline is on.               *)
(***************************************************************************)
EXTENDS Reminders, TLAPS

Created(s) == IF Running(s) THEN sweep[s].created ELSE {}
Mailing(s) == IF At(s, "mail") THEN sweep[s].keys ELSE {}

\* No two transactions hold the same key, and what one holds is in no committed
\* row and of no deleted deadline.
HeldIsNew ==
    /\ \A s, u \in Sweepers : s # u => Created(s) \cap Created(u) = {}
    /\ \A s \in Sweepers : /\ Mailing(s) \subseteq Created(s)
                           /\ \A k \in Created(s) : rows[k] = "none" /\ state[k[1]] # "gone"

\* A reminder that was mailed is stored, or its sweep holds it and is past
\* mailing it, or its deadline is deleted.
MailedIsKept ==
    \A k \in Keys :
        mails[k] # 0 /\ k \notin excused
            => \/ rows[k] # "none"
               \/ \E s \in Sweepers : k \in Created(s) \ Mailing(s)
               \/ state[k[1]] = "gone"

\* A sweep of all firms that has begun today holds, or has yet to come to, whatever
\* needs a reminder and has not been touched today.
HasAll(s) ==
    /\ KindOf(s) # "firm"
    /\ Running(s) /\ sweep[s].stage # "broken" =>
         \A k \in Keys :
            NeedsReminder(k) /\ k[1] \notin touched
                => \/ FirmOf(k[1]) \in sweep[s].left \/ k \in sweep[s].created
                   \/ (sweep[s].stage = "planned" /\ k \in sweep[s].keys)

SweptHasAll == \A s \in swept : HasAll(s)

IInv == /\ RemindersTypeOK /\ HeldIsNew /\ MailedIsKept /\ MailedOnce
        /\ SweptHasAll /\ CrossedIsStored

LEMMA InitIInv == Init => IInv
<1> SUFFICES ASSUME Init PROVE IInv
  OBVIOUS
<1>1. complete \in BOOLEAN /\ complete = FALSE /\ swept = {} /\ touched = {}
  BY DEF Init
<1>2. RemindersTypeOK
  BY <1>1, RemindersAssumption DEF Init, RemindersTypeOK, DeadlineStates, RowStates, Keys
<1>3. HeldIsNew /\ MailedIsKept /\ MailedOnce
  BY DEF Init, HeldIsNew, MailedIsKept, MailedOnce, Created, Mailing, Running, At
<1>4. SweptHasAll /\ CrossedIsStored
  BY <1>1 DEF SweptHasAll, CrossedIsStored
<1>5. QED
  BY <1>2, <1>3, <1>4 DEF IInv

\* What a step of one sweep does to what it holds and has to mail.
LEMMA OneSweepMoves ==
    ASSUME RemindersTypeOK, NEW s \in Sweepers, NEW r,
           sweep' = [sweep EXCEPT ![s] = r]
    PROVE  /\ \A u \in Sweepers \ {s} : Created(u)' = Created(u) /\ Mailing(u)' = Mailing(u)
           /\ r = Idle => Created(s)' = {} /\ Mailing(s)' = {}
           /\ r # Idle => /\ Created(s)' = r.created
                          /\ Mailing(s)' = IF r.stage = "mail" THEN r.keys ELSE {}
  BY DEF RemindersTypeOK, Created, Mailing, Running, At

\* A step that touches no sweep leaves what each of them holds.
LEMMA SweepsStay == ASSUME UNCHANGED sweep
                    PROVE  \A u \in Sweepers : Created(u)' = Created(u) /\ Mailing(u)' = Mailing(u)
  BY DEF Created, Mailing, Running, At

\* Every step of a sweep leaves the others alone.
Others(s) == \A u \in Sweepers \ {s} : Created(u)' = Created(u) /\ Mailing(u)' = Mailing(u)

\* What one step of a sweep does to what it has inserted and has to mail.
LEMMA StartHolds ==
    ASSUME RemindersTypeOK, NEW s \in Sweepers, Start(s)
    PROVE  Created(s) = {} /\ Created(s)' = {} /\ Mailing(s)' = {} /\ Others(s)
<1>1. Created(s) = {} /\ Mailing(s) = {}
  BY DEF Start, Created, Mailing, At
<1>2. CASE UNCHANGED sweep
  BY <1>1, <1>2, SweepsStay DEF Others
<1>3. CASE ~UNCHANGED sweep
  <2>1. PICK firms \in SUBSET Firms :
          sweep' = [sweep EXCEPT ![s] = [stage |-> "next", left |-> firms,
                                         keys |-> {}, created |-> {}]]
    BY <1>3 DEF Start
  <2>2. PICK r : r = [stage |-> "next", left |-> firms, keys |-> {}, created |-> {}]
    OBVIOUS
  <2>3. r # Idle /\ r.stage = "next" /\ r.created = {}
    BY <2>2, IdleAssumption DEF Sweep
  <2>4. Others(s)
    BY <2>1, <2>2, OneSweepMoves DEF Others
  <2>5. Created(s)' = {} /\ Mailing(s)' = {}
    BY <2>1, <2>2, <2>3, OneSweepMoves
  <2>6. QED
    BY <1>1, <2>4, <2>5
<1>4. QED
  BY <1>2, <1>3

LEMMA NextFirmHolds ==
    ASSUME RemindersTypeOK, NEW s \in Sweepers, NextFirm(s)
    PROVE  /\ Created(s)' = Created(s) /\ Mailing(s) = {} /\ Mailing(s)' = {}
           /\ Others(s)
<1>1. PICK r \in Sweep : /\ r.stage # "mail" /\ r.created = sweep[s].created
                         /\ sweep' = [sweep EXCEPT ![s] = r]
  BY DEF NextFirm, At, Running, RemindersTypeOK, Sweep, Planned
<1>2. Others(s)
  BY <1>1, OneSweepMoves DEF Others
<1>3. Created(s)' = r.created /\ Mailing(s)' = {}
  BY <1>1, OneSweepMoves, IdleAssumption
<1>4. QED
  BY <1>1, <1>2, <1>3 DEF NextFirm, At, Created, Mailing

LEMMA PersistHolds ==
    ASSUME RemindersTypeOK, NEW s \in Sweepers, Persist(s)
    PROVE  /\ Created(s)' = Created(s) \cup New(s) /\ Created(s) \cap New(s) = {}
           /\ Mailing(s) = {} /\ Mailing(s)' = New(s)
           /\ Others(s)
<1>1. sweep[s] \in Sweep /\ New(s) \subseteq Keys
  BY DEF Persist, CanInsert, At, Running, New, RemindersTypeOK, Sweep
<1>2. PICK stage \in {"next", "mail"} :
        /\ stage = "next" <=> New(s) = {}
        /\ sweep' = [sweep EXCEPT ![s] = [stage |-> stage, left |-> sweep[s].left,
                                          keys |-> New(s),
                                          created |-> sweep[s].created \cup New(s)]]
  BY DEF Persist
<1>3. PICK r : r = [stage |-> stage, left |-> sweep[s].left, keys |-> New(s),
                    created |-> sweep[s].created \cup New(s)]
  OBVIOUS
<1>4. r \in Sweep /\ sweep' = [sweep EXCEPT ![s] = r]
  BY <1>1, <1>2, <1>3 DEF Sweep
<1>5. /\ Created(s) = sweep[s].created /\ Mailing(s) = {} /\ r # Idle
      /\ New(s) \cap sweep[s].created = {}
  BY <1>4, IdleAssumption DEF Persist, CanInsert, At, Created, Mailing, New
<1>6. Others(s)
  BY <1>4, OneSweepMoves DEF Others
<1>7. Created(s)' = r.created /\ Mailing(s)' = IF r.stage = "mail" THEN r.keys ELSE {}
  BY <1>4, <1>5, OneSweepMoves
<1>8. QED
  BY <1>2, <1>3, <1>5, <1>6, <1>7

LEMMA MailHolds ==
    ASSUME RemindersTypeOK, NEW s \in Sweepers, Mail(s)
    PROVE  /\ Created(s)' = Created(s) /\ Mailing(s) = sweep[s].keys /\ Mailing(s)' = {}
           /\ Others(s)
<1>1. PICK r \in Sweep : /\ r.stage = "next" /\ r.created = sweep[s].created
                         /\ sweep' = [sweep EXCEPT ![s] = r]
  BY DEF Mail, At, Running, RemindersTypeOK, Sweep
<1>2. Others(s)
  BY <1>1, OneSweepMoves DEF Others
<1>3. Created(s)' = r.created /\ Mailing(s)' = {}
  BY <1>1, OneSweepMoves, IdleAssumption
<1>4. QED
  BY <1>1, <1>2, <1>3 DEF Mail, At, Created, Mailing

LEMMA EndHolds ==
    ASSUME RemindersTypeOK, NEW s \in Sweepers, Commit(s) \/ Undo(s)
    PROVE  Created(s)' = {} /\ Mailing(s)' = {} /\ Others(s)
  BY OneSweepMoves DEF Commit, Undo, RolledBack, Others

LEMMA NextTypeOK == IInv /\ [Next]_vars => RemindersTypeOK'
<1> SUFFICES ASSUME IInv, [Next]_vars PROVE RemindersTypeOK'
  OBVIOUS
<1>B. MaxDay \in Nat /\ MaxActs \in Nat
  BY RemindersAssumption
<1> USE <1>B DEF IInv, RemindersTypeOK, DeadlineStates, RowStates, Keys
<1>0. CASE UNCHANGED vars
  BY <1>0 DEF vars, history
<1>1. CASE Tomorrow
  <2>1. complete' = FALSE
    BY <1>1 DEF Tomorrow
  <2>2. complete' \in BOOLEAN
    BY <2>1
  <2>3. QED
    BY <1>1, <2>2 DEF Tomorrow
<1>2. ASSUME NEW s \in Sweepers, Start(s) \/ Restart(s) \/ NextFirm(s)
      PROVE  RemindersTypeOK'
  BY <1>2 DEF Start, Restart, NextFirm, Planned, Sweep, At, Running, Act, history
<1>3. ASSUME NEW s \in Sweepers, Persist(s) \/ Mail(s) PROVE RemindersTypeOK'
  BY <1>3 DEF Persist, Mail, New, CanInsert, Sweep, At, Running, More, history
<1>4. ASSUME NEW s \in Sweepers, Commit(s) PROVE RemindersTypeOK'
  BY <1>4 DEF Commit, At, Running, HeldIsNew, Created, Sweep
<1>5. ASSUME NEW s \in Sweepers, FirmFails(s) \/ Aborted(s) \/ Fails(s) PROVE RemindersTypeOK'
  <2>1. Running(s) /\ Undo(s) /\ acts' \in 0 .. MaxActs
    BY <1>5 DEF FirmFails, Aborted, Fails, Act, CanInsert, At, Deadlocked, Waits
  <2>2. QED
    BY <2>1 DEF Undo, RolledBack, Running, Sweep
<1>6. ASSUME NEW k \in Keys, Done(k) \/ DeleteReminder(k) PROVE RemindersTypeOK'
  <2>1. CASE Done(k)
    BY <2>1 DEF Done, Act, history
  <2>2. CASE DeleteReminder(k)
    BY <2>2 DEF DeleteReminder, Act
  <2>3. QED
    BY <1>6, <2>1, <2>2
<1>7. ASSUME NEW k \in Keys, NEW status \in RowStates, Settle(k, status) PROVE RemindersTypeOK'
  BY <1>7 DEF Settle, Act, history
<1>8. ASSUME NEW i \in Items, NEW status \in DeadlineStates, SetDeadline(i, status)
      PROVE  RemindersTypeOK'
  BY <1>8 DEF SetDeadline, Act
<1>9. ASSUME NEW i \in Items, SnoozeDeadline(i) \/ MoveDeadline(i) \/ DeleteDeadline(i)
      PROVE  RemindersTypeOK'
  BY <1>9 DEF SnoozeDeadline, MoveDeadline, DeleteDeadline, Act, history
<1> HIDE DEF IInv, RemindersTypeOK, Keys
<1>10. QED
  BY <1>0, <1>1, <1>2, <1>3, <1>4, <1>5, <1>6, <1>7, <1>8, <1>9 DEF Next, Proceed

\* What a sweep has inserted and not committed, nobody else has stored or inserted.
LEMMA NextHeldIsNew == IInv /\ [Next]_vars => HeldIsNew'
<1> SUFFICES ASSUME IInv, [Next]_vars PROVE HeldIsNew'
  OBVIOUS
<1>T. RemindersTypeOK /\ HeldIsNew
  BY DEF IInv
<1>1. CASE UNCHANGED sweep /\ (\A k \in Keys : /\ rows[k] = "none" => rows'[k] = "none"
                                               /\ state'[k[1]] = "gone" => state[k[1]] = "gone")
  <2>1. \A s \in Sweepers : Created(s) \subseteq Keys
    BY <1>T DEF RemindersTypeOK, Created, Sweep, Running
  <2>2. QED
    BY <1>1, <1>T, <2>1, SweepsStay DEF HeldIsNew
<1>2. CASE Tomorrow \/ (\E s \in Sweepers : Restart(s)) \/ UNCHANGED vars
  BY <1>1, <1>2 DEF Tomorrow, Restart, vars
<1>3. ASSUME NEW s \in Sweepers, Start(s) \/ NextFirm(s) \/ Mail(s) PROVE HeldIsNew'
  <2>1. /\ Created(s)' \subseteq Created(s) /\ Mailing(s)' = {} /\ Others(s)
        /\ UNCHANGED <<rows, state>>
    BY <1>3, <1>T, StartHolds, NextFirmHolds, MailHolds DEF Start, NextFirm, Mail
  <2>2. QED
    BY <2>1, <1>T DEF HeldIsNew, Others
<1>4. ASSUME NEW s \in Sweepers, Persist(s) PROVE HeldIsNew'
  <2>1. \A k \in New(s) : rows[k] = "none" /\ state[k[1]] # "gone"
    BY <1>4 DEF Persist, Orphans, New
  <2>2. \A u \in Sweepers \ {s} : New(s) \cap Created(u) = {}
    BY <1>4 DEF Persist, CanInsert, Waits, New, Created
  <2>3. QED
    BY <1>4, <2>1, <2>2, <1>T, PersistHolds DEF Persist, HeldIsNew, Others
<1>5. ASSUME NEW s \in Sweepers, Commit(s) PROVE HeldIsNew'
  <2>1. \A u \in Sweepers \ {s} : Created(u) \subseteq Keys /\ Created(u) \cap sweep[s].created = {}
    BY <1>5, <1>T DEF Commit, At, HeldIsNew, Created, RemindersTypeOK, Sweep, Running
  <2>2. Created(s)' = {} /\ Mailing(s)' = {} /\ Others(s)
    BY <1>5, <1>T, EndHolds
  <2>3. /\ UNCHANGED state
        /\ \A u \in Sweepers \ {s} : \A k \in Created(u) : rows'[k] = rows[k]
    BY <1>5, <2>1 DEF Commit
  <2>4. QED
    BY <2>2, <2>3, <1>T DEF HeldIsNew, Others
<1>6. ASSUME NEW s \in Sweepers, Undo(s) PROVE HeldIsNew'
  <2>1. Created(s)' = {} /\ Mailing(s)' = {} /\ Others(s)
    BY <1>6, <1>T, EndHolds
  <2>2. QED
    BY <1>6, <2>1, <1>T DEF Undo, HeldIsNew, Others
<1>7. ASSUME NEW k \in Keys,
             Done(k) \/ DeleteReminder(k) \/ \E status \in RowStates : Settle(k, status)
      PROVE  HeldIsNew'
  BY <1>7, <1>1, <1>T DEF Done, Settle, DeleteReminder, RemindersTypeOK, Keys
<1>8. ASSUME NEW i \in Items,
             \/ SnoozeDeadline(i) \/ MoveDeadline(i)
             \/ \E status \in DeadlineStates : SetDeadline(i, status)
      PROVE  HeldIsNew'
  BY <1>8, <1>1, <1>T DEF SetDeadline, SnoozeDeadline, MoveDeadline, RemindersTypeOK, Keys
<1>9. ASSUME NEW i \in Items, DeleteDeadline(i) PROVE HeldIsNew'
  <2>1. \A s \in Sweepers : Created(s) \subseteq Keys /\ \A k \in Created(s) : k[1] # i
    BY <1>9, <1>T DEF DeleteDeadline, RemindersTypeOK, Created, Sweep, Running
  <2>2. QED
    BY <1>9, <2>1, <1>T, SweepsStay DEF DeleteDeadline, HeldIsNew, RemindersTypeOK, Keys
<1>10. ASSUME NEW s \in Sweepers, Proceed(s) \/ Fails(s) PROVE HeldIsNew'
  BY <1>3, <1>4, <1>5, <1>6, <1>10 DEF Proceed, FirmFails, Aborted, Fails
<1>11. QED
  BY <1>2, <1>3, <1>7, <1>8, <1>9, <1>10 DEF Next

\* What was mailed is held or stored, or its sweep was undone or its row deleted.
LEMMA NextMails == IInv /\ [Next]_vars => MailedIsKept' /\ MailedOnce'
<1> SUFFICES ASSUME IInv, [Next]_vars PROVE MailedIsKept' /\ MailedOnce'
  OBVIOUS
<1>T. RemindersTypeOK /\ HeldIsNew /\ MailedIsKept /\ MailedOnce
  BY DEF IInv
<1>1. CASE /\ \A u \in Sweepers : Created(u) \ Mailing(u) \subseteq Created(u)' \ Mailing(u)'
           /\ mails' = mails /\ excused \subseteq excused'
           /\ \A k \in Keys \ excused' : \/ rows[k] # "none" => rows'[k] # "none"
                                        \/ state'[k[1]] = "gone"
           /\ \A k \in Keys : state[k[1]] = "gone" => state'[k[1]] = "gone"
  BY <1>1, <1>T DEF MailedIsKept, MailedOnce
<1>2. CASE Tomorrow \/ (\E s \in Sweepers : Restart(s)) \/ UNCHANGED vars
  BY <1>1, <1>2, SweepsStay DEF Tomorrow, Restart, vars, history
<1>3. ASSUME NEW k \in Keys,
             Done(k) \/ DeleteReminder(k) \/ \E status \in RowStates : Settle(k, status)
      PROVE  MailedIsKept' /\ MailedOnce'
  BY <1>3, <1>1, <1>T, SweepsStay
     DEF Done, Settle, DeleteReminder, RemindersTypeOK, Keys, history
<1>4. ASSUME NEW i \in Items,
             \/ SnoozeDeadline(i) \/ MoveDeadline(i) \/ DeleteDeadline(i)
             \/ \E status \in DeadlineStates : SetDeadline(i, status)
      PROVE  MailedIsKept' /\ MailedOnce'
  BY <1>4, <1>1, <1>T, SweepsStay
     DEF SetDeadline, SnoozeDeadline, MoveDeadline, DeleteDeadline, RemindersTypeOK, Keys,
         history
<1>5. ASSUME NEW s \in Sweepers, Start(s) \/ NextFirm(s) PROVE MailedIsKept' /\ MailedOnce'
  BY <1>5, <1>1, <1>T, StartHolds, NextFirmHolds DEF Start, NextFirm, Others, history
<1>6. ASSUME NEW s \in Sweepers, Persist(s) PROVE MailedIsKept' /\ MailedOnce'
  BY <1>6, <1>1, <1>T, PersistHolds DEF Persist, Others, history
<1>7. ASSUME NEW s \in Sweepers, Mail(s) PROVE MailedIsKept' /\ MailedOnce'
  <2>1. Mailing(s) \subseteq Keys
    BY <1>7, <1>T DEF Mail, At, RemindersTypeOK, Mailing, Sweep, Running
  <2>2. \A k \in Mailing(s) \ excused : mails[k] = 0 /\ mails'[k] = 1
    <3>1. TAKE k \in Mailing(s) \ excused
    <3>2. /\ rows[k] = "none" /\ state[k[1]] # "gone"
          /\ \A u \in Sweepers : k \notin Created(u) \ Mailing(u)
      BY <1>T DEF HeldIsNew
    <3>3. mails[k] = 0
      BY <2>1, <3>2, <1>T DEF MailedIsKept
    <3>4. QED
      BY <1>7, <1>T, <2>1, <3>3, MailHolds DEF Mail, More, RemindersTypeOK
  <2>3. \A k \in Keys \ Mailing(s) : mails'[k] = mails[k]
    BY <1>7, <1>T, MailHolds DEF Mail, RemindersTypeOK
  <2>4. UNCHANGED <<rows, state, excused>> /\ Mailing(s) \subseteq Created(s)
    BY <1>7, <1>T DEF Mail, HeldIsNew, history
  <2>5. MailedOnce'
    BY <2>2, <2>3, <2>4, <1>T DEF MailedOnce
  <2>6. MailedIsKept'
    BY <1>7, <1>T, <2>2, <2>3, <2>4, MailHolds DEF MailedIsKept, Others
  <2>7. QED
    BY <2>5, <2>6
<1>8. ASSUME NEW s \in Sweepers, Commit(s) PROVE MailedIsKept' /\ MailedOnce'
  <2>1. \A k \in Keys : /\ k \in Created(s) => rows'[k] = "live"
                        /\ k \notin Created(s) => rows'[k] = rows[k]
    BY <1>8, <1>T DEF Commit, At, Created, RemindersTypeOK
  <2>2. Created(s)' = {} /\ Mailing(s)' = {} /\ Others(s) /\ UNCHANGED <<mails, state, excused>>
    BY <1>8, <1>T, EndHolds DEF Commit
  <2>3. ASSUME NEW k \in Keys, NEW u \in Sweepers, k \in Created(u) \ Mailing(u)
        PROVE  rows'[k] # "none" \/ k \in Created(u)' \ Mailing(u)'
    <3>1. CASE u = s
      <4>1. rows'[k] = "live"
        BY <2>1, <2>3, <3>1
      <4>2. QED
        BY <4>1
    <3>2. CASE u # s
      BY <2>2, <2>3, <3>2 DEF Others
    <3>3. QED
      BY <3>1, <3>2
  <2>C. \A k \in Keys : rows[k] # "none" => rows'[k] # "none"
    BY <2>1
  <2>4. MailedIsKept'
    BY <2>2, <2>3, <2>C, <1>T DEF MailedIsKept
  <2>5. MailedOnce'
    BY <2>2, <1>T DEF MailedOnce
  <2>6. QED
    BY <2>4, <2>5
<1>9. ASSUME NEW s \in Sweepers, Running(s), Undo(s) PROVE MailedIsKept' /\ MailedOnce'
  <2>1. excused' = excused \cup Created(s) /\ UNCHANGED <<rows, state, mails>>
    BY <1>9 DEF Undo, Created
  <2>2. QED
    BY <1>9, <2>1, <1>T, EndHolds DEF MailedIsKept, MailedOnce, Others
<1>10. ASSUME NEW s \in Sweepers, Proceed(s) \/ Fails(s) PROVE MailedIsKept' /\ MailedOnce'
  <2>1. Undo(s) /\ (FirmFails(s) \/ Aborted(s) \/ Fails(s)) => Running(s)
    BY DEF FirmFails, Aborted, Fails, CanInsert, At, Deadlocked, Waits
  <2>2. QED
    BY <1>5, <1>6, <1>7, <1>8, <1>9, <1>10, <2>1 DEF Proceed, FirmFails, Aborted, Fails
<1>11. QED
  BY <1>2, <1>3, <1>4, <1>5, <1>10 DEF Next

\* Filing a deadline makes nothing need a reminder.
LEMMA NeedsNothingNew ==
    ASSUME RemindersTypeOK, NEW i \in Items, NEW k \in Keys, UNCHANGED <<day, due, until>>,
           UNCHANGED state \/ state' = [state EXCEPT ![i] = "filed"],
           NeedsReminder(k)', rows[k] = "none"
    PROVE  NeedsReminder(k)
<1>1. state'[k[1]] # "filed"
  BY DEF NeedsReminder
<1>2. state'[k[1]] = state[k[1]]
  BY <1>1 DEF RemindersTypeOK, Keys
<1>3. QED
  BY <1>2 DEF NeedsReminder, RungOf

\* What keeps every other sweep, the need for reminders and what was touched, keeps the
\* reminders complete.
LEMMA QuietSteps ==
    ASSUME IInv, UNCHANGED <<sweep, complete>>, swept' \subseteq swept, touched \subseteq touched',
           \A k \in Keys : NeedsReminder(k)' /\ k[1] \notin touched' => NeedsReminder(k)
    PROVE  SweptHasAll' /\ CrossedIsStored'
  BY DEF IInv, SweptHasAll, HasAll, CrossedIsStored, Running

\* A step of the sweep of s alone keeps them, if it keeps what s holds or has to come to.
LEMMA SweepSteps ==
    ASSUME IInv, NEW s \in Sweepers, NEW r, sweep' = [sweep EXCEPT ![s] = r],
           UNCHANGED <<day, due, state, until, rows, swept, complete, touched>>,
           s \in swept /\ r # Idle /\ r.stage # "broken" =>
             \A k \in Keys : NeedsReminder(k) /\ k[1] \notin touched
                 => \/ FirmOf(k[1]) \in r.left \/ k \in r.created
                    \/ (r.stage = "planned" /\ k \in r.keys)
    PROVE  SweptHasAll' /\ CrossedIsStored'
<1>1. \A k \in Keys : NeedsReminder(k)' <=> NeedsReminder(k)
  BY DEF NeedsReminder, RungOf
<1>2. sweep'[s] = r /\ \A u \in Sweepers \ {s} : sweep'[u] = sweep[u]
  BY DEF IInv, RemindersTypeOK
<1>3. CrossedIsStored'
  BY <1>1 DEF IInv, CrossedIsStored
<1>4. swept' \subseteq Sweepers
  BY DEF IInv, RemindersTypeOK
<1>5. ASSUME NEW u \in swept' PROVE HasAll(u)'
  BY <1>1, <1>2, <1>4, <1>5 DEF IInv, SweptHasAll, HasAll, Running
<1>6. QED
  BY <1>3, <1>5 DEF SweptHasAll

LEMMA NextSwept == IInv /\ [Next]_vars => SweptHasAll' /\ CrossedIsStored'
<1> SUFFICES ASSUME IInv, [Next]_vars PROVE SweptHasAll' /\ CrossedIsStored'
  OBVIOUS
<1>T. RemindersTypeOK /\ SweptHasAll /\ CrossedIsStored
  BY DEF IInv
<1>1. CASE UNCHANGED vars
  BY <1>1, QuietSteps DEF vars, history, NeedsReminder, RungOf
<1>2. CASE Tomorrow
  BY <1>2 DEF Tomorrow, SweptHasAll, CrossedIsStored
<1>3. ASSUME NEW s \in Sweepers, Start(s) PROVE SweptHasAll' /\ CrossedIsStored'
  <2>1. /\ UNCHANGED <<complete, touched>> /\ ~Running(s)
        /\ \A k \in Keys : NeedsReminder(k)' <=> NeedsReminder(k)
        /\ \A k \in Keys : FirmOf(k[1]) \in Firms
        /\ \A u \in swept' : u \in swept \/ (u = s /\ KindOf(s) # "firm")
    BY <1>3, RemindersAssumption DEF Start, history, NeedsReminder, RungOf, Keys
  <2>2. CASE UNCHANGED sweep
    <3>1. ASSUME NEW u \in swept' PROVE HasAll(u)'
      BY <1>T, <2>1, <2>2 DEF SweptHasAll, HasAll, Running
    <3>2. QED
      BY <1>T, <2>1, <3>1 DEF SweptHasAll, CrossedIsStored
  <2>3. CASE ~UNCHANGED sweep
    <3>1. PICK firms \in SUBSET Firms :
            /\ KindOf(s) # "firm" => firms = Firms
            /\ sweep' = [sweep EXCEPT ![s] = [stage |-> "next", left |-> firms,
                                              keys |-> {}, created |-> {}]]
      BY <1>3, <2>3 DEF Start
    <3>2. /\ sweep'[s].left = firms
          /\ \A u \in Sweepers \ {s} : sweep'[u] = sweep[u]
      BY <1>T, <3>1 DEF RemindersTypeOK
    <3>3. swept \subseteq Sweepers
      BY <1>T DEF RemindersTypeOK
    <3>4. ASSUME NEW u \in swept' PROVE HasAll(u)'
      BY <1>T, <2>1, <3>1, <3>2, <3>3 DEF SweptHasAll, HasAll, Running
    <3>5. QED
      BY <1>T, <2>1, <3>4 DEF SweptHasAll, CrossedIsStored
  <2>4. QED
    BY <2>2, <2>3
<1>4. ASSUME NEW s \in Sweepers, Restart(s) PROVE SweptHasAll' /\ CrossedIsStored'
  BY <1>4, QuietSteps DEF Restart, history, NeedsReminder, RungOf
<1>5. ASSUME NEW s \in Sweepers, NextFirm(s) PROVE SweptHasAll' /\ CrossedIsStored'
  <2>0. PICK f \in sweep[s].left :
          sweep' = [sweep EXCEPT ![s] =
                      [stage |-> IF f \in BadFirms THEN "broken" ELSE "planned",
                       left |-> sweep[s].left \ {f},
                       keys |-> Planned(f), created |-> sweep[s].created]]
    BY <1>5 DEF NextFirm
  <2>1. PICK r :
          /\ r = [stage |-> IF f \in BadFirms THEN "broken" ELSE "planned",
                  left |-> sweep[s].left \ {f},
                  keys |-> Planned(f), created |-> sweep[s].created]
          /\ sweep' = [sweep EXCEPT ![s] = r]
    BY <2>0
  <2>2. r.left = sweep[s].left \ {f} /\ r.keys = Planned(f) /\ r.created = sweep[s].created
        /\ (r.stage # "broken" => r.stage = "planned")
    BY <2>1
  <2>3. \A k \in Keys : NeedsReminder(k) /\ FirmOf(k[1]) = f => k \in Planned(f)
    <3>1. TAKE k \in Keys
    <3>2. k[1] \in Items /\ day \in Int /\ until[k[1]] \in Int
      BY <1>T DEF RemindersTypeOK, Keys
    <3>3. QED
      BY <3>2 DEF NeedsReminder, Planned, Quiet
  <2>4. s \in swept => \A k \in Keys : NeedsReminder(k) /\ k[1] \notin touched
                         => FirmOf(k[1]) \in sweep[s].left \/ k \in sweep[s].created
    BY <1>5, <1>T DEF NextFirm, At, SweptHasAll, HasAll
  <2>5. UNCHANGED <<day, due, state, until, rows, swept, complete, touched>>
    BY <1>5 DEF NextFirm, history
  <2>6. s \in swept /\ r.stage # "broken" =>
             \A k \in Keys : NeedsReminder(k) /\ k[1] \notin touched
                 => \/ FirmOf(k[1]) \in r.left \/ k \in r.created
                    \/ (r.stage = "planned" /\ k \in r.keys)
    BY <2>2, <2>3, <2>4
  <2>7. QED
    BY <2>1, <2>5, <2>6, SweepSteps
<1>6. ASSUME NEW s \in Sweepers, Persist(s) PROVE SweptHasAll' /\ CrossedIsStored'
  <2>1. PICK r :
          /\ r = [stage |-> IF New(s) = {} THEN "next" ELSE "mail",
                  left |-> sweep[s].left,
                  keys |-> New(s), created |-> sweep[s].created \cup New(s)]
          /\ sweep' = [sweep EXCEPT ![s] = r]
    BY <1>6 DEF Persist
  <2>2. r.left = sweep[s].left /\ r.created = sweep[s].created \cup New(s)
    BY <2>1
  <2>3. s \in swept => \A k \in Keys : NeedsReminder(k) /\ k[1] \notin touched
                         => FirmOf(k[1]) \in r.left \/ k \in r.created
    BY <1>6, <1>T, <2>2
       DEF Persist, CanInsert, At, SweptHasAll, HasAll, New, NeedsReminder
  <2>4. UNCHANGED <<day, due, state, until, rows, swept, complete, touched>>
    BY <1>6 DEF Persist, history
  <2>5. QED
    BY <2>1, <2>3, <2>4, SweepSteps
<1>7. ASSUME NEW s \in Sweepers, Mail(s) PROVE SweptHasAll' /\ CrossedIsStored'
  <2>1. PICK r : /\ r = [stage |-> "next", left |-> sweep[s].left,
                         keys |-> {}, created |-> sweep[s].created]
                 /\ sweep' = [sweep EXCEPT ![s] = r]
    BY <1>7 DEF Mail
  <2>2. r.left = sweep[s].left /\ r.created = sweep[s].created
    BY <2>1
  <2>3. s \in swept => \A k \in Keys : NeedsReminder(k) /\ k[1] \notin touched
                         => FirmOf(k[1]) \in r.left \/ k \in r.created
    BY <1>7, <1>T, <2>2 DEF Mail, At, SweptHasAll, HasAll
  <2>4. UNCHANGED <<day, due, state, until, rows, swept, complete, touched>>
    BY <1>7 DEF Mail, history
  <2>5. QED
    BY <2>1, <2>3, <2>4, SweepSteps
<1>8. ASSUME NEW s \in Sweepers, Commit(s) PROVE SweptHasAll' /\ CrossedIsStored'
  <2>1. /\ UNCHANGED <<day, due, state, until, swept, touched>>
        /\ \A k \in Keys : k \in sweep[s].created => rows'[k] = "live"
        /\ \A k \in Keys : k \notin sweep[s].created => rows'[k] = rows[k]
    BY <1>8, <1>T DEF Commit, RemindersTypeOK
  <2>2. \A k \in Keys : NeedsReminder(k)' => NeedsReminder(k) /\ k \notin sweep[s].created
    BY <2>1 DEF NeedsReminder, RungOf
  <2>3. sweep'[s] = Idle /\ \A u \in Sweepers \ {s} : sweep'[u] = sweep[u]
    BY <1>8, <1>T DEF Commit, RemindersTypeOK
  <2>4. swept \subseteq Sweepers
    BY <1>T DEF RemindersTypeOK
  <2>5. ASSUME NEW u \in swept' PROVE HasAll(u)'
    BY <1>T, <2>1, <2>2, <2>3, <2>4, <2>5 DEF SweptHasAll, HasAll, Running
  <2>6. s \in swept => \A k \in Keys : NeedsReminder(k) /\ k[1] \notin touched
                         => k \in sweep[s].created
    BY <1>8, <1>T DEF Commit, At, SweptHasAll, HasAll
  <2>7. complete' => complete \/ s \in swept
    BY <1>8 DEF Commit
  <2>8. CrossedIsStored'
    BY <1>T, <2>1, <2>2, <2>6, <2>7 DEF CrossedIsStored
  <2>9. QED
    BY <2>5, <2>8 DEF SweptHasAll
<1>9. ASSUME NEW s \in Sweepers, Undo(s) PROVE SweptHasAll' /\ CrossedIsStored'
  BY <1>9, SweepSteps DEF Undo, RolledBack
<1>10. ASSUME NEW k \in Keys,
              Done(k) \/ DeleteReminder(k) \/ \E status \in RowStates : Settle(k, status)
       PROVE  SweptHasAll' /\ CrossedIsStored'
  <2>1. /\ UNCHANGED <<day, due, until, sweep, swept, complete>> /\ touched \subseteq touched'
        /\ k[1] \in Items
    BY <1>10 DEF Done, DeleteReminder, Settle, history, Keys
  <2>2. \A l \in Keys : rows'[l] = "none" /\ l[1] \notin touched' => rows[l] = "none"
    BY <1>10, <1>T DEF Done, DeleteReminder, Settle, RemindersTypeOK
  <2>3. UNCHANGED state \/ state' = [state EXCEPT ![k[1]] = "filed"]
    BY <1>10 DEF Done, DeleteReminder, Settle
  <2>4. \A l \in Keys : NeedsReminder(l)' /\ l[1] \notin touched' => NeedsReminder(l)
    BY <2>1, <2>2, <2>3, <1>T, NeedsNothingNew DEF NeedsReminder
  <2>5. QED
    BY <2>1, <2>4, QuietSteps
<1>11. ASSUME NEW i \in Items,
              \/ SnoozeDeadline(i) \/ MoveDeadline(i) \/ DeleteDeadline(i)
              \/ \E status \in DeadlineStates : SetDeadline(i, status)
       PROVE  SweptHasAll' /\ CrossedIsStored'
  <2>1. UNCHANGED <<day, sweep, swept, complete>> /\ touched \subseteq touched'
    BY <1>11 DEF SnoozeDeadline, MoveDeadline, DeleteDeadline, SetDeadline, history
  <2>2. CASE MoveDeadline(i) \/ \E status \in DeadlineStates : SetDeadline(i, status)
    <3>1. i \in touched' /\ UNCHANGED rows
      BY <2>2 DEF MoveDeadline, SetDeadline
    <3>2. \A j \in Items \ {i} :
             due'[j] = due[j] /\ state'[j] = state[j] /\ until'[j] = until[j]
      BY <2>2, <1>T DEF MoveDeadline, SetDeadline, RemindersTypeOK
    <3>3. \A l \in Keys : NeedsReminder(l)' /\ l[1] \notin touched' => NeedsReminder(l)
      BY <2>1, <3>1, <3>2 DEF NeedsReminder, RungOf, Keys
    <3>4. QED
      BY <2>1, <3>3, QuietSteps
  <2>3. CASE SnoozeDeadline(i) \/ DeleteDeadline(i)
    <3>1. UNCHANGED due
      BY <2>3 DEF SnoozeDeadline, DeleteDeadline
    <3>2. \A l \in Keys : l[1] # i => rows'[l] = rows[l]
      BY <2>3, <1>T DEF SnoozeDeadline, DeleteDeadline, RemindersTypeOK
    <3>3. /\ \A j \in Items \ {i} : state'[j] = state[j] /\ until'[j] = until[j]
          /\ state'[i] = "gone" \/ (state'[i] = "snoozed" /\ until'[i] = day + 1)
      BY <2>3, <1>T DEF SnoozeDeadline, DeleteDeadline, RemindersTypeOK
    <3>4. \A l \in Keys : NeedsReminder(l)' => l[1] # i
      BY <2>1, <3>3, <1>T DEF NeedsReminder, RemindersTypeOK
    <3>5. \A l \in Keys : NeedsReminder(l)' => NeedsReminder(l)
      BY <2>1, <3>1, <3>2, <3>3, <3>4 DEF NeedsReminder, RungOf, Keys
    <3>6. QED
      BY <2>1, <3>5, QuietSteps
  <2>4. QED
    BY <1>11, <2>2, <2>3
<1>12. QED
  BY <1>1, <1>2, <1>3, <1>4, <1>5, <1>6, <1>7, <1>8, <1>9, <1>10, <1>11
     DEF Next, Proceed, FirmFails, Aborted, Fails

LEMMA NextIInv == IInv /\ [Next]_vars => IInv'
  BY NextTypeOK, NextHeldIsNew, NextMails, NextSwept DEF IInv

----------------------------------------------------------------------------
\* Every reachable state is well typed, and a deleted deadline has no reminder.
THEOREM RemindersTypeCorrect == Spec => []RemindersTypeOK
<1>1. IInv => RemindersTypeOK
  BY DEF IInv
<1>2. QED
  BY <1>1, InitIInv, NextIInv, PTL DEF Spec

\* A reminder is mailed again only if the sweep that mailed it was undone or its
\* row deleted, whatever sweeps and people interleave (persist in reminders.py).
THEOREM NobodyIsMailedTwice == Spec => []MailedOnce
<1>1. IInv => MailedOnce
  BY DEF IInv
<1>2. QED
  BY <1>1, InitIInv, NextIInv, PTL DEF Spec

\* After a sweep of all firms has begun and committed today, no deadline that nobody has
\* touched today lacks the reminder of its rung (run_sweep_once in scheduler.py).
THEOREM CommittedSweepStoresAll == Spec => []CrossedIsStored
<1>1. IInv => CrossedIsStored
  BY DEF IInv
<1>2. QED
  BY <1>1, InitIInv, NextIInv, PTL DEF Spec

----------------------------------------------------------------------------
\* As days pass, the rung of a deadline only gets tighter, so the rung that fires is
\* a new one or the last one, and none is skipped back to (crossed_threshold).
THEOREM RungsTighten ==
    ASSUME NEW a \in Int, NEW b \in Int, a <= b, Crossed(b) # NoRung
    PROVE  /\ Crossed(a) \in Rungs /\ Crossed(b) \in Rungs
           /\ a <= Crossed(a) /\ Crossed(a) <= Crossed(b)
<1> DEFINE Reached(d) == {r \in IF d < 0 THEN Overdue ELSE Ladder : r >= d}
<1>A. /\ \A r \in Ladder : r \in Int /\ r >= 0
      /\ \A r \in Overdue : r \in Int /\ r < 0
      /\ -1 \in Overdue
  BY RemindersAssumption
<1>1. ASSUME NEW d \in Int, Reached(d) # {}
      PROVE  Crossed(d) \in Reached(d) /\ \A r \in Reached(d) : Crossed(d) <= r
  BY <1>1, RemindersAssumption DEF Crossed, Least
<1>2. PICK r \in Reached(b) : TRUE
  BY DEF Crossed
<1>3. CASE (a < 0) = (b < 0)
  <2>1. \A n \in Reached(b) : n \in Reached(a)
    BY <1>3, <1>A
  <2>2. /\ Crossed(a) \in Reached(a) /\ Crossed(b) \in Reached(b)
        /\ Crossed(a) <= Crossed(b)
    BY <1>1, <1>2, <2>1
  <2>3. QED
    BY <2>2 DEF Rungs
<1>4. CASE a < 0 /\ b >= 0
  <2>1. -1 \in Reached(a)
    BY <1>4, <1>A
  <2>2. Crossed(a) \in Reached(a) /\ Crossed(b) \in Reached(b)
    BY <1>1, <1>2, <2>1
  <2>3. QED
    BY <1>4, <1>A, <2>2 DEF Rungs
<1>5. QED
  BY <1>3, <1>4
============================================================================
