----------------------- MODULE EventSequentialProofs -----------------------
(***************************************************************************)
(* Theorems about EventService when requests do not overlap: one slot, any *)
(* number of events, vendors and submissions.  Calls may still fail and    *)
(* handlers die half-way, except where a theorem says otherwise.           *)
(***************************************************************************)
EXTENDS EventServiceProofs

\* There is one slot for requests in flight, or none.
OneAtATime == \A r, s \in Requests : r = s

-----------------------------------------------------------------------------
(* With one request at a time the copies are fresh: nobody writes between  *)
(* the read and the Save.                                                  *)

\* Saving the copy keeps the winner of the row, and brings no row back.
SameEvent(e, c) ==
    /\ Live(e)
    /\ c.winner = event[e].winner
    /\ c.loaded # None => c.loaded = c.winner

\* Past the look at the winner's vendor, a winner on record is preloaded.
Passed == {"winRows", "winReset", "winPitch", "winSaveSub", "winSaveEvent"}

\* What a request knows at each point of its handler, beyond ReqOK.
FreshReq(q) ==
    /\ q.pc \in HoldsCopy \ {"winSaveEvent"} => SameEvent(q.e, q.ev)
    /\ q.pc \in {"close", "complete"} => q.ev.endDate = event[q.e].endDate
    /\ q.pc = "winVendor" /\ VendorLive(q.ev.winner) => q.ev.loaded = q.ev.winner
    /\ q.pc \in Passed => Live(q.e) /\ q.ev.loaded = event[q.e].winner
    /\ q.pc \in {"saveSub", "winSaveSub"} /\ sub[q.s].scored => q.sb.scored
    /\ q.pc = "winReset" =>
        \A x \in Subs : q.rows[x] # None /\ sub[x].scored => q.rows[x].scored
    /\ q.pc \in Telling => event[q.e].winner = q.v
    /\ q.pc = "tellLoser" => \A x \in Subs : q.rows[x] # None => q.rows[x].vendor # q.v

\* A verdict is about an event that has a winner, and agrees with it.
TrueVerdict(n) ==
    n.kind # "open" =>
        /\ event[n.event].winner # None
        /\ n.kind = "winner" <=> n.vendor = event[n.event].winner

VerdictsTrue == \A n \in notice : TrueVerdict(n)

NewIsOpen == \A e \in Events : event[e].state = "absent" => event[e].winner = None

SeqInv ==
    /\ VerdictsTrue
    /\ NewIsOpen
    /\ \A r \in Requests : FreshReq(req[r])

-----------------------------------------------------------------------------
(* The winner's flag, when no call fails.                                  *)

FlagReq(q) ==
    /\ q.pc = "saveSub" => q.sb.isWinner = sub[q.s].isWinner
    /\ q.pc \in {"winPitch", "winSaveSub"} => Flagged(q.e) = {}
    /\ q.pc = "winReset" => \A x \in Flagged(q.e) : q.rows[x] # None

FlagInv ==
    /\ OneWinnerFlag
    /\ \A e \in Events : event[e].winner = None /\ Flagged(e) # {} =>
            \E r \in Requests : req[r].pc = "winSaveEvent" /\ req[r].e = e
    /\ \A r \in Requests : FlagReq(req[r])

-----------------------------------------------------------------------------
(* What a step leaves of the tables.                                       *)

WinnersStay ==
    \A e \in Events : event[e].winner # None => event'[e].winner = event[e].winner

DeletedStay ==
    \A e \in Events : event[e].state = "deleted" => event'[e].state = "deleted"

ScoresStay == \A s \in Subs : Exists(s) /\ sub[s].scored => sub'[s].scored

Kept == WinnersStay /\ DeletedStay /\ ScoresStay

LEMMA VerdictsStay ==
    ASSUME TypeOK, VerdictsTrue, WinnersStay,
           NEW n, TrueVerdict(n)', notice' \subseteq notice \cup {n}
    PROVE  VerdictsTrue'
<1> SUFFICES ASSUME NEW m \in notice', m.kind # "open"
             PROVE  /\ event'[m.event].winner # None
                    /\ m.kind = "winner" <=> m.vendor = event'[m.event].winner
  BY DEF VerdictsTrue, TrueVerdict
<1>1. CASE m = n
  BY <1>1 DEF TrueVerdict
<1>2. CASE m \in notice
  <2>1. m.event \in Events
    BY <1>2 DEF TypeOK, Notice
  <2>2. /\ event[m.event].winner # None
        /\ m.kind = "winner" <=> m.vendor = event[m.event].winner
    BY <1>2 DEF VerdictsTrue, TrueVerdict
  <2>3. event'[m.event].winner = event[m.event].winner
    BY <2>1, <2>2 DEF WinnersStay
  <2> QED
    BY <2>2, <2>3
<1> QED
  BY <1>1, <1>2

LEMMA SameVerdicts ==
    ASSUME TypeOK, VerdictsTrue, WinnersStay, notice' = notice
    PROVE  VerdictsTrue'
<1> SUFFICES ASSUME NEW m \in notice, m.kind # "open"
             PROVE  /\ event'[m.event].winner # None
                    /\ m.kind = "winner" <=> m.vendor = event'[m.event].winner
  BY DEF VerdictsTrue, TrueVerdict
<1>1. m.event \in Events
  BY DEF TypeOK, Notice
<1>2. /\ event[m.event].winner # None
      /\ m.kind = "winner" <=> m.vendor = event[m.event].winner
  BY DEF VerdictsTrue, TrueVerdict
<1>3. event'[m.event].winner = event[m.event].winner
  BY <1>1, <1>2 DEF WinnersStay
<1> QED
  BY <1>2, <1>3

\* The request moves on, and there is no other.
LEMMA OnlyRequest ==
    ASSUME OneAtATime, TypeOK, NEW r \in Requests, NEW q, req' = [req EXCEPT ![r] = q],
           FreshReq(q)'
    PROVE  \A x \in Requests : FreshReq(req[x])'
<1> SUFFICES ASSUME NEW x \in Requests PROVE FreshReq(req[x])'
  OBVIOUS
<1>1. x = r
  BY DEF OneAtATime
<1>2. req'[x] = q
  BY <1>1 DEF TypeOK
<1>3. \A p : p = q /\ FreshReq(q)' => FreshReq(p)'
  OBVIOUS
<1> QED
  BY <1>2, <1>3

LEMMA FreshIdle == ASSUME NEW q, q.pc = "idle" PROVE FreshReq(q)
BY DEF FreshReq, HoldsCopy, Selecting, Passed, Telling

LEMMA FreshIdleAfter == ASSUME NEW q, q.pc = "idle" PROVE FreshReq(q)'
BY DEF FreshReq, HoldsCopy, Selecting, Passed, Telling

LEMMA IdlePc == Idle.pc = "idle"
BY DEF Idle

\* A step that ends the request, or happens when there is none.
LEMMA Rests ==
    ASSUME OneAtATime, TypeOK, NEW r \in Requests,
           End(r) \/ (req[r].pc = "idle" /\ req' = req)
    PROVE  \A x \in Requests : FreshReq(req[x])'
<1>1. CASE End(r)
  BY <1>1, IdlePc, FreshIdleAfter, OnlyRequest DEF End
<1>2. CASE req[r].pc = "idle" /\ req' = req
  <2> SUFFICES ASSUME NEW x \in Requests PROVE FreshReq(req[x])'
    OBVIOUS
  <2>1. req'[x].pc = "idle"
    BY <1>2 DEF OneAtATime
  <2> QED
    BY <2>1, FreshIdleAfter
<1> QED
  BY <1>1, <1>2

LEMMA ReadKeeps ==
    ASSUME SeqInv, TypeOK, UNCHANGED <<event, sub, vendor, notice, today>>
    PROVE  Kept /\ VerdictsTrue' /\ NewIsOpen'
<1>1. Kept
  BY DEF Kept, WinnersStay, DeletedStay, ScoresStay
<1>2. VerdictsTrue'
  BY <1>1, SameVerdicts DEF Kept, SeqInv
<1>3. NewIsOpen'
  BY DEF NewIsOpen, SeqInv
<1> QED
  BY <1>1, <1>2, <1>3

\* A step that only reads, and sends the request to a record that is right.
LEMMA ReadTo ==
    ASSUME OneAtATime, IInv, SeqInv, NEW r \in Requests, NEW q, FreshReq(q),
           req' = [req EXCEPT ![r] = q],
           UNCHANGED <<event, sub, vendor, notice, today>>
    PROVE  SeqInv' /\ Kept
<1>0. TypeOK
  BY DEF IInv
<1>1. FreshReq(q)'
  BY DEF FreshReq, SameEvent, Live, VendorLive
<1> QED
  BY <1>0, <1>1, ReadKeeps, OnlyRequest DEF SeqInv

LEMMA ReadEnd ==
    ASSUME OneAtATime, IInv, SeqInv, NEW r \in Requests, End(r),
           UNCHANGED <<event, sub, vendor, notice, today>>
    PROVE  SeqInv' /\ Kept
BY ReadTo, FreshIdle, IdlePc DEF End

\* A Save of the event's row from a fresh copy.
LEMMA EventSaved ==
    ASSUME OneAtATime, IInv, SeqInv, NEW e \in Events, NEW c \in EventCopy, Live(e),
           event' = [event EXCEPT ![e] = Saved(c)],
           event[e].winner # None => Saved(c).winner = event[e].winner,
           UNCHANGED <<sub, vendor, notice, today>>
    PROVE  Kept /\ VerdictsTrue' /\ NewIsOpen'
<1>0. TypeOK
  BY DEF IInv
<1>1. event'[e] = Saved(c) /\ \A x \in Events \ {e} : event'[x] = event[x]
  BY <1>0 DEF TypeOK
<1>2. Saved(c).state = "live"
  BY DEF Saved
<1>3. WinnersStay /\ DeletedStay
  BY <1>1, <1>2 DEF WinnersStay, DeletedStay, Live
<1>4. ScoresStay
  BY DEF ScoresStay
<1>5. VerdictsTrue'
  BY <1>0, <1>3, SameVerdicts DEF SeqInv
<1>6. NewIsOpen'
  BY <1>1, <1>2 DEF NewIsOpen, SeqInv
<1> QED
  BY <1>3, <1>4, <1>5, <1>6 DEF Kept

\* A fresh copy writes the winner of its row.
LEMMA SavedWinner ==
    ASSUME NEW e, NEW c, SameEvent(e, c)
    PROVE  Saved(c).winner = event[e].winner
BY DEF SameEvent, Saved

\* A write to the submissions that loses no score.
LEMMA SubSaved ==
    ASSUME IInv, SeqInv, ScoresStay, UNCHANGED <<event, vendor, notice, today>>
    PROVE  Kept /\ VerdictsTrue' /\ NewIsOpen'
<1>0. TypeOK
  BY DEF IInv
<1>1. WinnersStay /\ DeletedStay
  BY DEF WinnersStay, DeletedStay
<1>2. VerdictsTrue'
  BY <1>0, <1>1, SameVerdicts DEF SeqInv
<1>3. NewIsOpen'
  BY DEF NewIsOpen, SeqInv
<1> QED
  BY <1>1, <1>2, <1>3 DEF Kept

-----------------------------------------------------------------------------
(* The life of an event.                                                   *)

LEMMA SeqCreateEvent ==
    ASSUME OneAtATime, IInv, SeqInv, NEW r \in Requests, NEW e \in Events,
           NEW d \in Days \cup {None}, CreateEvent(r, e, d)
    PROVE  SeqInv' /\ Kept
<1>0. TypeOK
  BY DEF IInv
<1>1. /\ event'[e] = [state |-> "live", status |-> "draft", winner |-> None, endDate |-> d]
      /\ \A x \in Events \ {e} : event'[x] = event[x]
      /\ event[e].state = "absent" /\ event[e].winner = None
  BY <1>0 DEF CreateEvent, TypeOK, SeqInv, NewIsOpen
<1>2. Kept
  BY <1>1 DEF CreateEvent, Kept, WinnersStay, DeletedStay, ScoresStay
<1>3. VerdictsTrue'
  BY <1>0, <1>2, SameVerdicts DEF SeqInv, Kept, CreateEvent
<1>4. NewIsOpen'
  BY <1>1 DEF NewIsOpen, SeqInv
<1>5. \A x \in Requests : FreshReq(req[x])'
  BY <1>0, Rests DEF CreateEvent
<1> QED
  BY <1>2, <1>3, <1>4, <1>5 DEF SeqInv

LEMMA ReadIsSame ==
    ASSUME TypeOK, NEW e \in Events, Live(e)
    PROVE  SameEvent(e, ReadEvent(e)) /\ ReadEvent(e) \in EventCopy
BY DEF SameEvent, ReadEvent, TypeOK, EventRow, EventCopy

LEMMA SeqBeginUpdate ==
    ASSUME OneAtATime, IInv, SeqInv, NEW r \in Requests, NEW e \in Events, BeginUpdate(r, e)
    PROVE  SeqInv' /\ Kept
<1>1. PICK st \in NewStatus(e), d \in Days \cup {event[e].endDate} :
        req' = [req EXCEPT ![r] =
                  [Idle EXCEPT !.pc = "update", !.e = e,
                     !.opens = (Notifier /\ event[e].status # "open" /\ st = "open"),
                     !.ev = [ReadEvent(e) EXCEPT !.status = st, !.endDate = d]]]
  BY DEF BeginUpdate, Begin
<1> DEFINE c == [ReadEvent(e) EXCEPT !.status = st, !.endDate = d]
           o == Notifier /\ event[e].status # "open" /\ st = "open"
           q == [Idle EXCEPT !.pc = "update", !.e = e, !.opens = o, !.ev = c]
<1>2. SameEvent(e, ReadEvent(e)) /\ ReadEvent(e) \in EventCopy
  BY ReadIsSame DEF BeginUpdate, IInv
<1>3. SameEvent(e, c)
  BY <1>2 DEF SameEvent, EventCopy
<1>4. q.pc = "update" /\ q.e = e /\ q.ev = c
  BY DEF Idle
<1>5. req' = [req EXCEPT ![r] = q]
  BY <1>1
<1>6. FreshReq(q)
  <2> HIDE DEF q, c
  <2> QED
    BY <1>3, <1>4 DEF FreshReq, HoldsCopy, Selecting, Passed, Telling
<1> HIDE DEF q
<1> QED
  BY <1>5, <1>6, ReadTo DEF BeginUpdate

LEMMA SeqSaveUpdate ==
    ASSUME OneAtATime, IInv, SeqInv, NEW r \in Requests, SaveUpdate(r)
    PROVE  SeqInv' /\ Kept
<1>0. TypeOK
  BY DEF IInv
<1>1. req[r].e \in Events /\ req[r].ev \in EventCopy /\ SameEvent(req[r].e, req[r].ev)
  BY DEF SaveUpdate, IInv, ReqOK, CopyOK, HoldsCopy, SeqInv, FreshReq
<1>2. Kept /\ VerdictsTrue' /\ NewIsOpen'
  BY <1>1, SavedWinner, EventSaved DEF SaveUpdate, SameEvent
<1>3. \A x \in Requests : FreshReq(req[x])'
  <2>1. CASE req[r].opens
    <3>0. PICK q : q = [Idle EXCEPT !.pc = "notifyOpen", !.e = req[r].e]
      OBVIOUS
    <3>1. q.pc = "notifyOpen"
      BY <3>0 DEF Idle
    <3>2. req' = [req EXCEPT ![r] = q]
      BY <2>1, <3>0 DEF SaveUpdate, Goto
    <3>3. FreshReq(q)'
      BY <3>1 DEF FreshReq, HoldsCopy, Selecting, Passed, Telling
    <3> QED
      BY <1>0, <3>2, <3>3, OnlyRequest
  <2>2. CASE ~req[r].opens
    BY <1>0, <2>2, Rests DEF SaveUpdate
  <2> QED
    BY <2>1, <2>2
<1> QED
  BY <1>2, <1>3 DEF SeqInv

LEMMA SeqNotifyOpen ==
    ASSUME OneAtATime, IInv, SeqInv, NEW r \in Requests, NotifyOpen(r)
    PROVE  SeqInv' /\ Kept
<1>0. TypeOK
  BY DEF IInv
<1>1. Kept /\ NewIsOpen'
  BY DEF NotifyOpen, Kept, WinnersStay, DeletedStay, ScoresStay, SeqInv, NewIsOpen
<1>2. PICK n : n = [kind |-> "open", event |-> req[r].e, vendor |-> None]
  OBVIOUS
<1>3. TrueVerdict(n)' /\ notice' \subseteq notice \cup {n}
  BY <1>2 DEF TrueVerdict, NotifyOpen
<1>4. VerdictsTrue'
  BY <1>0, <1>1, <1>3, VerdictsStay DEF SeqInv, Kept
<1>5. \A x \in Requests : FreshReq(req[x])'
  BY <1>0, Rests DEF NotifyOpen
<1> QED
  BY <1>1, <1>4, <1>5 DEF SeqInv

LEMMA SeqBeginDelete ==
    ASSUME OneAtATime, IInv, SeqInv, NEW r \in Requests, NEW e \in Events, BeginDelete(r, e)
    PROVE  SeqInv' /\ Kept
<1> DEFINE q == [Idle EXCEPT !.pc = "delete", !.e = e]
<1>1. q.pc = "delete"
  BY DEF Idle
<1>2. req' = [req EXCEPT ![r] = q]
  BY DEF BeginDelete, Begin
<1> HIDE DEF q
<1>3. FreshReq(q)
  BY <1>1 DEF FreshReq, HoldsCopy, Selecting, Passed, Telling
<1> QED
  BY <1>2, <1>3, ReadTo DEF BeginDelete

LEMMA SeqDeleteEvent ==
    ASSUME OneAtATime, IInv, SeqInv, NEW r \in Requests, DeleteEvent(r)
    PROVE  SeqInv' /\ Kept
<1>0. TypeOK
  BY DEF IInv
<1>1. \A row \in EventRow : /\ [row EXCEPT !.state = "deleted"].state = "deleted"
                           /\ [row EXCEPT !.state = "deleted"].winner = row.winner
  BY DEF EventRow
<1>2. \A e \in Events : /\ event'[e].winner = event[e].winner
                        /\ event'[e].state \in {event[e].state, "deleted"}
  BY <1>0, <1>1 DEF DeleteEvent, TypeOK
<1>3. Kept /\ NewIsOpen'
  BY <1>2 DEF DeleteEvent, Kept, WinnersStay, DeletedStay, ScoresStay, SeqInv, NewIsOpen
<1>4. VerdictsTrue'
  BY <1>0, <1>3, SameVerdicts DEF SeqInv, Kept, DeleteEvent
<1>5. \A x \in Requests : FreshReq(req[x])'
  BY <1>0, Rests DEF DeleteEvent
<1> QED
  BY <1>3, <1>4, <1>5 DEF SeqInv

LEMMA SeqRefresh ==
    ASSUME OneAtATime, IInv, SeqInv, NEW r \in Requests, NEW e \in Events,
           ViewEvent(r, e) \/ ListEvents(r, e)
    PROVE  SeqInv' /\ Kept
<1>1. PICK c : /\ c \in {ReadEvent(e), [ReadEvent(e) EXCEPT !.loaded = None]}
               /\ Refresh(r, e, c)
  BY DEF ViewEvent, ListEvents
<1>2. Live(e)
  BY <1>1 DEF Refresh
<1>3. SameEvent(e, ReadEvent(e)) /\ ReadEvent(e) \in EventCopy
      /\ ReadEvent(e).endDate = event[e].endDate
  BY <1>2, ReadIsSame DEF IInv, ReadEvent
<1>4. c \in EventCopy /\ SameEvent(e, c) /\ c.endDate = event[e].endDate
  BY <1>1, <1>3 DEF SameEvent, EventCopy
<1>5. ASSUME NEW pc \in {"close", "complete"}, NEW st,
             req' = [req EXCEPT ![r] = [Idle EXCEPT !.pc = pc, !.e = e,
                                                   !.ev = [c EXCEPT !.status = st]]]
      PROVE  SeqInv' /\ Kept
  <2> DEFINE q == [Idle EXCEPT !.pc = pc, !.e = e, !.ev = [c EXCEPT !.status = st]]
  <2>1. q.pc = pc /\ q.e = e /\ q.ev = [c EXCEPT !.status = st]
    BY DEF Idle
  <2> HIDE DEF q
  <2>2. SameEvent(q.e, q.ev) /\ q.ev.endDate = event[q.e].endDate
    BY <1>4, <2>1 DEF SameEvent, EventCopy
  <2>3. FreshReq(q)
    BY <2>1, <2>2 DEF FreshReq, HoldsCopy, Selecting, Passed, Telling
  <2>4. req' = [req EXCEPT ![r] = q]
    BY <1>5 DEF q
  <2> QED
    BY <1>1, <2>3, <2>4, ReadTo DEF Refresh
<1> QED
  BY <1>1, <1>5 DEF Refresh, Begin

\* What the status refresh knows of the row it is about to save.
LEMMA Refreshing ==
    ASSUME IInv, SeqInv, NEW r \in Requests, req[r].pc \in {"close", "complete"}
    PROVE  /\ req[r].e \in Events /\ req[r].ev \in EventCopy
           /\ SameEvent(req[r].e, req[r].ev)
           /\ req[r].ev.endDate = event[req[r].e].endDate
BY DEF IInv, ReqOK, CopyOK, HoldsCopy, SeqInv, FreshReq

LEMMA SeqSaveClosed ==
    ASSUME OneAtATime, IInv, SeqInv, NEW r \in Requests, SaveClosed(r)
    PROVE  SeqInv' /\ Kept
<1>0. TypeOK
  BY DEF IInv
<1>1. /\ req[r].e \in Events /\ req[r].ev \in EventCopy
      /\ SameEvent(req[r].e, req[r].ev) /\ Live(req[r].e)
      /\ req[r].ev.endDate = event[req[r].e].endDate
  BY Refreshing DEF SaveClosed, SameEvent
<1>2. Saved(req[r].ev).winner = event[req[r].e].winner
  BY <1>1, SavedWinner
<1>4. Kept /\ VerdictsTrue' /\ NewIsOpen'
  <2>1. CASE event' = [event EXCEPT ![req[r].e] = Saved(req[r].ev)]
    BY <1>1, <1>2, <2>1, EventSaved DEF SaveClosed
  <2>2. CASE UNCHANGED event
    BY <1>0, <2>2, ReadKeeps DEF SaveClosed
  <2> QED
    BY <2>1, <2>2 DEF SaveClosed
<1>5. \A x \in Requests : FreshReq(req[x])'
  <2>1. CASE NeedsComplete(req[r].ev)
    <3>0. PICK q : q = [req[r] EXCEPT !.pc = "complete", !.ev.status = "completed"]
      OBVIOUS
    <3>1. q.pc = "complete" /\ q.e = req[r].e /\ q.ev = [req[r].ev EXCEPT !.status = "completed"]
      BY <1>0, <3>0 DEF TypeOK, Request
    <3>2. req' = [req EXCEPT ![r] = q]
      BY <2>1, <3>0 DEF SaveClosed, Goto
    <3>3. /\ q.ev.winner = req[r].ev.winner /\ q.ev.loaded = req[r].ev.loaded
          /\ q.ev.endDate = req[r].ev.endDate
      BY <1>1, <3>1 DEF EventCopy
    <3>4. /\ event'[req[r].e].state = "live"
          /\ event'[req[r].e].winner = event[req[r].e].winner
          /\ event'[req[r].e].endDate = event[req[r].e].endDate
      BY <1>0, <1>1, <1>2 DEF SaveClosed, Saved, TypeOK, Live
    <3>5. SameEvent(q.e, q.ev)' /\ q.ev.endDate = event'[q.e].endDate
      BY <1>1, <3>1, <3>3, <3>4 DEF SameEvent, Live
    <3>6. FreshReq(q)'
      BY <3>1, <3>5 DEF FreshReq, HoldsCopy, Selecting, Passed, Telling
    <3> QED
      BY <1>0, <3>2, <3>6, OnlyRequest
  <2>2. CASE ~NeedsComplete(req[r].ev)
    BY <1>0, <2>2, Rests DEF SaveClosed
  <2> QED
    BY <2>1, <2>2
<1> QED
  BY <1>4, <1>5 DEF SeqInv

LEMMA SeqSaveCompleted ==
    ASSUME OneAtATime, IInv, SeqInv, NEW r \in Requests, SaveCompleted(r)
    PROVE  SeqInv' /\ Kept
<1>0. TypeOK
  BY DEF IInv
<1>1. /\ req[r].e \in Events /\ req[r].ev \in EventCopy
      /\ SameEvent(req[r].e, req[r].ev) /\ Live(req[r].e)
  BY Refreshing DEF SaveCompleted, SameEvent
<1>2. Kept /\ VerdictsTrue' /\ NewIsOpen'
  BY <1>1, SavedWinner, EventSaved DEF SaveCompleted
<1>3. \A x \in Requests : FreshReq(req[x])'
  BY <1>0, Rests DEF SaveCompleted
<1> QED
  BY <1>2, <1>3 DEF SeqInv

-----------------------------------------------------------------------------
(* Pitching and judging.                                                   *)

LEMMA SeqBeginPitch ==
    ASSUME OneAtATime, IInv, SeqInv, NEW r \in Requests, NEW e \in Events, NEW v \in Vendors,
           BeginPitch(r, e, v)
    PROVE  SeqInv' /\ Kept
<1>0. PICK q : q = [Idle EXCEPT !.pc = "pitchEvent", !.e = e, !.v = v]
  OBVIOUS
<1>1. q.pc = "pitchEvent"
  BY <1>0 DEF Idle
<1>2. req' = [req EXCEPT ![r] = q]
  BY <1>0 DEF BeginPitch, Begin
<1>3. FreshReq(q)
  BY <1>1 DEF FreshReq, HoldsCopy, Selecting, Passed, Telling
<1> QED
  BY <1>2, <1>3, ReadTo DEF BeginPitch

LEMMA SeqPitchReads ==
    ASSUME OneAtATime, IInv, SeqInv, NEW r \in Requests,
           PitchReadEvent(r) \/ PitchCheckExisting(r)
    PROVE  SeqInv' /\ Kept
<1>0. req[r] \in Request
  BY DEF IInv, TypeOK
<1>1. \/ End(r)
      \/ \E pc \in {"pitchExisting", "pitchCreate"} : Goto(r, [req[r] EXCEPT !.pc = pc])
  BY DEF PitchReadEvent, PitchCheckExisting
<1>2. CASE End(r)
  BY <1>2, ReadEnd DEF PitchReadEvent, PitchCheckExisting
<1>3. ASSUME NEW pc \in {"pitchExisting", "pitchCreate"}, Goto(r, [req[r] EXCEPT !.pc = pc])
      PROVE  SeqInv' /\ Kept
  <2>1. PICK q : q = [req[r] EXCEPT !.pc = pc]
    OBVIOUS
  <2>2. q.pc = pc /\ req' = [req EXCEPT ![r] = q]
    BY <1>0, <1>3, <2>1 DEF Request, Goto
  <2>3. FreshReq(q)
    BY <2>2 DEF FreshReq, HoldsCopy, Selecting, Passed, Telling
  <2> QED
    BY <2>2, <2>3, ReadTo DEF PitchReadEvent, PitchCheckExisting
<1> QED
  BY <1>1, <1>2, <1>3

LEMMA SeqCreateSubmission ==
    ASSUME OneAtATime, IInv, SeqInv, NEW r \in Requests, CreateSubmission(r)
    PROVE  SeqInv' /\ Kept
<1>0. TypeOK /\ req[r] \in Request
  BY DEF IInv, TypeOK
<1>1. CASE End(r) /\ UNCHANGED sub
  BY <1>1, ReadEnd DEF CreateSubmission
<1>2. ASSUME NEW s \in Subs, ~Exists(s), NEW row, sub' = [sub EXCEPT ![s] = row],
             req' = [req EXCEPT ![r] = [req[r] EXCEPT !.pc = "pitchFile", !.s = s]]
      PROVE  SeqInv' /\ Kept
  <2>1. ScoresStay
    BY <1>0, <1>2 DEF ScoresStay, TypeOK, Exists
  <2>2. Kept /\ VerdictsTrue' /\ NewIsOpen'
    BY <2>1, SubSaved DEF CreateSubmission
  <2>3. PICK q : q = [req[r] EXCEPT !.pc = "pitchFile", !.s = s]
    OBVIOUS
  <2>4. q.pc = "pitchFile"
    BY <1>0, <2>3 DEF Request
  <2>5. FreshReq(q)'
    BY <2>4 DEF FreshReq, HoldsCopy, Selecting, Passed, Telling
  <2>6. \A x \in Requests : FreshReq(req[x])'
    BY <1>0, <1>2, <2>3, <2>5, OnlyRequest
  <2> QED
    BY <2>2, <2>6 DEF SeqInv
<1> QED
  BY <1>1, <1>2 DEF CreateSubmission, Goto

LEMMA SeqPitchFile ==
    ASSUME OneAtATime, IInv, SeqInv, NEW r \in Requests, PitchFile(r)
    PROVE  SeqInv' /\ Kept
<1>0. TypeOK
  BY DEF IInv
<1>1. req[r].s \in Subs /\ sub[req[r].s] \in SubRow
  BY DEF PitchFile, IInv, TypeOK, ReqOK, Exists
<1>2. PICK ok \in BOOLEAN : sub' = [sub EXCEPT ![req[r].s].file = ok]
  BY DEF PitchFile
<1>3. ScoresStay
  BY <1>0, <1>1, <1>2 DEF ScoresStay, TypeOK, SubRow
<1>4. \A x \in Requests : FreshReq(req[x])'
  BY <1>0, Rests DEF PitchFile
<1> QED
  BY <1>3, <1>4, SubSaved DEF PitchFile, SeqInv

LEMMA SeqJudge ==
    ASSUME OneAtATime, IInv, SeqInv, NEW r \in Requests, NEW s \in Subs,
           ScoreSubmission(r, s) \/ ShortlistSubmission(r, s)
    PROVE  SeqInv' /\ Kept
<1>1. sub[s] \in SubRow
  BY DEF ScoreSubmission, ShortlistSubmission, IInv, TypeOK, Exists
<1>2. PICK c : /\ c \in {sub[s], [sub[s] EXCEPT !.scored = TRUE]}
               /\ req' = [req EXCEPT ![r] = [Idle EXCEPT !.pc = "saveSub", !.s = s, !.sb = c]]
  BY DEF ScoreSubmission, ShortlistSubmission, Begin
<1>3. PICK q : q = [Idle EXCEPT !.pc = "saveSub", !.s = s, !.sb = c]
  OBVIOUS
<1>4. q.pc = "saveSub" /\ q.s = s /\ q.sb = c
  BY <1>3 DEF Idle
<1>5. sub[s].scored => c.scored
  BY <1>1, <1>2 DEF SubRow
<1>6. FreshReq(q)
  BY <1>4, <1>5 DEF FreshReq, HoldsCopy, Selecting, Passed, Telling
<1> QED
  BY <1>2, <1>3, <1>6, ReadTo DEF ScoreSubmission, ShortlistSubmission

\* A row saved over its own keeps its score, if the copy has it.
LEMMA ScoreSaved ==
    ASSUME TypeOK, NEW s \in Subs, NEW c \in SubRow, sub[s] # None,
           sub[s].scored => c.scored, sub' = [sub EXCEPT ![s] = SavedSub(s, c)]
    PROVE  ScoresStay
<1>1. SavedSub(s, c).scored = c.scored
  BY DEF SavedSub, SubRow
<1> QED
  BY <1>1 DEF ScoresStay, TypeOK

LEMMA SeqSaveSubmission ==
    ASSUME OneAtATime, IInv, SeqInv, NEW r \in Requests, SaveSubmission(r)
    PROVE  SeqInv' /\ Kept
<1>0. TypeOK
  BY DEF IInv
<1>1. /\ req[r].s \in Subs /\ req[r].sb \in SubRow /\ sub[req[r].s] # None
      /\ sub[req[r].s].scored => req[r].sb.scored
  BY DEF SaveSubmission, IInv, ReqOK, SameIds, Exists, SeqInv, FreshReq
<1>2. ScoresStay
  BY <1>0, <1>1, ScoreSaved DEF SaveSubmission
<1>3. \A x \in Requests : FreshReq(req[x])'
  BY <1>0, Rests DEF SaveSubmission
<1> QED
  BY <1>2, <1>3, SubSaved DEF SaveSubmission, SeqInv

-----------------------------------------------------------------------------
(* Choosing the winner.                                                    *)

LEMMA SeqSelectWinner ==
    ASSUME OneAtATime, IInv, SeqInv, NEW r \in Requests, NEW e \in Events, NEW s \in Subs,
           SelectWinner(r, e, s)
    PROVE  SeqInv' /\ Kept
<1> DEFINE pc == IF ReadEvent(e).winner = None THEN "winPitch" ELSE "winVendor"
<1>1. SameEvent(e, ReadEvent(e))
  BY ReadIsSame DEF SelectWinner, IInv
<1>2. PICK q : q = [Idle EXCEPT !.pc = pc, !.e = e, !.s = s, !.ev = ReadEvent(e)]
  OBVIOUS
<1>3. req' = [req EXCEPT ![r] = q]
  BY <1>2 DEF SelectWinner, Begin
<1>4. q.pc = pc /\ q.e = e /\ q.ev = ReadEvent(e)
  BY <1>2 DEF Idle
<1>5. /\ q.pc = "winPitch" => q.ev.loaded = event[q.e].winner
      /\ q.pc = "winVendor" /\ VendorLive(q.ev.winner) => q.ev.loaded = q.ev.winner
  BY <1>4 DEF ReadEvent
<1>6. q.pc \in {"winPitch", "winVendor"}
  BY <1>4
<1>7. FreshReq(q)
  BY <1>1, <1>4, <1>5, <1>6 DEF FreshReq, SameEvent, HoldsCopy, Selecting, Passed, Telling
<1> QED
  BY <1>3, <1>7, ReadTo DEF SelectWinner

\* What a selection knows between its first call and its last write.
LEMMA SelectingFresh ==
    ASSUME SeqInv, NEW r \in Requests, req[r].pc \in Selecting \ {"winSaveEvent"}
    PROVE  SameEvent(req[r].e, req[r].ev) /\ Live(req[r].e)
BY DEF SeqInv, FreshReq, SameEvent, HoldsCopy, Selecting

\* Only a vendor on record can be suspended, and then it is preloaded.
LEMMA SeqCheckWinnerVendor ==
    ASSUME OneAtATime, IInv, SeqInv, NEW r \in Requests, CheckWinnerVendor(r)
    PROVE  SeqInv' /\ Kept
<1>1. req[r] \in Request /\ SameEvent(req[r].e, req[r].ev) /\ Live(req[r].e)
      /\ (VendorLive(req[r].ev.winner) => req[r].ev.loaded = req[r].ev.winner)
  BY SelectingFresh DEF CheckWinnerVendor, Selecting, IInv, TypeOK, SeqInv, FreshReq
<1>2. CASE End(r)
  BY <1>2, ReadEnd DEF CheckWinnerVendor
<1>3. CASE VendorLive(req[r].ev.winner) /\ Goto(r, [req[r] EXCEPT !.pc = "winRows"])
  <2>1. PICK q : q = [req[r] EXCEPT !.pc = "winRows"]
    OBVIOUS
  <2>2. q.pc = "winRows" /\ q.e = req[r].e /\ q.ev = req[r].ev
    BY <1>1, <2>1 DEF Request
  <2>3. FreshReq(q)
    BY <1>1, <1>3, <2>2 DEF FreshReq, SameEvent, HoldsCopy, Selecting, Passed, Telling
  <2> QED
    BY <1>3, <2>1, <2>3, ReadTo DEF CheckWinnerVendor, Goto
<1> QED
  BY <1>2, <1>3 DEF CheckWinnerVendor

\* What it knows past the look at the vendor.
LEMMA PassedFresh ==
    ASSUME IInv, SeqInv, NEW r \in Requests, req[r].pc \in Passed
    PROVE  /\ req[r] \in Request /\ req[r].e \in Events /\ req[r].ev \in EventCopy
           /\ Live(req[r].e) /\ req[r].ev.loaded = event[req[r].e].winner
           /\ req[r].pc # "winSaveEvent" => SameEvent(req[r].e, req[r].ev)
<1>1. /\ req[r] \in Request /\ req[r].e \in Events /\ req[r].ev \in EventCopy
  BY SelectingOK DEF Selecting, Passed, CopyOK
<1> QED
  BY <1>1, SelectingFresh DEF Passed, SeqInv, FreshReq, Selecting

LEMMA SeqReadFlagged ==
    ASSUME OneAtATime, IInv, SeqInv, NEW r \in Requests, ReadFlagged(r)
    PROVE  SeqInv' /\ Kept
<1> DEFINE flagged == Flagged(req[r].e)
           pc == IF flagged = {} THEN "winPitch" ELSE "winReset"
           rows == [x \in Subs |-> IF x \in flagged THEN sub[x] ELSE None]
<1>1. /\ req[r] \in Request /\ Live(req[r].e) /\ req[r].ev.loaded = event[req[r].e].winner
      /\ SameEvent(req[r].e, req[r].ev)
  BY PassedFresh DEF ReadFlagged, Passed
<1>2. PICK q : q = [req[r] EXCEPT !.pc = pc, !.rows = rows]
  OBVIOUS
<1>3. q.pc = pc /\ q.e = req[r].e /\ q.ev = req[r].ev /\ q.rows = rows
  BY <1>1, <1>2 DEF Request
<1>4. \A x \in Subs : q.rows[x] # None /\ sub[x].scored => q.rows[x].scored
  BY <1>3
<1>5. q.pc \in {"winPitch", "winReset"}
  BY <1>3
<1>6. FreshReq(q)
  BY <1>1, <1>3, <1>4, <1>5 DEF FreshReq, SameEvent, HoldsCopy, Selecting, Passed, Telling
<1>7. req' = [req EXCEPT ![r] = q]
  BY <1>2 DEF ReadFlagged, Goto
<1> QED
  BY <1>6, <1>7, ReadTo DEF ReadFlagged

LEMMA SeqResetFlag ==
    ASSUME OneAtATime, IInv, SeqInv, NEW r \in Requests, NEW x \in Subs, ResetFlag(r, x)
    PROVE  SeqInv' /\ Kept
<1> DEFINE pc == IF Todo(r) = {x} THEN "winPitch" ELSE "winReset"
<1>0. TypeOK
  BY DEF IInv
<1>1. /\ req[r] \in Request /\ Live(req[r].e) /\ req[r].ev.loaded = event[req[r].e].winner
      /\ SameEvent(req[r].e, req[r].ev)
  BY PassedFresh DEF ResetFlag, Passed
<1>2. \A y \in Subs : req[r].rows[y] # None =>
        /\ req[r].rows[y] \in SubRow /\ sub[y] # None
        /\ sub[y].scored => req[r].rows[y].scored
  BY DEF ResetFlag, IInv, ReqOK, SameIds, Exists, SeqInv, FreshReq
<1>3. PICK c : c = [req[r].rows[x] EXCEPT !.isWinner = FALSE]
  OBVIOUS
<1>4. c \in SubRow /\ sub[x] # None /\ (sub[x].scored => c.scored)
  BY <1>2, <1>3 DEF ResetFlag, Todo, SubRow
<1>5. sub' = [sub EXCEPT ![x] = SavedSub(x, c)] \/ sub' = sub
  BY <1>3 DEF ResetFlag
<1>6. ScoresStay /\ \A y \in Subs : y # x => sub'[y] = sub[y]
  <2>1. CASE sub' = sub
    BY <2>1 DEF ScoresStay
  <2>2. CASE sub' = [sub EXCEPT ![x] = SavedSub(x, c)]
    BY <1>0, <1>4, <2>2, ScoreSaved DEF TypeOK
  <2> QED
    BY <1>5, <2>1, <2>2
<1>7. Kept /\ VerdictsTrue' /\ NewIsOpen'
  BY <1>6, SubSaved DEF ResetFlag
<1>8. PICK q : q = [req[r] EXCEPT !.pc = pc, !.rows[x] = None]
  OBVIOUS
<1>9. /\ q.pc = pc /\ q.e = req[r].e /\ q.ev = req[r].ev
      /\ q.rows[x] = None /\ \A y \in Subs : y # x => q.rows[y] = req[r].rows[y]
  BY <1>1, <1>8 DEF Request
<1>10. \A y \in Subs : q.rows[y] # None /\ sub'[y].scored => q.rows[y].scored
  BY <1>2, <1>6, <1>9
<1>11. q.pc \in {"winPitch", "winReset"}
  BY <1>9
<1>12. SameEvent(q.e, q.ev)' /\ Live(q.e)' /\ q.ev.loaded = event'[q.e].winner
  BY <1>1, <1>9 DEF ResetFlag, SameEvent, Live
<1>13. FreshReq(q)'
  BY <1>10, <1>11, <1>12 DEF FreshReq, HoldsCopy, Selecting, Passed, Telling
<1>14. \A y \in Requests : FreshReq(req[y])'
  <2>1. req' = [req EXCEPT ![r] = q]
    BY <1>8 DEF ResetFlag, Goto
  <2> QED
    BY <1>0, <1>13, <2>1, OnlyRequest
<1> QED
  BY <1>7, <1>14 DEF SeqInv

LEMMA SeqReadWinningPitch ==
    ASSUME OneAtATime, IInv, SeqInv, NEW r \in Requests, ReadWinningPitch(r)
    PROVE  SeqInv' /\ Kept
<1>1. /\ req[r] \in Request /\ Live(req[r].e) /\ req[r].ev.loaded = event[req[r].e].winner
      /\ SameEvent(req[r].e, req[r].ev)
  BY PassedFresh DEF ReadWinningPitch, Passed
<1>2. CASE End(r)
  BY <1>2, ReadEnd DEF ReadWinningPitch
<1>3. CASE /\ Exists(req[r].s)
           /\ Goto(r, [req[r] EXCEPT !.pc = "winSaveSub",
                                     !.sb = [sub[req[r].s] EXCEPT !.isWinner = TRUE]])
  <2>1. PICK c : c = [sub[req[r].s] EXCEPT !.isWinner = TRUE]
    OBVIOUS
  <2>2. PICK q : q = [req[r] EXCEPT !.pc = "winSaveSub", !.sb = c]
    OBVIOUS
  <2>3. q.pc = "winSaveSub" /\ q.e = req[r].e /\ q.ev = req[r].ev /\ q.s = req[r].s /\ q.sb = c
    BY <1>1, <2>2 DEF Request
  <2>4. sub[req[r].s] \in SubRow
    BY <1>3, SelectingOK DEF ReadWinningPitch, Selecting, Exists, IInv, TypeOK
  <2>5. c.scored = sub[req[r].s].scored
    BY <2>1, <2>4 DEF SubRow
  <2>6. FreshReq(q)
    BY <1>1, <2>3, <2>5 DEF FreshReq, SameEvent, HoldsCopy, Selecting, Passed, Telling
  <2> QED
    BY <1>3, <2>1, <2>2, <2>6, ReadTo DEF ReadWinningPitch, Goto
<1> QED
  BY <1>2, <1>3 DEF ReadWinningPitch

LEMMA SeqSaveWinningPitch ==
    ASSUME OneAtATime, IInv, SeqInv, NEW r \in Requests, SaveWinningPitch(r)
    PROVE  SeqInv' /\ Kept
<1>0. TypeOK
  BY DEF IInv
<1>1. /\ req[r] \in Request /\ req[r].ev \in EventCopy
      /\ Live(req[r].e) /\ req[r].ev.loaded = event[req[r].e].winner
  BY PassedFresh DEF SaveWinningPitch, Passed
<1>2. /\ req[r].s \in Subs /\ req[r].sb \in SubRow /\ sub[req[r].s] # None
      /\ sub[req[r].s].scored => req[r].sb.scored
  BY DEF SaveWinningPitch, IInv, ReqOK, SameIds, Exists, SeqInv, FreshReq
<1>3. ScoresStay
  BY <1>0, <1>2, ScoreSaved DEF SaveWinningPitch
<1>4. PICK q : q = [req[r] EXCEPT !.pc = "winSaveEvent", !.ev.winner = req[r].sb.vendor,
                                  !.ev.status = "completed", !.sb = None]
  OBVIOUS
<1>5. req' = [req EXCEPT ![r] = q]
  BY <1>4 DEF SaveWinningPitch, Goto
<1>6. q.pc = "winSaveEvent" /\ q.e = req[r].e /\ q.ev.loaded = req[r].ev.loaded
  BY <1>1, <1>4 DEF Request, EventCopy
<1>7. FreshReq(q)'
  BY <1>1, <1>6 DEF SaveWinningPitch, FreshReq, Live, HoldsCopy, Selecting, Passed, Telling
<1>8. \A x \in Requests : FreshReq(req[x])'
  BY <1>0, <1>5, <1>7, OnlyRequest
<1> QED
  BY <1>3, <1>8, SubSaved DEF SaveWinningPitch, SeqInv

\* A winner on record has been preloaded, and Save writes it again.
LEMMA SeqSaveWinner ==
    ASSUME OneAtATime, IInv, SeqInv, NEW r \in Requests, SaveWinner(r)
    PROVE  SeqInv' /\ Kept
<1>0. TypeOK
  BY DEF IInv
<1>1. /\ req[r].e \in Events /\ req[r].ev \in EventCopy
      /\ Live(req[r].e) /\ req[r].ev.loaded = event[req[r].e].winner
  BY PassedFresh DEF SaveWinner, Passed
<1>2. event[req[r].e].winner # None => Saved(req[r].ev).winner = event[req[r].e].winner
  BY <1>1 DEF Saved
<1>3. Kept /\ VerdictsTrue' /\ NewIsOpen'
  BY <1>1, <1>2, EventSaved DEF SaveWinner
<1>4. CASE Notifier
  <2>1. PICK q : q = [Idle EXCEPT !.pc = "tellWinner", !.e = req[r].e,
                                  !.v = Saved(req[r].ev).winner]
    OBVIOUS
  <2>2. q.pc = "tellWinner" /\ q.e = req[r].e /\ q.v = Saved(req[r].ev).winner
    BY <2>1 DEF Idle
  <2>3. event'[q.e].winner = q.v
    BY <1>0, <1>1, <2>2 DEF SaveWinner, TypeOK
  <2>4. FreshReq(q)'
    BY <2>2, <2>3 DEF FreshReq, HoldsCopy, Selecting, Passed, Telling
  <2>5. req' = [req EXCEPT ![r] = q]
    BY <1>4, <2>1 DEF SaveWinner, Goto
  <2> QED
    BY <1>0, <1>3, <2>4, <2>5, OnlyRequest DEF SeqInv
<1>5. CASE ~Notifier
  <2>1. \A x \in Requests : FreshReq(req[x])'
    BY <1>0, <1>5, Rests DEF SaveWinner
  <2> QED
    BY <1>3, <2>1 DEF SeqInv
<1> QED
  BY <1>4, <1>5, FlagAssumption

-----------------------------------------------------------------------------
(* Telling the vendors.                                                    *)

\* Whoever is told was the winner when the row was saved, and is still.
LEMMA TellingFresh ==
    ASSUME IInv, SeqInv, NEW r \in Requests, req[r].pc \in Telling
    PROVE  /\ req[r] \in Request /\ req[r].e \in Events /\ req[r].v \in Vendors
           /\ event[req[r].e].winner = req[r].v /\ req[r].v # None
<1>1. req[r] \in Request /\ req[r].e \in Events /\ req[r].v \in Vendors
  BY TellingOK
<1>2. event[req[r].e].winner = req[r].v
  BY DEF SeqInv, FreshReq
<1> QED
  BY <1>1, <1>2, NoneAssumption

LEMMA SeqTellWinner ==
    ASSUME OneAtATime, IInv, SeqInv, NEW r \in Requests, TellWinner(r)
    PROVE  SeqInv' /\ Kept
<1>0. TypeOK
  BY DEF IInv
<1>1. /\ req[r] \in Request /\ req[r].e \in Events
      /\ event[req[r].e].winner = req[r].v /\ req[r].v # None
  BY TellingFresh DEF TellWinner, Telling
<1>2. Kept /\ NewIsOpen'
  BY DEF TellWinner, Kept, WinnersStay, DeletedStay, ScoresStay, SeqInv, NewIsOpen
<1>3. PICK n : n = [kind |-> "winner", event |-> req[r].e, vendor |-> req[r].v]
  OBVIOUS
<1>4. TrueVerdict(n)' /\ notice' \subseteq notice \cup {n}
  BY <1>1, <1>3 DEF TrueVerdict, TellWinner
<1>5. VerdictsTrue'
  BY <1>0, <1>2, <1>4, VerdictsStay DEF SeqInv, Kept
<1>6. PICK q : q = [req[r] EXCEPT !.pc = "losers"]
  OBVIOUS
<1>7. q.pc = "losers" /\ q.e = req[r].e /\ q.v = req[r].v
  BY <1>1, <1>6 DEF Request
<1>8. FreshReq(q)'
  BY <1>1, <1>7 DEF TellWinner, FreshReq, HoldsCopy, Selecting, Passed, Telling
<1>9. req' = [req EXCEPT ![r] = q]
  BY <1>6 DEF TellWinner, Goto
<1> QED
  BY <1>0, <1>2, <1>5, <1>8, <1>9, OnlyRequest DEF SeqInv

LEMMA SeqReadLosers ==
    ASSUME OneAtATime, IInv, SeqInv, NEW r \in Requests, ReadLosers(r)
    PROVE  SeqInv' /\ Kept
<1> DEFINE losers == Losers(req[r].e, req[r].v)
           rows == [x \in Subs |-> IF x \in losers THEN sub[x] ELSE None]
<1>1. req[r] \in Request /\ event[req[r].e].winner = req[r].v
  BY TellingFresh DEF ReadLosers, Telling
<1>2. CASE End(r)
  BY <1>2, ReadEnd DEF ReadLosers
<1>3. CASE Goto(r, [req[r] EXCEPT !.pc = "tellLoser", !.rows = rows])
  <2>1. PICK q : q = [req[r] EXCEPT !.pc = "tellLoser", !.rows = rows]
    OBVIOUS
  <2>2. q.pc = "tellLoser" /\ q.e = req[r].e /\ q.v = req[r].v /\ q.rows = rows
    BY <1>1, <2>1 DEF Request
  <2>3. \A x \in Subs : q.rows[x] # None => q.rows[x].vendor # q.v
    BY <2>2 DEF Losers
  <2>4. FreshReq(q)
    BY <1>1, <2>2, <2>3 DEF FreshReq, HoldsCopy, Selecting, Passed, Telling
  <2> QED
    BY <1>3, <2>1, <2>4, ReadTo DEF ReadLosers, Goto
<1> QED
  BY <1>2, <1>3 DEF ReadLosers

LEMMA SeqTellLoser ==
    ASSUME OneAtATime, IInv, SeqInv, NEW r \in Requests, NEW x \in Subs, TellLoser(r, x)
    PROVE  SeqInv' /\ Kept
<1>0. TypeOK
  BY DEF IInv
<1>1. /\ req[r] \in Request /\ req[r].e \in Events
      /\ event[req[r].e].winner = req[r].v /\ req[r].v # None
  BY TellingFresh DEF TellLoser, Telling
<1>2. \A y \in Subs : req[r].rows[y] # None => req[r].rows[y].vendor # req[r].v
  BY DEF TellLoser, SeqInv, FreshReq
<1>3. Kept /\ NewIsOpen'
  BY DEF TellLoser, Kept, WinnersStay, DeletedStay, ScoresStay, SeqInv, NewIsOpen
<1>4. PICK n : n = [kind |-> "loser", event |-> req[r].e, vendor |-> req[r].rows[x].vendor]
  OBVIOUS
<1>5. TrueVerdict(n)' /\ notice' \subseteq notice \cup {n}
  BY <1>1, <1>2, <1>4 DEF TrueVerdict, TellLoser, Todo
<1>6. VerdictsTrue'
  BY <1>0, <1>3, <1>5, VerdictsStay DEF SeqInv, Kept
<1>7. CASE End(r)
  BY <1>0, <1>3, <1>6, <1>7, Rests DEF SeqInv
<1>8. CASE Goto(r, [req[r] EXCEPT !.rows[x] = None])
  <2>1. PICK q : q = [req[r] EXCEPT !.rows[x] = None]
    OBVIOUS
  <2>2. /\ q.pc = "tellLoser" /\ q.e = req[r].e /\ q.v = req[r].v
        /\ \A y \in Subs : q.rows[y] # None => q.rows[y] = req[r].rows[y]
    BY <1>1, <2>1 DEF TellLoser, Request
  <2>3. FreshReq(q)'
    BY <1>1, <1>2, <2>2 DEF TellLoser, FreshReq, HoldsCopy, Selecting, Passed, Telling
  <2> QED
    BY <1>0, <1>3, <1>6, <1>8, <2>1, <2>3, OnlyRequest DEF SeqInv, Goto
<1> QED
  BY <1>7, <1>8 DEF TellLoser

-----------------------------------------------------------------------------
(* Surroundings.                                                           *)

LEMMA SeqVendors ==
    ASSUME OneAtATime, IInv, SeqInv, NEW r \in Requests, NEW v \in Vendors,
           (\E st \in Standings : UpdateVendorStatus(r, v, st)) \/ DeleteVendor(r, v)
    PROVE  SeqInv' /\ Kept
<1>0. TypeOK /\ UNCHANGED <<event, sub, notice, today, req>> /\ req[r].pc = "idle"
  BY DEF IInv, UpdateVendorStatus, DeleteVendor
<1>1. Kept /\ NewIsOpen'
  BY <1>0 DEF Kept, WinnersStay, DeletedStay, ScoresStay, SeqInv, NewIsOpen
<1>2. VerdictsTrue'
  BY <1>0, <1>1, SameVerdicts DEF SeqInv, Kept
<1> QED
  BY <1>0, <1>1, <1>2, Rests DEF SeqInv

LEMMA SeqStill ==
    ASSUME IInv, SeqInv, UNCHANGED <<event, sub, vendor, notice, req>>
    PROVE  SeqInv' /\ Kept
<1>1. Kept /\ NewIsOpen' /\ VerdictsTrue'
  BY DEF Kept, WinnersStay, DeletedStay, ScoresStay, SeqInv, NewIsOpen, VerdictsTrue, TrueVerdict
<1>2. ASSUME NEW q, FreshReq(q) PROVE FreshReq(q)'
  BY <1>2 DEF FreshReq, SameEvent, Live, VendorLive
<1>3. \A x \in Requests : FreshReq(req[x])'
  BY <1>2 DEF SeqInv
<1> QED
  BY <1>1, <1>3 DEF SeqInv

LEMMA SeqArrive ==
    ASSUME OneAtATime, IInv, SeqInv, NEW r \in Requests, Arrive(r)
    PROVE  SeqInv' /\ Kept
BY SeqCreateEvent, SeqBeginUpdate, SeqBeginDelete, SeqRefresh, SeqBeginPitch,
   SeqSelectWinner, SeqJudge, SeqVendors DEF Arrive

LEMMA SeqContinue ==
    ASSUME OneAtATime, IInv, SeqInv, NEW r \in Requests, Continue(r)
    PROVE  SeqInv' /\ Kept
BY SeqSaveUpdate, SeqNotifyOpen, SeqDeleteEvent, SeqSaveClosed, SeqSaveCompleted,
   SeqPitchReads, SeqCreateSubmission, SeqPitchFile, SeqSaveSubmission,
   SeqCheckWinnerVendor, SeqReadFlagged, SeqResetFlag, SeqReadWinningPitch,
   SeqSaveWinningPitch, SeqSaveWinner, SeqTellWinner, SeqReadLosers, SeqTellLoser
DEF Continue

LEMMA SeqNext ==
    ASSUME OneAtATime, IInv, SeqInv, [Next]_vars
    PROVE  SeqInv' /\ Kept
<1>1. ASSUME NEW r \in Requests, Abort(r) PROVE SeqInv' /\ Kept
  BY <1>1, ReadEnd DEF Abort
<1>2. CASE NextDay
  BY <1>2, SeqStill DEF NextDay
<1>3. CASE UNCHANGED vars
  BY <1>3, SeqStill DEF vars
<1> QED
  BY <1>1, <1>2, <1>3, SeqArrive, SeqContinue DEF Next

LEMMA SeqInit == Init => SeqInv
<1> SUFFICES ASSUME Init PROVE SeqInv
  OBVIOUS
<1>1. VerdictsTrue /\ NewIsOpen
  BY DEF Init, VerdictsTrue, TrueVerdict, NewIsOpen, Absent
<1>2. \A r \in Requests : FreshReq(req[r])
  BY FreshIdle, IdlePc DEF Init
<1> QED
  BY <1>1, <1>2 DEF SeqInv

-----------------------------------------------------------------------------
(* What holds because the copies are fresh.                                *)

LEMMA Sequential ==
    ASSUME OneAtATime
    PROVE  Spec => [](IInv /\ SeqInv)
<1>1. Init => IInv /\ SeqInv
  BY InitIInv, SeqInit
<1>2. (IInv /\ SeqInv) /\ [Next]_vars => (IInv /\ SeqInv)'
  BY NextIInv, SeqNext
<1> QED
  BY <1>1, <1>2, PTL DEF Spec

\* One request at a time, whoever was told that it won is the winner on
\* record, failing calls and suspended winners included: WinnerVendorID
\* points into the copy that Save writes the preloaded winner through.
THEOREM ToldWinner ==
    ASSUME OneAtATime
    PROVE  Spec => []ToldWinnerIsWinner
<1>1. IInv /\ SeqInv => ToldWinnerIsWinner
  BY DEF SeqInv, VerdictsTrue, TrueVerdict, ToldWinnerIsWinner
<1> QED
  BY Sequential, <1>1, PTL

\* One request at a time, nobody is told both verdicts on an event, however
\* often its winner is selected again.
THEOREM OneVerdictEach ==
    ASSUME OneAtATime
    PROVE  Spec => []OneVerdict
<1>1. ASSUME IInv, SeqInv PROVE OneVerdict
  <2> SUFFICES ASSUME NEW n \in notice, NEW m \in notice, n.kind = "winner",
                      m.kind = "loser", n.event = m.event
               PROVE  n.vendor # m.vendor
    BY DEF OneVerdict
  <2>1. n.vendor = event[n.event].winner
    BY <1>1 DEF SeqInv, VerdictsTrue, TrueVerdict
  <2>2. m.vendor # event[m.event].winner
    BY <1>1 DEF SeqInv, VerdictsTrue, TrueVerdict
  <2> QED
    BY <2>1, <2>2
<1> QED
  BY Sequential, <1>1, PTL

\* One request at a time, a deleted event stays deleted: every handler that
\* saves an event has found it, and nobody deletes it before the Save.
THEOREM DeletedStays ==
    ASSUME OneAtATime
    PROVE  Spec => DeletedStaysDeleted
<1>1. IInv /\ SeqInv /\ [Next]_vars =>
        [\A e \in Events : event[e].state = "deleted" => event'[e].state = "deleted"]_vars
  BY SeqNext DEF Kept, DeletedStay
<1> QED
  BY Sequential, <1>1, PTL DEF Spec, DeletedStaysDeleted

\* One request at a time, a score that was given is never lost: each Save of
\* a submission writes back the score it has read.
THEOREM ScoreStays ==
    ASSUME OneAtATime
    PROVE  Spec => ScoreKept
<1>1. IInv /\ SeqInv /\ [Next]_vars =>
        [\A s \in Subs : Exists(s) /\ sub[s].scored => sub'[s].scored]_vars
  BY SeqNext DEF Kept, ScoresStay
<1> QED
  BY Sequential, <1>1, PTL DEF Spec, ScoreKept

\* One request at a time, the winner on record is final, a suspended one
\* included: what SelectWinner saves after a suspension is the old winner,
\* through the preloaded association.
THEOREM WinnerStays ==
    ASSUME OneAtATime
    PROVE  Spec => [][\A e \in Events :
                        event[e].winner # None => event'[e].winner = event[e].winner]_vars
<1>1. IInv /\ SeqInv /\ [Next]_vars =>
        [\A e \in Events : event[e].winner # None => event'[e].winner = event[e].winner]_vars
  BY SeqNext DEF Kept, WinnersStay
<1> QED
  BY Sequential, <1>1, PTL DEF Spec

LEMMA EventFields ==
    ASSUME NEW a \in EventRow, NEW b \in EventRow, a.state = b.state,
           a.winner = b.winner, a.endDate = b.endDate
    PROVE  [a EXCEPT !.status = b.status] = b
BY DEF EventRow

\* One request at a time, the refresh of the status leaves the winner, the
\* end date and the deletion of every event as they are.
THEOREM RefreshKeeps ==
    ASSUME OneAtATime
    PROVE  Spec => RefreshKeepsTheRest
<1>1. ASSUME IInv, SeqInv, NEW r \in Requests, SaveClosed(r) \/ SaveCompleted(r),
             event' \in [Events -> EventRow], NEW e \in Events
      PROVE  [event'[e] EXCEPT !.status = event[e].status] = event[e]
  <2>0. event \in [Events -> EventRow]
    BY <1>1 DEF IInv, TypeOK
  <2>1. /\ req[r].e \in Events /\ SameEvent(req[r].e, req[r].ev)
        /\ req[r].ev.endDate = event[req[r].e].endDate
    BY <1>1, Refreshing DEF SaveClosed, SaveCompleted
  <2>2. Saved(req[r].ev).winner = event[req[r].e].winner
    BY <2>1, SavedWinner
  <2>3. /\ event'[e].state = event[e].state /\ event'[e].winner = event[e].winner
        /\ event'[e].endDate = event[e].endDate
    <3>1. CASE UNCHANGED event
      BY <3>1
    <3>2. CASE event' = [event EXCEPT ![req[r].e] = Saved(req[r].ev)]
      BY <2>0, <2>1, <2>2, <3>2 DEF Saved, SameEvent, Live
    <3> QED
      BY <1>1, <3>1, <3>2 DEF SaveClosed, SaveCompleted
  <2> QED
    BY <1>1, <2>0, <2>3, EventFields
<1>2. IInv /\ SeqInv /\ IInv' =>
        [\A r \in Requests : SaveClosed(r) \/ SaveCompleted(r) =>
          \A e \in Events : [event'[e] EXCEPT !.status = event[e].status] = event[e]]_vars
  <2>1. IInv' => event' \in [Events -> EventRow]
    BY DEF IInv, TypeOK
  <2> QED
    BY <1>1, <2>1
<1> QED
  BY Sequential, <1>2, PTL DEF Spec, RefreshKeepsTheRest

-----------------------------------------------------------------------------
(* The refinement: what Award promises.                                    *)

Pitches == {<<sub[s].event, sub[s].vendor>> : s \in {x \in Subs : Exists(x)}}
Chosen == [e \in Events |-> event[e].winner]
Suspended == {v \in Vendors : vendor[v].status = "suspended"}

\* Who writes submissions, events and vendors.
LEMMA SubWrites ==
    ASSUME [Next]_vars
    PROVE  \/ UNCHANGED sub
           \/ \E r \in Requests :
                \/ SaveSubmission(r) \/ SaveWinningPitch(r)
                \/ CreateSubmission(r) \/ PitchFile(r)
                \/ \E x \in Subs : ResetFlag(r, x)
<1>1. ASSUME NEW r \in Requests, Arrive(r) PROVE UNCHANGED sub
  BY <1>1 DEF Arrive, CreateEvent, BeginUpdate, BeginDelete, ViewEvent, ListEvents, Refresh,
              BeginPitch, SelectWinner, ScoreSubmission, ShortlistSubmission,
              UpdateVendorStatus, DeleteVendor
<1>2. ASSUME NEW r \in Requests, Continue(r)
      PROVE  \/ UNCHANGED sub \/ SaveSubmission(r) \/ SaveWinningPitch(r)
             \/ CreateSubmission(r) \/ PitchFile(r)
             \/ \E x \in Subs : ResetFlag(r, x)
  BY <1>2 DEF Continue, SaveUpdate, NotifyOpen, DeleteEvent, SaveClosed, SaveCompleted,
              PitchReadEvent, PitchCheckExisting, CheckWinnerVendor, ReadFlagged,
              ReadWinningPitch, SaveWinner, TellWinner, ReadLosers, TellLoser
<1>3. ASSUME NEW r \in Requests, Abort(r) PROVE UNCHANGED sub
  BY <1>3 DEF Abort
<1>4. NextDay \/ UNCHANGED vars => UNCHANGED sub
  BY DEF NextDay, vars
<1> QED
  BY <1>1, <1>2, <1>3, <1>4 DEF Next

LEMMA EventWrites ==
    ASSUME [Next]_vars
    PROVE  \/ UNCHANGED event
           \/ \E r \in Requests :
                \/ \E e \in Events, d \in Days \cup {None} : CreateEvent(r, e, d)
                \/ SaveUpdate(r) \/ DeleteEvent(r) \/ SaveClosed(r) \/ SaveCompleted(r)
                \/ SaveWinner(r)
<1>1. ASSUME NEW r \in Requests, Arrive(r)
      PROVE  \/ UNCHANGED event
             \/ \E e \in Events, d \in Days \cup {None} : CreateEvent(r, e, d)
  BY <1>1 DEF Arrive, BeginUpdate, BeginDelete, ViewEvent, ListEvents, Refresh,
              BeginPitch, SelectWinner, ScoreSubmission, ShortlistSubmission,
              UpdateVendorStatus, DeleteVendor
<1>2. ASSUME NEW r \in Requests, Continue(r)
      PROVE  \/ UNCHANGED event \/ SaveUpdate(r) \/ DeleteEvent(r) \/ SaveClosed(r)
             \/ SaveCompleted(r) \/ SaveWinner(r)
  BY <1>2 DEF Continue, NotifyOpen, PitchReadEvent, PitchCheckExisting, CreateSubmission,
              PitchFile, SaveSubmission, CheckWinnerVendor, ReadFlagged, ResetFlag,
              ReadWinningPitch, SaveWinningPitch, TellWinner, ReadLosers, TellLoser
<1>3. ASSUME NEW r \in Requests, Abort(r) PROVE UNCHANGED event
  BY <1>3 DEF Abort
<1>4. NextDay \/ UNCHANGED vars => UNCHANGED event
  BY DEF NextDay, vars
<1> QED
  BY <1>1, <1>2, <1>3, <1>4 DEF Next

LEMMA VendorWrites ==
    ASSUME [Next]_vars
    PROVE  \/ UNCHANGED vendor
           \/ \E r \in Requests, v \in Vendors :
                \/ \E st \in Standings : UpdateVendorStatus(r, v, st)
                \/ DeleteVendor(r, v)
<1>1. ASSUME NEW r \in Requests, Arrive(r)
      PROVE  \/ UNCHANGED vendor
             \/ \E v \in Vendors : \/ \E st \in Standings : UpdateVendorStatus(r, v, st)
                                   \/ DeleteVendor(r, v)
  BY <1>1 DEF Arrive, CreateEvent, BeginUpdate, BeginDelete, ViewEvent, ListEvents, Refresh,
              BeginPitch, SelectWinner, ScoreSubmission, ShortlistSubmission
<1>2. ASSUME NEW r \in Requests, Continue(r) PROVE UNCHANGED vendor
  BY <1>2 DEF Continue, SaveUpdate, NotifyOpen, DeleteEvent, SaveClosed, SaveCompleted,
              PitchReadEvent, PitchCheckExisting, CreateSubmission, PitchFile, SaveSubmission,
              CheckWinnerVendor, ReadFlagged, ResetFlag, ReadWinningPitch, SaveWinningPitch,
              SaveWinner, TellWinner, ReadLosers, TellLoser
<1>3. ASSUME NEW r \in Requests, Abort(r) PROVE UNCHANGED vendor
  BY <1>3 DEF Abort
<1>4. NextDay \/ UNCHANGED vars => UNCHANGED vendor
  BY DEF NextDay, vars
<1> QED
  BY <1>1, <1>2, <1>3, <1>4 DEF Next

\* A write keeps the ids of the rows and adds none, unless it is the insert.
SameRows ==
    \A s \in Subs : /\ sub'[s] # None <=> sub[s] # None
                    /\ sub[s] # None => /\ sub'[s].event = sub[s].event
                                        /\ sub'[s].vendor = sub[s].vendor

LEMMA RowSaved ==
    ASSUME TypeOK, NEW s, NEW c, SameIds(s, c), sub' = [sub EXCEPT ![s] = SavedSub(s, c)]
    PROVE  SameRows
<1>1. sub[s] \in SubRow
  BY DEF TypeOK, SameIds, Exists
<1>2. /\ SavedSub(s, c) \in SubRow
      /\ SavedSub(s, c).event = sub[s].event /\ SavedSub(s, c).vendor = sub[s].vendor
  BY <1>1 DEF SavedSub, SameIds, SubRow
<1>3. SavedSub(s, c) # None
  BY <1>2, NoneAssumption
<1> QED
  BY <1>2, <1>3 DEF SameRows, TypeOK, SameIds, Exists

LEMMA RowsSame ==
    ASSUME IInv, [Next]_vars, \A r \in Requests : ~CreateSubmission(r)
    PROVE  SameRows
<1>0. TypeOK
  BY DEF IInv
<1>1. CASE UNCHANGED sub
  BY <1>1 DEF SameRows
<1>2. ASSUME NEW r \in Requests, SaveSubmission(r) \/ SaveWinningPitch(r) PROVE SameRows
  <2>1. SameIds(req[r].s, req[r].sb)
    BY <1>2 DEF SaveSubmission, SaveWinningPitch, IInv, ReqOK
  <2> QED
    BY <1>0, <1>2, <2>1, RowSaved DEF SaveSubmission, SaveWinningPitch
<1>3. ASSUME NEW r \in Requests, PitchFile(r) PROVE SameRows
  <2>1. req[r].s \in Subs /\ sub[req[r].s] \in SubRow
    BY <1>3 DEF PitchFile, IInv, TypeOK, ReqOK, Exists
  <2>2. PICK ok \in BOOLEAN : sub' = [sub EXCEPT ![req[r].s].file = ok]
    BY <1>3 DEF PitchFile
  <2>3. PICK row : row = [sub[req[r].s] EXCEPT !.file = ok]
    OBVIOUS
  <2>4. row \in SubRow /\ row.event = sub[req[r].s].event /\ row.vendor = sub[req[r].s].vendor
    BY <2>1, <2>3 DEF SubRow
  <2>5. sub' = [sub EXCEPT ![req[r].s] = row] /\ row # None
    BY <2>2, <2>3, <2>4, NoneAssumption
  <2> QED
    BY <1>0, <2>1, <2>4, <2>5, NoneAssumption DEF SameRows, TypeOK
<1>4. ASSUME NEW r \in Requests, NEW x \in Subs, ResetFlag(r, x) PROVE SameRows
  <2>1. SameIds(x, req[r].rows[x])
    BY <1>4 DEF ResetFlag, Todo, IInv, ReqOK
  <2>2. SameIds(x, [req[r].rows[x] EXCEPT !.isWinner = FALSE])
    BY <2>1 DEF SameIds, SubRow
  <2> QED
    BY <1>0, <1>1, <1>4, <2>2, RowSaved DEF ResetFlag
<1> QED
  BY <1>1, <1>2, <1>3, <1>4, SubWrites

LEMMA PitchesSame == ASSUME SameRows PROVE Pitches' = Pitches
BY DEF SameRows, Pitches, Exists

\* No handler but SelectWinner changes a winner.
LEMMA WinnersSame ==
    ASSUME IInv, SeqInv, [Next]_vars, \A r \in Requests : ~SaveWinner(r)
    PROVE  \A e \in Events : event'[e].winner = event[e].winner
<1>0. TypeOK
  BY DEF IInv
<1>1. CASE UNCHANGED event
  BY <1>1
<1>2. ASSUME NEW r \in Requests, NEW e \in Events, NEW d \in Days \cup {None},
             CreateEvent(r, e, d)
      PROVE  \A x \in Events : event'[x].winner = event[x].winner
  BY <1>0, <1>2 DEF CreateEvent, TypeOK, SeqInv, NewIsOpen
<1>3. ASSUME NEW r \in Requests, req[r].pc \in {"update", "close", "complete"},
             event' = [event EXCEPT ![req[r].e] = Saved(req[r].ev)]
      PROVE  \A x \in Events : event'[x].winner = event[x].winner
  <2>1. SameEvent(req[r].e, req[r].ev)
    BY <1>3 DEF SeqInv, FreshReq, HoldsCopy
  <2>2. Saved(req[r].ev).winner = event[req[r].e].winner
    BY <2>1, SavedWinner
  <2> QED
    BY <1>0, <1>3, <2>2 DEF TypeOK
<1>4. ASSUME NEW r \in Requests, DeleteEvent(r)
      PROVE  \A x \in Events : event'[x].winner = event[x].winner
  <2>1. \A row \in EventRow : [row EXCEPT !.state = "deleted"].winner = row.winner
    BY DEF EventRow
  <2> QED
    BY <1>0, <1>4, <2>1 DEF DeleteEvent, TypeOK
<1> QED
  BY <1>1, <1>2, <1>3, <1>4, EventWrites DEF SaveUpdate, SaveClosed, SaveCompleted

LEMMA ChosenSame ==
    ASSUME \A e \in Events : event'[e].winner = event[e].winner
    PROVE  Chosen' = Chosen
BY DEF Chosen

LEMMA InsertIsPitch ==
    ASSUME IInv, NEW r \in Requests, CreateSubmission(r), ~UNCHANGED sub
    PROVE  \E e \in Events, v \in Vendors :
              Pitches' = Pitches \cup {<<e, v>>} /\ UNCHANGED <<event, vendor>>
<1>1. req[r].e \in Events /\ req[r].v \in Vendors
  BY DEF CreateSubmission, IInv, ReqOK, Pitching
<1>2. PICK s \in Subs :
        /\ ~Exists(s)
        /\ sub' = [sub EXCEPT ![s] = [event |-> req[r].e, vendor |-> req[r].v,
                                      isWinner |-> FALSE, scored |-> FALSE, file |-> FALSE]]
  BY DEF CreateSubmission
<1>3. PICK row : row = [event |-> req[r].e, vendor |-> req[r].v, isWinner |-> FALSE,
                        scored |-> FALSE, file |-> FALSE]
  OBVIOUS
<1>4. row \in SubRow /\ row.event = req[r].e /\ row.vendor = req[r].v
  BY <1>1, <1>3 DEF SubRow
<1>5. sub'[s] = row /\ row # None /\ \A x \in Subs \ {s} : sub'[x] = sub[x]
  BY <1>2, <1>3, <1>4, NoneAssumption DEF IInv, TypeOK
<1>6. Pitches' = Pitches \cup {<<req[r].e, req[r].v>>}
  <2>1. \A p : p \in Pitches' <=>
            \E x \in Subs : sub'[x] # None /\ p = <<sub'[x].event, sub'[x].vendor>>
    BY DEF Pitches, Exists
  <2>2. \A p : p \in Pitches <=>
            \E x \in Subs : sub[x] # None /\ p = <<sub[x].event, sub[x].vendor>>
    BY DEF Pitches, Exists
  <2>3. \A p : p \in Pitches' <=> p \in Pitches \/ p = <<req[r].e, req[r].v>>
    <3>1. ASSUME NEW p \in Pitches' PROVE p \in Pitches \/ p = <<req[r].e, req[r].v>>
      <4>1. PICK x \in Subs : sub'[x] # None /\ p = <<sub'[x].event, sub'[x].vendor>>
        BY <2>1
      <4>2. CASE x = s
        BY <1>4, <1>5, <4>1, <4>2
      <4>3. CASE x # s
        BY <1>5, <2>2, <4>1, <4>3
      <4> QED
        BY <4>2, <4>3
    <3>2. ASSUME NEW p \in Pitches PROVE p \in Pitches'
      <4>1. PICK x \in Subs : sub[x] # None /\ p = <<sub[x].event, sub[x].vendor>>
        BY <2>2
      <4>2. sub'[x] = sub[x]
        BY <1>2, <1>5, <4>1 DEF Exists
      <4> QED
        BY <2>1, <4>1, <4>2
    <3>3. <<req[r].e, req[r].v>> \in Pitches'
      BY <1>4, <1>5, <2>1
    <3> QED
      BY <3>1, <3>2, <3>3
  <2> QED
    BY <2>3
<1> QED
  BY <1>1, <1>6 DEF CreateSubmission

LEMMA SaveIsChoice ==
    ASSUME IInv, SeqInv, NEW r \in Requests, SaveWinner(r)
    PROVE  /\ UNCHANGED <<sub, vendor>>
           /\ \/ \A e \in Events : event'[e].winner = event[e].winner
              \/ \E e \in Events, v \in Vendors :
                    /\ <<e, v>> \in Pitches /\ event[e].winner = None
                    /\ Chosen' = [Chosen EXCEPT ![e] = v]
<1>0. event \in [Events -> EventRow]
  BY DEF IInv, TypeOK
<1>1. /\ req[r].e \in Events /\ req[r].ev \in EventCopy
      /\ req[r].ev.loaded = event[req[r].e].winner
  BY PassedFresh DEF SaveWinner, Passed
<1>2. CopyOK(req[r].e, req[r].ev) /\ req[r].ev.winner # None
  BY DEF SaveWinner, IInv, ReqOK, HoldsCopy, Selecting
<1>3. /\ event'[req[r].e] = Saved(req[r].ev)
      /\ \A x \in Events \ {req[r].e} : event'[x] = event[x]
  BY <1>0, <1>1 DEF SaveWinner
<1>4. CASE event[req[r].e].winner # None
  <2>1. Saved(req[r].ev).winner = event[req[r].e].winner
    BY <1>1, <1>4 DEF Saved
  <2> QED
    BY <1>3, <2>1 DEF SaveWinner
<1>5. CASE event[req[r].e].winner = None
  <2>1. PICK v : v = req[r].ev.winner
    OBVIOUS
  <2>2. v \in Vendors /\ Pitched(req[r].e, v)
    BY <1>1, <1>2, <2>1 DEF CopyOK, EventCopy
  <2>3. Saved(req[r].ev).winner = v
    BY <1>1, <1>5, <2>1 DEF Saved
  <2>4. <<req[r].e, v>> \in Pitches
    BY <2>2 DEF Pitches, Pitched, SubsOf
  <2>5. Chosen' = [Chosen EXCEPT ![req[r].e] = v]
    BY <1>3, <2>3 DEF Chosen
  <2> QED
    BY <1>1, <1>5, <2>2, <2>4, <2>5 DEF SaveWinner
<1> QED
  BY <1>4, <1>5

LEMMA StandingIsSuspension ==
    ASSUME IInv, NEW r \in Requests, NEW v \in Vendors,
           (\E st \in Standings : UpdateVendorStatus(r, v, st)) \/ DeleteVendor(r, v)
    PROVE  /\ UNCHANGED <<event, sub>>
           /\ Suspended' \in {Suspended, Suspended \cup {v}, Suspended \ {v}}
<1>0. vendor \in [Vendors -> VendorRow]
  BY DEF IInv, TypeOK
<1>1. ASSUME NEW st \in Standings, UpdateVendorStatus(r, v, st)
      PROVE  Suspended' \in {Suspended \cup {v}, Suspended \ {v}}
  <2>1. vendor'[v].status = st /\ \A x \in Vendors \ {v} : vendor'[x] = vendor[x]
    BY <1>0, <1>1 DEF UpdateVendorStatus, VendorRow
  <2>2. CASE st = "suspended"
    BY <2>1, <2>2 DEF Suspended
  <2>3. CASE st # "suspended"
    BY <2>1, <2>3 DEF Suspended
  <2> QED
    BY <2>2, <2>3
<1>2. DeleteVendor(r, v) => Suspended' = Suspended
  <2> SUFFICES ASSUME DeleteVendor(r, v) PROVE Suspended' = Suspended
    OBVIOUS
  <2>1. \A x \in Vendors : vendor'[x].status = vendor[x].status
    BY <1>0 DEF DeleteVendor, VendorRow
  <2> QED
    BY <2>1 DEF Suspended
<1> QED
  BY <1>1, <1>2 DEF UpdateVendorStatus, DeleteVendor

\* Every step is a step of Award or leaves what Award speaks of alone.
LEMMA StepIsAward ==
    ASSUME IInv, SeqInv, [Next]_vars
    PROVE  [Promise!Next]_(Promise!vars)
<1>1. /\ Promise!vars = <<Pitches, Chosen, Suspended>>
      /\ Promise!vars' = <<Pitches', Chosen', Suspended'>>
  BY DEF Promise!vars, Pitches, Chosen, Suspended
<1>2. ASSUME NEW e \in Events, NEW v \in Vendors, Pitches' = Pitches \cup {<<e, v>>},
             Chosen' = Chosen, Suspended' = Suspended
      PROVE  Promise!Next
  BY <1>2 DEF Promise!Next, Promise!Pitch, Pitches, Chosen, Suspended
<1>3. ASSUME NEW e \in Events, NEW v \in Vendors, <<e, v>> \in Pitches, Chosen[e] = None,
             Chosen' = [Chosen EXCEPT ![e] = v], Pitches' = Pitches, Suspended' = Suspended
      PROVE  Promise!Next
  BY <1>3 DEF Promise!Next, Promise!Choose, Pitches, Chosen, Suspended
<1>4. ASSUME NEW v \in Vendors, Suspended' \in {Suspended \cup {v}, Suspended \ {v}},
             Pitches' = Pitches, Chosen' = Chosen
      PROVE  Promise!Next
  BY <1>4 DEF Promise!Next, Promise!Suspend, Promise!Reinstate, Pitches, Chosen, Suspended
<1>5. UNCHANGED sub => Pitches' = Pitches
  BY DEF Pitches, Exists
<1>6. UNCHANGED event => Chosen' = Chosen
  BY DEF Chosen
<1>7. UNCHANGED vendor => Suspended' = Suspended
  BY DEF Suspended
<1>8. CASE \E r \in Requests : CreateSubmission(r) /\ ~UNCHANGED sub
  BY <1>2, <1>6, <1>7, <1>8, InsertIsPitch
<1>9. CASE \E r \in Requests : SaveWinner(r)
  <2>1. /\ UNCHANGED <<sub, vendor>>
        /\ \/ \A e \in Events : event'[e].winner = event[e].winner
           \/ \E e \in Events, v \in Vendors :
                 /\ <<e, v>> \in Pitches /\ event[e].winner = None
                 /\ Chosen' = [Chosen EXCEPT ![e] = v]
    BY <1>9, SaveIsChoice
  <2>2. \A e \in Events : Chosen[e] = event[e].winner
    BY DEF Chosen
  <2> QED
    BY <1>1, <1>3, <1>5, <1>7, <2>1, <2>2, ChosenSame
<1>10. CASE \E r \in Requests, v \in Vendors :
              \/ \E st \in Standings : UpdateVendorStatus(r, v, st)
              \/ DeleteVendor(r, v)
  BY <1>1, <1>4, <1>5, <1>6, <1>10, StandingIsSuspension
<1>11. CASE /\ \A r \in Requests : CreateSubmission(r) => UNCHANGED sub
            /\ \A r \in Requests : ~SaveWinner(r)
            /\ UNCHANGED vendor
  <2>1. Pitches' = Pitches
    BY <1>5, <1>11, RowsSame, PitchesSame
  <2>2. Chosen' = Chosen
    BY <1>11, WinnersSame, ChosenSame
  <2> QED
    BY <1>1, <1>7, <1>11, <2>1, <2>2
<1> QED
  BY <1>8, <1>9, <1>10, <1>11, VendorWrites

\* One request at a time, events keep what Award promises: a winner is
\* chosen among the pitches, and never again unless it is suspended, through
\* every handler with its eight calls, failures and deaths half-way.
THEOREM ImplementsAward ==
    ASSUME OneAtATime
    PROVE  Spec => AwardKept
<1>1. Init => Promise!Init
  BY DEF Init, Absent, Exists, Promise!Init
<1>2. IInv /\ SeqInv /\ [Next]_vars => [Promise!Next]_(Promise!vars)
  BY StepIsAward
<1> QED
  BY Sequential, <1>1, <1>2, PTL DEF Spec, AwardKept, Promise!Spec

-----------------------------------------------------------------------------
(* The winner's flag, when no call fails.                                  *)

\* No row is flagged by the step, and flagged rows stay in their event.
NoNewFlags ==
    \A s \in Subs : sub'[s] # None /\ sub'[s].isWinner =>
        /\ sub[s] # None /\ sub[s].isWinner
        /\ sub'[s].event = sub[s].event

LEMMA FewerFlags ==
    ASSUME NoNewFlags, NEW e
    PROVE  Flagged(e)' \subseteq Flagged(e)
BY DEF NoNewFlags, Flagged, SubsOf, Exists

\* Only SaveWinningPitch flags a row.
LEMMA FlagsOnlyByChoice ==
    ASSUME IInv, \A r \in Requests : FlagReq(req[r]), [Next]_vars,
           \A r \in Requests : ~SaveWinningPitch(r)
    PROVE  NoNewFlags
<1>0. TypeOK
  BY DEF IInv
<1>1. CASE UNCHANGED sub
  BY <1>1 DEF NoNewFlags
<1>2. ASSUME NEW r \in Requests, SaveSubmission(r) PROVE NoNewFlags
  <2>1. SameIds(req[r].s, req[r].sb) /\ req[r].sb.isWinner = sub[req[r].s].isWinner
    BY <1>2 DEF SaveSubmission, IInv, ReqOK, FlagReq
  <2>2. /\ SavedSub(req[r].s, req[r].sb).isWinner = sub[req[r].s].isWinner
        /\ SavedSub(req[r].s, req[r].sb).event = sub[req[r].s].event
    BY <2>1 DEF SavedSub, SameIds, SubRow
  <2> QED
    BY <1>0, <1>2, <2>1, <2>2 DEF NoNewFlags, SaveSubmission, TypeOK, SameIds, Exists
<1>3. ASSUME NEW r \in Requests, CreateSubmission(r) PROVE NoNewFlags
  <2>1. ASSUME NEW s \in Subs,
               sub' = [sub EXCEPT ![s] = [event |-> req[r].e, vendor |-> req[r].v,
                                          isWinner |-> FALSE, scored |-> FALSE, file |-> FALSE]]
        PROVE  NoNewFlags
    <3>1. sub'[s].isWinner = FALSE
      BY <1>0, <2>1 DEF TypeOK
    <3>2. \A x \in Subs \ {s} : sub'[x] = sub[x]
      BY <1>0, <2>1 DEF TypeOK
    <3> QED
      BY <3>1, <3>2 DEF NoNewFlags
  <2> QED
    BY <1>1, <1>3, <2>1 DEF CreateSubmission
<1>4. ASSUME NEW r \in Requests, PitchFile(r) PROVE NoNewFlags
  <2>1. req[r].s \in Subs /\ sub[req[r].s] \in SubRow
    BY <1>4 DEF PitchFile, IInv, TypeOK, ReqOK, Exists
  <2>2. PICK ok \in BOOLEAN : sub' = [sub EXCEPT ![req[r].s].file = ok]
    BY <1>4 DEF PitchFile
  <2>3. /\ sub'[req[r].s].isWinner = sub[req[r].s].isWinner
        /\ sub'[req[r].s].event = sub[req[r].s].event
        /\ \A x \in Subs \ {req[r].s} : sub'[x] = sub[x]
    BY <1>0, <2>1, <2>2 DEF TypeOK, SubRow
  <2> QED
    BY <2>1, <2>3, NoneAssumption DEF NoNewFlags
<1>5. ASSUME NEW r \in Requests, NEW x \in Subs, ResetFlag(r, x) PROVE NoNewFlags
  <2>1. req[r].rows[x] \in SubRow
    BY <1>5 DEF ResetFlag, Todo, IInv, ReqOK, SameIds
  <2>2. SavedSub(x, [req[r].rows[x] EXCEPT !.isWinner = FALSE]).isWinner = FALSE
    BY <2>1 DEF SavedSub, SubRow
  <2> QED
    BY <1>0, <1>1, <1>5, <2>2 DEF ResetFlag, NoNewFlags, TypeOK
<1> QED
  BY <1>1, <1>2, <1>3, <1>4, <1>5, SubWrites

\* The points of a handler at which it knows something of the flags.
Judging == {"saveSub", "winPitch", "winSaveSub", "winReset"}

LEMMA FlagElsewhere == ASSUME NEW q, q.pc \notin Judging PROVE FlagReq(q)'
BY DEF FlagReq, Judging

\* The points of a selection, up to its last Save, and those at which a
\* request knows something of the flags.
Choices == {"winVendor", "winRows", "winReset", "winPitch", "winSaveSub", "winSaveEvent"}
Points == {"saveSub"} \cup Choices

\* The eight steps that lead there; every other one leads elsewhere.
LEMMA Leads ==
    ASSUME IInv, NEW r \in Requests, Arrive(r) \/ Continue(r),
           ~\E s \in Subs : ScoreSubmission(r, s) \/ ShortlistSubmission(r, s),
           ~\E e \in Events, s \in Subs : SelectWinner(r, e, s),
           ~CheckWinnerVendor(r), ~ReadFlagged(r), ~\E x \in Subs : ResetFlag(r, x),
           ~ReadWinningPitch(r), ~SaveWinningPitch(r)
    PROVE  req'[r].pc \notin Points
<1>0. req \in [Requests -> Request] /\ req[r] \in Request
  BY DEF IInv, TypeOK
<1>1. ASSUME NEW rec, req' = [req EXCEPT ![r] = rec], rec.pc \notin Points
      PROVE  req'[r].pc \notin Points
  BY <1>0, <1>1
<1>2. ASSUME NEW pc, pc \notin Points, req' = [req EXCEPT ![r] = [req[r] EXCEPT !.pc = pc]]
      PROVE  req'[r].pc \notin Points
  BY <1>0, <1>2 DEF Request
<1>3. End(r) => req'[r].pc \notin Points
  BY <1>1, IdlePc DEF End, Points, Choices
<1>4. ASSUME req[r].pc = "idle", req' = req PROVE req'[r].pc \notin Points
  BY <1>4 DEF Points, Choices
<1>5. CASE Arrive(r)
  <2>1. ASSUME NEW e \in Events, BeginUpdate(r, e) PROVE req'[r].pc = "update"
    BY <1>0, <2>1 DEF BeginUpdate, Begin, Idle
  <2>2. ASSUME NEW e \in Events, BeginDelete(r, e) PROVE req'[r].pc = "delete"
    BY <1>0, <2>2 DEF BeginDelete, Begin, Idle
  <2>3. ASSUME NEW e \in Events, ViewEvent(r, e) \/ ListEvents(r, e)
        PROVE  req'[r].pc \in {"close", "complete"}
    BY <1>0, <2>3 DEF ViewEvent, ListEvents, Refresh, Begin, Idle
  <2>4. ASSUME NEW e \in Events, NEW v \in Vendors, BeginPitch(r, e, v)
        PROVE  req'[r].pc = "pitchEvent"
    BY <1>0, <2>4 DEF BeginPitch, Begin, Idle
  <2>5. \/ \E e \in Events, d \in Days \cup {None} : CreateEvent(r, e, d)
        \/ \E e \in Events : BeginUpdate(r, e) \/ BeginDelete(r, e)
                             \/ ViewEvent(r, e) \/ ListEvents(r, e)
        \/ \E e \in Events, v \in Vendors : BeginPitch(r, e, v)
        \/ \E v \in Vendors, st \in Standings : UpdateVendorStatus(r, v, st)
        \/ \E v \in Vendors : DeleteVendor(r, v)
    BY <1>5 DEF Arrive
  <2>6. CASE \/ \E e \in Events, d \in Days \cup {None} : CreateEvent(r, e, d)
             \/ \E v \in Vendors, st \in Standings : UpdateVendorStatus(r, v, st)
             \/ \E v \in Vendors : DeleteVendor(r, v)
    BY <1>4, <2>6 DEF CreateEvent, UpdateVendorStatus, DeleteVendor
  <2> QED
    BY <2>1, <2>2, <2>3, <2>4, <2>5, <2>6 DEF Points, Choices
<1>6. CASE Continue(r)
  <2>1. CASE SaveUpdate(r)
    BY <1>3, <1>0, <2>1 DEF SaveUpdate, Goto, Idle, Points, Choices
  <2>2. CASE NotifyOpen(r) \/ DeleteEvent(r) \/ SaveCompleted(r)
    BY <1>3, <2>2 DEF NotifyOpen, DeleteEvent, SaveCompleted
  <2>3. CASE SaveClosed(r)
    <3>1. CASE Goto(r, [req[r] EXCEPT !.pc = "complete", !.ev.status = "completed"])
      <4>1. req'[r].pc = "complete"
        BY <1>0, <3>1 DEF Goto, Request
      <4> QED
        BY <4>1 DEF Points, Choices
    <3> QED
      BY <1>3, <2>3, <3>1 DEF SaveClosed
  <2>4. CASE PitchReadEvent(r) \/ PitchCheckExisting(r)
    BY <1>2, <1>3, <2>4 DEF PitchReadEvent, PitchCheckExisting, Goto, Points, Choices
  <2>5. CASE CreateSubmission(r)
    <3>1. ASSUME NEW s \in Subs, Goto(r, [req[r] EXCEPT !.pc = "pitchFile", !.s = s])
          PROVE  req'[r].pc \notin Points
      BY <1>0, <3>1 DEF Goto, Request, Points, Choices
    <3> QED
      BY <1>3, <2>5, <3>1 DEF CreateSubmission
  <2>6. CASE PitchFile(r) \/ SaveSubmission(r)
    BY <1>3, <2>6 DEF PitchFile, SaveSubmission
  <2>9. CASE SaveWinner(r)
    BY <1>0, <1>3, <2>9 DEF SaveWinner, Goto, Idle, Points, Choices
  <2>10. CASE TellWinner(r)
    BY <1>2, <2>10 DEF TellWinner, Goto, Points, Choices
  <2>11. CASE ReadLosers(r)
    <3>1. ASSUME NEW rows, Goto(r, [req[r] EXCEPT !.pc = "tellLoser", !.rows = rows])
          PROVE  req'[r].pc \notin Points
      <4>1. req'[r].pc = "tellLoser"
        BY <1>0, <3>1 DEF Goto, Request
      <4> QED
        BY <4>1 DEF Points, Choices
    <3> QED
      BY <1>3, <2>11, <3>1 DEF ReadLosers
  <2>12. ASSUME NEW x \in Subs, TellLoser(r, x) PROVE req'[r].pc \notin Points
    BY <1>0, <1>3, <2>12 DEF TellLoser, Goto, Request, Points, Choices
  <2> QED
    BY <1>6, <2>1, <2>2, <2>3, <2>4, <2>5, <2>6, <2>9, <2>10, <2>11, <2>12 DEF Continue
<1> QED
  BY <1>5, <1>6

LEMMA JudgeLeads ==
    ASSUME IInv, NEW r \in Requests, NEW s \in Subs,
           ScoreSubmission(r, s) \/ ShortlistSubmission(r, s)
    PROVE  req'[r].pc = "saveSub"
BY DEF IInv, TypeOK, ScoreSubmission, ShortlistSubmission, Begin, Idle

LEMMA CheckLeads ==
    ASSUME IInv, NEW r \in Requests, CheckWinnerVendor(r)
    PROVE  req'[r].pc \in {"idle", "winRows"}
<1>0. req \in [Requests -> Request] /\ req[r] \in Request
  BY DEF IInv, TypeOK
<1>1. CASE End(r)
  BY <1>0, <1>1, IdlePc DEF End
<1>2. CASE Goto(r, [req[r] EXCEPT !.pc = "winRows"])
  BY <1>0, <1>2 DEF Goto, Request
<1> QED
  BY <1>1, <1>2 DEF CheckWinnerVendor

LEMMA ChoiceLeads ==
    ASSUME IInv, NEW r \in Requests, SaveWinningPitch(r)
    PROVE  /\ req'[r].pc = "winSaveEvent" /\ req'[r].e = req[r].e
           /\ req'[r].ev.winner = req[r].sb.vendor
<1>1. req \in [Requests -> Request] /\ req[r] \in Request /\ req[r].ev \in EventCopy
  BY SelectingOK DEF IInv, TypeOK, SaveWinningPitch, Selecting, CopyOK
<1> QED
  BY <1>1 DEF SaveWinningPitch, Goto, Request, EventCopy

\* A request about to save the event's row does nothing else.
LEMMA ChoosingGoesOn ==
    ASSUME OneAtATime, [Next]_vars, Faults = FALSE, NEW r \in Requests,
           req[r].pc = "winSaveEvent", ~SaveWinner(r)
    PROVE  UNCHANGED req
<1>1. ~Arrive(r) \/ UNCHANGED req
  BY DEF Arrive, CreateEvent, BeginUpdate, BeginDelete, ViewEvent, ListEvents, Refresh,
         BeginPitch, SelectWinner, ScoreSubmission, ShortlistSubmission,
         UpdateVendorStatus, DeleteVendor, Begin
<1>2. ~Continue(r)
  BY DEF Continue, SaveUpdate, NotifyOpen, DeleteEvent, SaveClosed, SaveCompleted,
         PitchReadEvent, PitchCheckExisting, CreateSubmission, PitchFile, SaveSubmission,
         CheckWinnerVendor, ReadFlagged, ResetFlag, ReadWinningPitch, SaveWinningPitch,
         TellWinner, ReadLosers, TellLoser
<1> QED
  BY <1>1, <1>2 DEF OneAtATime, Next, vars, Abort, NextDay

\* With one request, an event without a winner has a flag only while the
\* request is about to save the event.
LEMMA NoFlagYet ==
    ASSUME OneAtATime, FlagInv, NEW r \in Requests, req[r].pc # "winSaveEvent",
           NEW e \in Events, event[e].winner = None
    PROVE  Flagged(e) = {}
BY DEF FlagInv, OneAtATime

\* What the request knows of the flags after the step.
LEMMA FlagReqAfter ==
    ASSUME OneAtATime, IInv, SeqInv, FlagInv, [Next]_vars, Faults = FALSE,
           NEW r \in Requests
    PROVE  FlagReq(req[r])'
<1>0. req \in [Requests -> Request] /\ req[r] \in Request /\ sub \in [Subs -> SubRow \cup {None}]
  BY DEF IInv, TypeOK
<1>1. PICK q : q = req'[r]
  OBVIOUS
<1> SUFFICES FlagReq(q)'
  <2>1. \A p : p = q /\ FlagReq(q)' => FlagReq(p)'
    OBVIOUS
  <2> QED
    BY <1>1, <2>1
<1>2. ASSUME NEW s \in Subs, ScoreSubmission(r, s) \/ ShortlistSubmission(r, s)
      PROVE  FlagReq(q)'
  <2>1. PICK c : /\ c \in {sub[s], [sub[s] EXCEPT !.scored = TRUE]}
                 /\ req' = [req EXCEPT ![r] = [Idle EXCEPT !.pc = "saveSub", !.s = s, !.sb = c]]
    BY <1>2 DEF ScoreSubmission, ShortlistSubmission, Begin
  <2>2. sub[s] \in SubRow
    BY <1>0, <1>2 DEF ScoreSubmission, ShortlistSubmission, Exists
  <2>3. q.pc = "saveSub" /\ q.s = s /\ q.sb = c
    BY <1>0, <1>1, <2>1 DEF Idle
  <2>4. c.isWinner = sub[s].isWinner /\ UNCHANGED sub
    BY <1>2, <2>1, <2>2 DEF SubRow, ScoreSubmission, ShortlistSubmission
  <2> QED
    BY <2>3, <2>4 DEF FlagReq
<1>3. ASSUME NEW e \in Events, NEW s \in Subs, SelectWinner(r, e, s)
      PROVE  FlagReq(q)'
  <2>1. q.pc = (IF event[e].winner = None THEN "winPitch" ELSE "winVendor") /\ q.e = e
    BY <1>0, <1>1, <1>3 DEF SelectWinner, Begin, Idle, ReadEvent
  <2>2. event[e].winner = None => Flagged(e) = {}
    BY <1>3, NoFlagYet DEF SelectWinner, Begin
  <2>3. Flagged(e)' = Flagged(e)
    BY <1>3 DEF SelectWinner, Flagged, SubsOf, Exists
  <2> QED
    BY <2>1, <2>2, <2>3 DEF FlagReq
<1>4. CASE ReadFlagged(r)
  <2>1. PICK flagged : flagged = Flagged(req[r].e)
    OBVIOUS
  <2>2. PICK rows : rows = [x \in Subs |-> IF x \in flagged THEN sub[x] ELSE None]
    OBVIOUS
  <2>3. /\ q.pc = IF flagged = {} THEN "winPitch" ELSE "winReset"
        /\ q.e = req[r].e /\ q.rows = rows
    BY <1>0, <1>1, <1>4, <2>1, <2>2 DEF ReadFlagged, Goto, Request
  <2>4. \A e : Flagged(e)' = Flagged(e)
    BY <1>4 DEF ReadFlagged, Flagged, SubsOf, Exists
  <2>5. \A x \in flagged : rows[x] # None
    BY <2>1, <2>2 DEF Flagged, SubsOf, Exists
  <2>6. Flagged(q.e)' = flagged
    BY <2>1, <2>3, <2>4
  <2>7. CASE flagged = {}
    <3>1. q.pc = "winPitch"
      BY <2>3, <2>7
    <3> QED
      BY <2>6, <2>7, <3>1 DEF FlagReq
  <2>8. CASE flagged # {}
    <3>1. q.pc = "winReset"
      BY <2>3, <2>8
    <3> QED
      BY <2>3, <2>5, <2>6, <3>1 DEF FlagReq
  <2> QED
    BY <2>7, <2>8
<1>5. ASSUME NEW x \in Subs, ResetFlag(r, x)
      PROVE  FlagReq(q)'
  <2>1. \A y \in Flagged(req[r].e) : req[r].rows[y] # None
    BY <1>5 DEF FlagInv, FlagReq, ResetFlag
  <2>2. /\ q.pc = IF Todo(r) = {x} THEN "winPitch" ELSE "winReset"
        /\ q.e = req[r].e
        /\ \A y \in Subs : y # x => q.rows[y] = req[r].rows[y]
    BY <1>0, <1>1, <1>5 DEF ResetFlag, Goto, Request
  <2>3. req[r].rows[x] \in SubRow
    BY <1>5 DEF ResetFlag, Todo, IInv, ReqOK, SameIds
  <2>4. SavedSub(x, [req[r].rows[x] EXCEPT !.isWinner = FALSE]).isWinner = FALSE
    BY <2>3 DEF SavedSub, SubRow
  <2>5. sub'[x].isWinner = FALSE /\ \A y \in Subs \ {x} : sub'[y] = sub[y]
    BY <1>0, <1>5, <2>4 DEF ResetFlag
  <2>6. \A e : Flagged(e)' \subseteq Flagged(e) \ {x}
    BY <2>5 DEF Flagged, SubsOf, Exists
  <2>7. Flagged(q.e)' \subseteq Flagged(req[r].e) \ {x}
    BY <2>2, <2>6
  <2>8. Flagged(req[r].e) \subseteq Todo(r)
    BY <2>1 DEF Todo, Flagged, SubsOf
  <2>9. \A y \in Flagged(q.e)' : q.rows[y] # None
    BY <2>1, <2>2, <2>7 DEF Flagged, SubsOf
  <2>10. CASE Todo(r) = {x}
    <3>1. Flagged(q.e)' = {} /\ q.pc = "winPitch"
      BY <2>2, <2>7, <2>8, <2>10
    <3> QED
      BY <3>1 DEF FlagReq
  <2>11. CASE Todo(r) # {x}
    <3>1. q.pc = "winReset"
      BY <2>2, <2>11
    <3> QED
      BY <2>9, <3>1 DEF FlagReq
  <2> QED
    BY <2>10, <2>11
<1>6. CASE ReadWinningPitch(r)
  <2>1. \/ q.pc = "idle"
        \/ q.pc = "winSaveSub" /\ q.e = req[r].e
    <3>1. CASE End(r)
      BY <1>0, <1>1, <3>1, IdlePc DEF End
    <3>2. ASSUME NEW c, Goto(r, [req[r] EXCEPT !.pc = "winSaveSub", !.sb = c])
          PROVE  q.pc = "winSaveSub" /\ q.e = req[r].e
      BY <1>0, <1>1, <3>2 DEF Goto, Request
    <3> QED
      BY <1>6, <3>1, <3>2 DEF ReadWinningPitch
  <2>2. Flagged(req[r].e) = {}
    BY <1>6 DEF FlagInv, FlagReq, ReadWinningPitch
  <2>3. \A e : Flagged(e)' = Flagged(e)
    BY <1>6 DEF ReadWinningPitch, Flagged, SubsOf, Exists
  <2> QED
    BY <2>1, <2>2, <2>3 DEF FlagReq
<1>7. CASE UNCHANGED <<req, sub>>
  <2>1. q = req[r] /\ FlagReq(q)
    BY <1>1, <1>7 DEF FlagInv
  <2> QED
    BY <1>7, <2>1 DEF FlagReq, Flagged, SubsOf, Exists
<1>8. CASE Arrive(r) \/ Continue(r)
  <2>1. CASE q.pc \notin Judging
    BY <2>1, FlagElsewhere
  <2>2. CASE q.pc \in Judging
    <3>1. q.pc \in Points
      BY <2>2 DEF Judging, Points, Choices
    <3>2. ~CheckWinnerVendor(r) /\ ~SaveWinningPitch(r)
      BY <1>1, <2>2, CheckLeads, ChoiceLeads DEF Judging
    <3> QED
      BY <1>1, <1>2, <1>3, <1>4, <1>5, <1>6, <1>8, <3>1, <3>2, Leads
  <2> QED
    BY <2>1, <2>2
<1>9. Arrive(r) \/ Continue(r) \/ UNCHANGED <<req, sub>>
  BY DEF OneAtATime, Next, vars, Abort, NextDay
<1> QED
  BY <1>7, <1>8, <1>9

\* From a winner without a flag to the event's own Save.
LEMMA FlagMeansChoosing ==
    ASSUME OneAtATime, IInv, SeqInv, FlagInv, [Next]_vars, Faults = FALSE,
           NEW e \in Events, event'[e].winner = None, Flagged(e)' # {}
    PROVE  \E r \in Requests : req'[r].pc = "winSaveEvent" /\ req'[r].e = e
<1>0. req \in [Requests -> Request] /\ event \in [Events -> EventRow]
  BY DEF IInv, TypeOK
<1>1. event[e].winner = None
  BY SeqNext DEF Kept, WinnersStay
<1>2. ASSUME NEW r \in Requests, SaveWinningPitch(r)
      PROVE  req'[r].pc = "winSaveEvent" /\ req'[r].e = e
  <2>1. req'[r].pc = "winSaveEvent" /\ req'[r].e = req[r].e /\ req[r].pc = "winSaveSub"
    BY <1>0, <1>2 DEF SaveWinningPitch, Goto, Request
  <2>2. Flagged(e) = {}
    BY <1>1, <2>1, NoFlagYet
  <2>3. PICK x \in Subs : sub'[x] # None /\ sub'[x].event = e /\ sub'[x].isWinner
    BY DEF Flagged, SubsOf, Exists
  <2>4. x = req[r].s
    <3>1. x # req[r].s => sub'[x] = sub[x]
      BY <1>2, <2>3 DEF SaveWinningPitch, IInv, TypeOK
    <3> QED
      BY <2>2, <2>3, <3>1 DEF Flagged, SubsOf, Exists
  <2>5. SameIds(req[r].s, req[r].sb) /\ req[r].sb.event = req[r].e
    BY <1>2 DEF SaveWinningPitch, IInv, ReqOK
  <2>6. sub'[req[r].s].event = req[r].e
    BY <1>2, <2>5 DEF SaveWinningPitch, SavedSub, SameIds, SubRow, IInv, TypeOK
  <2> QED
    BY <2>1, <2>3, <2>4, <2>6
<1>3. ASSUME \A r \in Requests : ~SaveWinningPitch(r)
      PROVE  \E r \in Requests : req'[r].pc = "winSaveEvent" /\ req'[r].e = e
  <2>1. Flagged(e) # {}
    BY <1>3, FlagsOnlyByChoice, FewerFlags DEF FlagInv
  <2>2. PICK r \in Requests : req[r].pc = "winSaveEvent" /\ req[r].e = e
    BY <1>1, <2>1 DEF FlagInv
  <2>3. ~SaveWinner(r)
    <3>1. CopyOK(e, req[r].ev) /\ req[r].ev.winner # None
      BY <2>2 DEF IInv, ReqOK, HoldsCopy, Selecting
    <3>2. Saved(req[r].ev).winner # None
      BY <3>1 DEF Saved
    <3> QED
      BY <1>0, <2>2, <3>2 DEF SaveWinner
  <2>5. UNCHANGED req
    BY <2>2, <2>3, ChoosingGoesOn
  <2> QED
    BY <2>2, <2>5
<1> QED
  BY <1>2, <1>3

LEMMA OneFlag ==
    ASSUME OneAtATime, IInv, SeqInv, FlagInv, [Next]_vars
    PROVE  OneWinnerFlag'
<1>1. OneWinnerFlag <=> \A e \in Events : \A s, t \in Flagged(e) : s = t
  BY DEF OneWinnerFlag, Flagged, SubsOf
<1>2. OneWinnerFlag' <=> \A e \in Events : \A s, t \in Flagged(e)' : s = t
  BY DEF OneWinnerFlag, Flagged, SubsOf
<1>3. OneWinnerFlag
  BY DEF FlagInv
<1>4. ASSUME NEW r \in Requests, SaveWinningPitch(r), NEW e \in Events
      PROVE  \A s, t \in Flagged(e)' : s = t
  <2>1. Flagged(req[r].e) = {}
    BY <1>4 DEF SaveWinningPitch, FlagInv, FlagReq
  <2>2. SameIds(req[r].s, req[r].sb) /\ req[r].sb.event = req[r].e
    BY <1>4 DEF SaveWinningPitch, IInv, ReqOK
  <2>3. sub'[req[r].s].event = req[r].e /\ \A x \in Subs \ {req[r].s} : sub'[x] = sub[x]
    BY <1>4, <2>2 DEF SaveWinningPitch, SavedSub, SameIds, SubRow, IInv, TypeOK
  <2>4. CASE e = req[r].e
    <3>1. Flagged(e)' \subseteq {req[r].s}
      BY <2>1, <2>3, <2>4 DEF Flagged, SubsOf, Exists
    <3> QED
      BY <3>1
  <2>5. CASE e # req[r].e
    <3>1. Flagged(e)' \subseteq Flagged(e)
      BY <2>3, <2>5 DEF Flagged, SubsOf, Exists
    <3> QED
      BY <1>1, <1>3, <3>1
  <2> QED
    BY <2>4, <2>5
<1>5. ASSUME \A r \in Requests : ~SaveWinningPitch(r), NEW e \in Events
      PROVE  \A s, t \in Flagged(e)' : s = t
  <2>1. Flagged(e)' \subseteq Flagged(e)
    BY <1>5, FlagsOnlyByChoice, FewerFlags DEF FlagInv
  <2> QED
    BY <1>1, <1>3, <2>1
<1> QED
  BY <1>2, <1>4, <1>5

LEMMA InitFlags == Init => FlagInv
<1> SUFFICES ASSUME Init PROVE FlagInv
  OBVIOUS
<1>1. \A e : Flagged(e) = {}
  BY DEF Init, Flagged, SubsOf, Exists
<1>2. OneWinnerFlag
  BY DEF Init, OneWinnerFlag, SubsOf, Exists
<1>3. \A r \in Requests : FlagReq(req[r])
  BY IdlePc DEF Init, FlagReq
<1> QED
  BY <1>1, <1>2, <1>3 DEF FlagInv

LEMMA NextFlags ==
    ASSUME OneAtATime, Faults = FALSE, IInv, SeqInv, FlagInv, [Next]_vars
    PROVE  FlagInv'
<1>1. OneWinnerFlag'
  BY OneFlag
<1>2. \A e \in Events : (event[e].winner = None /\ Flagged(e) # {})' =>
          \E r \in Requests : (req[r].pc = "winSaveEvent" /\ req[r].e = e)'
  BY FlagMeansChoosing
<1>3. \A r \in Requests : FlagReq(req[r])'
  BY FlagReqAfter
<1> QED
  BY <1>1, <1>2, <1>3 DEF FlagInv

\* One request at a time, and no call fails: at most one submission of an
\* event is flagged as its winner, although SelectWinner resets flags only
\* when the event has a winner on record.
THEOREM OneFlagEach ==
    ASSUME OneAtATime, Faults = FALSE
    PROVE  Spec => []OneWinnerFlag
<1>1. IInv /\ SeqInv /\ FlagInv /\ [Next]_vars => FlagInv'
  BY NextFlags
<1>2. FlagInv => OneWinnerFlag
  BY DEF FlagInv
<1> QED
  BY Sequential, InitFlags, <1>1, <1>2, PTL DEF Spec

-----------------------------------------------------------------------------
(* The flag and the winner on record, when nobody is ever suspended: then  *)
(* a winner is chosen once, and flags are never reset.                     *)

Choosing(r, e) == req[r].pc = "winSaveEvent" /\ req[r].e = e

\* What a selection knows when it goes on: the event had no winner.
ChoiceReq(q) ==
    /\ q.pc \notin {"winRows", "winReset"}
    /\ q.pc = "winVendor" => q.ev.winner \in Vendors
    /\ q.pc \in {"winPitch", "winSaveSub"} => event[q.e].winner = None
    /\ q.pc = "winSaveSub" => q.sb.isWinner = TRUE
    /\ q.pc = "winSaveEvent" =>
        /\ event[q.e].winner = None
        /\ \A s \in SubsOf(q.e) : sub[s].isWinner <=> sub[s].vendor = q.ev.winner

\* An event at rest.
Agrees(e) == \A s \in SubsOf(e) : sub[s].isWinner <=> sub[s].vendor = event[e].winner

ChoiceInv ==
    /\ \A r \in Requests : ChoiceReq(req[r])
    /\ \A e \in Events : (\A r \in Requests : ~Choosing(r, e)) => Agrees(e)

LEMMA ChoiceElsewhere == ASSUME NEW q, q.pc \notin Choices PROVE ChoiceReq(q)'
BY DEF ChoiceReq, Choices

\* A vendor that is not suspended ends the second selection.
LEMMA SecondEnds ==
    ASSUME IInv, ChoiceInv, "suspended" \notin Standings, NEW r \in Requests,
           CheckWinnerVendor(r)
    PROVE  End(r)
<1>1. req[r].ev.winner \in Vendors
  BY DEF ChoiceInv, ChoiceReq, CheckWinnerVendor
<1>2. vendor[req[r].ev.winner].status # "suspended"
  BY <1>1 DEF IInv, TypeOK, VendorRow
<1> QED
  BY <1>2 DEF CheckWinnerVendor

\* No row of an event without a winner is flagged.
LEMMA NoneFlagged ==
    ASSUME IInv, NEW e, Agrees(e), event[e].winner = None
    PROVE  \A s \in SubsOf(e) : ~sub[s].isWinner
<1> SUFFICES ASSUME NEW s \in SubsOf(e) PROVE ~sub[s].isWinner
  OBVIOUS
<1>1. sub[s].vendor \in Vendors
  BY DEF IInv, TypeOK, SubsOf, Exists, SubRow
<1> QED
  BY <1>1, NoneAssumption DEF Agrees

\* The flag that SaveWinningPitch sets is the first of its event, and falls
\* on the one submission of the vendor that will be on record.
LEMMA ChosenFlagged ==
    ASSUME OneAtATime, IInv, OnePitchPerVendor, ChoiceInv,
           NEW r \in Requests, SaveWinningPitch(r)
    PROVE  \A s \in Subs : sub'[s] # None /\ sub'[s].event = req[r].e =>
                (sub'[s].isWinner <=> sub'[s].vendor = req[r].sb.vendor)
<1>0. sub \in [Subs -> SubRow \cup {None}]
  BY DEF IInv, TypeOK
<1>1. SameIds(req[r].s, req[r].sb) /\ req[r].sb.event = req[r].e /\ req[r].e \in Events
  BY DEF SaveWinningPitch, IInv, ReqOK, CopyOK, HoldsCopy, Selecting
<1>2. /\ req[r].sb.isWinner = TRUE /\ event[req[r].e].winner = None
      /\ Agrees(req[r].e)
  <2>1. \A x \in Requests : ~Choosing(x, req[r].e)
    BY DEF SaveWinningPitch, OneAtATime, Choosing
  <2> QED
    BY <1>1, <2>1 DEF SaveWinningPitch, ChoiceInv, ChoiceReq
<1>3. /\ sub'[req[r].s].isWinner = TRUE
      /\ sub'[req[r].s].vendor = req[r].sb.vendor
      /\ \A x \in Subs \ {req[r].s} : sub'[x] = sub[x]
  BY <1>0, <1>1, <1>2 DEF SaveWinningPitch, SavedSub, SameIds, SubRow
<1>4. ASSUME NEW s \in Subs \ {req[r].s}, sub[s] # None, sub[s].event = req[r].e
      PROVE  ~sub[s].isWinner /\ sub[s].vendor # req[r].sb.vendor
  <2>1. s \in SubsOf(req[r].e)
    BY <1>4 DEF SubsOf, Exists
  <2>2. ~sub[s].isWinner
    BY <1>2, <2>1, NoneFlagged
  <2>3. sub[s].vendor # req[r].sb.vendor
    BY <1>1, <1>4 DEF OnePitchPerVendor, SameIds, Exists
  <2> QED
    BY <2>2, <2>3
<1> QED
  BY <1>3, <1>4

\* What the request knows of its choice after the step.
LEMMA ChoiceReqAfter ==
    ASSUME OneAtATime, IInv, SeqInv, OnePitchPerVendor, ChoiceInv, [Next]_vars,
           Faults = FALSE, "suspended" \notin Standings, NEW r \in Requests
    PROVE  ChoiceReq(req[r])'
<1>0. req \in [Requests -> Request] /\ req[r] \in Request /\ sub \in [Subs -> SubRow \cup {None}]
  BY DEF IInv, TypeOK
<1>1. PICK q : q = req'[r]
  OBVIOUS
<1> SUFFICES ChoiceReq(q)'
  <2>1. \A p : p = q /\ ChoiceReq(q)' => ChoiceReq(p)'
    OBVIOUS
  <2> QED
    BY <1>1, <2>1
<1>2. ASSUME NEW e \in Events, NEW s \in Subs, SelectWinner(r, e, s)
      PROVE  ChoiceReq(q)'
  <2>1. /\ q.pc = (IF event[e].winner = None THEN "winPitch" ELSE "winVendor")
        /\ q.e = e /\ q.ev.winner = event[e].winner
    BY <1>0, <1>1, <1>2 DEF SelectWinner, Begin, Idle, ReadEvent
  <2>2. event[e].winner \in Vendors \cup {None} /\ event'[e].winner = event[e].winner
    BY <1>2 DEF IInv, TypeOK, EventRow, SelectWinner
  <2>3. CASE event[e].winner = None
    BY <2>1, <2>2, <2>3 DEF ChoiceReq
  <2>4. CASE event[e].winner # None
    BY <2>1, <2>2, <2>4 DEF ChoiceReq
  <2> QED
    BY <2>3, <2>4
<1>3. CASE CheckWinnerVendor(r)
  <2>1. q.pc = "idle"
    BY <1>0, <1>1, <1>3, SecondEnds, IdlePc DEF End
  <2> QED
    BY <2>1 DEF ChoiceReq
<1>4. ~ReadFlagged(r) /\ \A x \in Subs : ~ResetFlag(r, x)
  BY DEF ChoiceInv, ChoiceReq, ReadFlagged, ResetFlag
<1>5. CASE ReadWinningPitch(r)
  <2>1. CASE End(r)
    <3>1. q.pc = "idle"
      BY <1>0, <1>1, <2>1, IdlePc DEF End
    <3> QED
      BY <3>1 DEF ChoiceReq
  <2>2. CASE /\ Exists(req[r].s)
             /\ Goto(r, [req[r] EXCEPT !.pc = "winSaveSub",
                                       !.sb = [sub[req[r].s] EXCEPT !.isWinner = TRUE]])
    <3>1. PICK c : c = [sub[req[r].s] EXCEPT !.isWinner = TRUE]
      OBVIOUS
    <3>2. sub[req[r].s] \in SubRow
      BY <1>5, <2>2, SelectingOK DEF ReadWinningPitch, Selecting, Exists, IInv, TypeOK
    <3>3. c.isWinner = TRUE
      BY <3>1, <3>2 DEF SubRow
    <3>4. q.pc = "winSaveSub" /\ q.e = req[r].e /\ q.sb = c
      BY <1>0, <1>1, <2>2, <3>1 DEF Goto, Request
    <3>5. event'[q.e].winner = None
      BY <1>5, <3>4 DEF ReadWinningPitch, ChoiceInv, ChoiceReq
    <3> QED
      BY <3>3, <3>4, <3>5 DEF ChoiceReq
  <2> QED
    BY <1>5, <2>1, <2>2 DEF ReadWinningPitch
<1>6. CASE SaveWinningPitch(r)
  <2>1. q.pc = "winSaveEvent" /\ q.e = req[r].e /\ q.ev.winner = req[r].sb.vendor
    BY <1>1, <1>6, ChoiceLeads
  <2>2. event'[q.e].winner = None
    BY <1>6, <2>1 DEF SaveWinningPitch, ChoiceInv, ChoiceReq
  <2>3. \A s \in Subs : sub'[s] # None /\ sub'[s].event = q.e =>
            (sub'[s].isWinner <=> sub'[s].vendor = q.ev.winner)
    BY <1>6, <2>1, ChosenFlagged
  <2> QED
    BY <2>1, <2>2, <2>3 DEF ChoiceReq, SubsOf, Exists
<1>7. CASE UNCHANGED <<req, sub, event>>
  <2>1. q = req[r] /\ ChoiceReq(q)
    BY <1>1, <1>7 DEF ChoiceInv
  <2> QED
    BY <1>7, <2>1 DEF ChoiceReq, SubsOf, Exists
<1>8. CASE Arrive(r) \/ Continue(r)
  <2>1. CASE q.pc \notin Choices
    BY <2>1, ChoiceElsewhere
  <2>2. CASE q.pc \in Choices
    <3>1. q.pc \in Points
      BY <2>2 DEF Points, Choices
    <3>2. ~\E s \in Subs : ScoreSubmission(r, s) \/ ShortlistSubmission(r, s)
      BY <1>1, <2>2, JudgeLeads DEF Choices
    <3> QED
      BY <1>1, <1>2, <1>3, <1>4, <1>5, <1>6, <1>8, <3>1, <3>2, Leads
  <2> QED
    BY <2>1, <2>2
<1>9. Arrive(r) \/ Continue(r) \/ UNCHANGED <<req, sub, event>>
  BY DEF OneAtATime, Next, vars, Abort, NextDay
<1> QED
  BY <1>7, <1>8, <1>9

\* Rows keep their flags but for the choice and the reset.
LEMMA FlagsSame ==
    ASSUME IInv, \A r \in Requests : FlagReq(req[r]), [Next]_vars,
           \A r \in Requests : /\ ~SaveWinningPitch(r)
                               /\ \A x \in Subs : ~ResetFlag(r, x)
    PROVE  \A s \in Subs : sub[s] # None => sub'[s].isWinner = sub[s].isWinner
<1>0. sub \in [Subs -> SubRow \cup {None}]
  BY DEF IInv, TypeOK
<1>1. ASSUME NEW r \in Requests, SaveSubmission(r)
      PROVE  \A s \in Subs : sub[s] # None => sub'[s].isWinner = sub[s].isWinner
  <2>1. SameIds(req[r].s, req[r].sb) /\ req[r].sb.isWinner = sub[req[r].s].isWinner
    BY <1>1 DEF SaveSubmission, IInv, ReqOK, FlagReq
  <2>2. SavedSub(req[r].s, req[r].sb).isWinner = sub[req[r].s].isWinner
    BY <2>1 DEF SavedSub, SameIds, SubRow
  <2> QED
    BY <1>0, <1>1, <2>1, <2>2 DEF SaveSubmission, SameIds, Exists
<1>2. ASSUME NEW r \in Requests, CreateSubmission(r)
      PROVE  \A s \in Subs : sub[s] # None => sub'[s].isWinner = sub[s].isWinner
  BY <1>0, <1>2 DEF CreateSubmission, Exists
<1>3. ASSUME NEW r \in Requests, PitchFile(r)
      PROVE  \A s \in Subs : sub[s] # None => sub'[s].isWinner = sub[s].isWinner
  <2>1. req[r].s \in Subs /\ sub[req[r].s] \in SubRow
    BY <1>3 DEF PitchFile, IInv, TypeOK, ReqOK, Exists
  <2>2. PICK ok \in BOOLEAN : sub' = [sub EXCEPT ![req[r].s].file = ok]
    BY <1>3 DEF PitchFile
  <2> QED
    BY <1>0, <2>1, <2>2 DEF SubRow
<1> QED
  BY <1>1, <1>2, <1>3, SubWrites

\* The vendor of a new row is not the winner on record, who has a row.
LEMMA NewRow ==
    ASSUME IInv, NEW r \in Requests, CreateSubmission(r), NEW s \in Subs,
           sub[s] = None, sub'[s] # None
    PROVE  /\ sub'[s].event \in Events /\ sub'[s].isWinner = FALSE
           /\ sub'[s].vendor # event[sub'[s].event].winner
<1>0. sub \in [Subs -> SubRow \cup {None}]
  BY DEF IInv, TypeOK
<1>1. req[r].e \in Events /\ req[r].v \in Vendors
  BY DEF CreateSubmission, IInv, ReqOK, Pitching
<1>2. PICK t \in Subs :
        /\ UniqueEventVendor(req[r].e, req[r].v)
        /\ sub' = [sub EXCEPT ![t] = [event |-> req[r].e, vendor |-> req[r].v,
                                      isWinner |-> FALSE, scored |-> FALSE, file |-> FALSE]]
  BY DEF CreateSubmission
<1>3. t = s
  BY <1>0, <1>2
<1>4. /\ sub'[s].event = req[r].e /\ sub'[s].vendor = req[r].v
      /\ sub'[s].isWinner = FALSE
  BY <1>0, <1>2, <1>3
<1>5. event[req[r].e].winner # req[r].v
  BY <1>1, <1>2, NoneAssumption DEF IInv, WinnerPitched, UniqueEventVendor
<1> QED
  BY <1>1, <1>4, <1>5

\* An event at rest after the step agrees, if it agreed before and neither
\* its winner nor its flags were chosen.
LEMMA AgreesStays ==
    ASSUME IInv, SeqInv, FlagInv, ChoiceInv, [Next]_vars, NEW e \in Events, Agrees(e),
           \A r \in Requests : ~SaveWinner(r) /\ ~SaveWinningPitch(r)
    PROVE  Agrees(e)'
<1>1. event'[e].winner = event[e].winner
  BY WinnersSame
<1>2. \A r \in Requests, x \in Subs : ~ResetFlag(r, x)
  BY DEF ChoiceInv, ChoiceReq, ResetFlag
<1>3. \A s \in Subs : sub[s] # None => sub'[s].isWinner = sub[s].isWinner
  BY <1>2, FlagsSame DEF FlagInv
<1>4. \A s \in Subs : sub[s] # None => /\ sub'[s].event = sub[s].event
                                       /\ sub'[s].vendor = sub[s].vendor
  <2>1. CASE \A r \in Requests : ~CreateSubmission(r)
    BY <2>1, RowsSame DEF SameRows
  <2>2. ASSUME NEW r \in Requests, CreateSubmission(r)
        PROVE  \A s \in Subs : sub[s] # None => sub'[s] = sub[s]
    BY <2>2 DEF CreateSubmission, Exists, IInv, TypeOK
  <2> QED
    BY <2>1, <2>2
<1> SUFFICES ASSUME NEW s \in Subs, sub'[s] # None, sub'[s].event = e
             PROVE  sub'[s].isWinner <=> sub'[s].vendor = event[e].winner
  BY <1>1 DEF Agrees, SubsOf, Exists
<1>5. CASE sub[s] # None
  BY <1>3, <1>4, <1>5 DEF Agrees, SubsOf, Exists
<1>6. CASE sub[s] = None
  <2>1. PICK r \in Requests : CreateSubmission(r)
    BY <1>6, RowsSame DEF SameRows
  <2> QED
    BY <1>6, <2>1, NewRow
<1> QED
  BY <1>5, <1>6

\* After SelectWinner's last Save the winner on record is the flagged one.
LEMMA SavedAgrees ==
    ASSUME IInv, SeqInv, ChoiceInv, NEW r \in Requests, SaveWinner(r), NEW e, e = req[r].e
    PROVE  Agrees(e)'
<1>1. /\ e \in Events /\ req[r].ev.loaded = event[e].winner
      /\ event \in [Events -> EventRow]
  BY PassedFresh DEF SaveWinner, Passed, IInv, TypeOK
<1>2. /\ event[e].winner = None
      /\ \A s \in SubsOf(e) : sub[s].isWinner <=> sub[s].vendor = req[r].ev.winner
  BY DEF SaveWinner, ChoiceInv, ChoiceReq
<1>3. event'[e].winner = req[r].ev.winner
  BY <1>1, <1>2 DEF SaveWinner, Saved
<1> QED
  BY <1>2, <1>3 DEF SaveWinner, Agrees, SubsOf, Exists

LEMMA RestAgrees ==
    ASSUME OneAtATime, IInv, SeqInv, FlagInv, OnePitchPerVendor, ChoiceInv, [Next]_vars,
           Faults = FALSE, NEW e \in Events, \A r \in Requests : ~Choosing(r, e)'
    PROVE  Agrees(e)'
<1>1. ASSUME NEW r \in Requests, SaveWinner(r)
      PROVE  Agrees(e)'
  <2>1. CASE e = req[r].e
    BY <1>1, <2>1, SavedAgrees
  <2>2. CASE e # req[r].e
    <3>1. Agrees(e)
      BY <2>2 DEF OneAtATime, Choosing, ChoiceInv
    <3>2. event'[e] = event[e] /\ UNCHANGED sub
      BY <1>1, <2>2 DEF SaveWinner, IInv, TypeOK
    <3> QED
      BY <3>1, <3>2 DEF Agrees, SubsOf, Exists
  <2> QED
    BY <2>1, <2>2
<1>2. ASSUME NEW r \in Requests, SaveWinningPitch(r)
      PROVE  Agrees(e)'
  <2>1. e # req[r].e
    BY <1>2, ChoiceLeads DEF Choosing
  <2>2. Agrees(e)
    BY <1>2 DEF SaveWinningPitch, OneAtATime, Choosing, ChoiceInv
  <2>3. SameIds(req[r].s, req[r].sb) /\ req[r].sb.event = req[r].e
    BY <1>2 DEF SaveWinningPitch, IInv, ReqOK
  <2>4. /\ sub'[req[r].s].event = req[r].e /\ sub[req[r].s].event = req[r].e
        /\ \A x \in Subs \ {req[r].s} : sub'[x] = sub[x]
    BY <1>2, <2>3 DEF SaveWinningPitch, SavedSub, SameIds, SubRow, IInv, TypeOK
  <2>5. \A x \in Subs : sub'[x] # None /\ sub'[x].event = e => sub'[x] = sub[x]
    BY <2>1, <2>4
  <2> QED
    BY <1>2, <2>2, <2>5 DEF SaveWinningPitch, Agrees, SubsOf, Exists
<1>3. ASSUME \A r \in Requests : ~SaveWinner(r) /\ ~SaveWinningPitch(r)
      PROVE  Agrees(e)'
  <2>1. ASSUME NEW r \in Requests, Choosing(r, e) PROVE FALSE
    <3>1. UNCHANGED req
      BY <1>3, <2>1, ChoosingGoesOn DEF Choosing
    <3> QED
      BY <2>1, <3>1 DEF Choosing
  <2>2. Agrees(e)
    BY <2>1 DEF ChoiceInv
  <2> QED
    BY <1>3, <2>2, AgreesStays
<1> QED
  BY <1>1, <1>2, <1>3

\* One request at a time, no call fails and nobody is ever suspended: between
\* requests the flagged submission is that of the winner on record, which is
\* what GetEventResult tells a vendor.
THEOREM FlaggedIsWinner ==
    ASSUME OneAtATime, Faults = FALSE, "suspended" \notin Standings
    PROVE  Spec => []WinnerFlagged
<1> DEFINE Inv == IInv /\ SeqInv /\ FlagInv /\ OnePitchPerVendor /\ ChoiceInv
<1>1. Init => Inv
  <2> SUFFICES ASSUME Init PROVE Inv
    OBVIOUS
  <2>1. OnePitchPerVendor
    BY DEF Init, OnePitchPerVendor, Exists
  <2>2. ChoiceInv
    <3>1. \A r \in Requests : ChoiceReq(req[r])
      BY IdlePc DEF Init, ChoiceReq
    <3>2. \A e : Agrees(e)
      BY DEF Init, Agrees, SubsOf, Exists
    <3> QED
      BY <3>1, <3>2 DEF ChoiceInv
  <2> QED
    BY <2>1, <2>2, InitIInv, SeqInit, InitFlags
<1>2. ASSUME Inv, [Next]_vars
      PROVE  Inv'
  <2>1. IInv' /\ SeqInv' /\ FlagInv' /\ OnePitchPerVendor'
    BY <1>2, NextIInv, SeqNext, NextFlags, NextUnique
  <2>2. \A r \in Requests : ChoiceReq(req[r])'
    BY <1>2, ChoiceReqAfter
  <2>3. \A e \in Events : (\A r \in Requests : ~Choosing(r, e)') => Agrees(e)'
    BY <1>2, RestAgrees
  <2>4. ChoiceInv'
    BY <2>2, <2>3 DEF ChoiceInv
  <2> QED
    BY <2>1, <2>4
<1>3. Inv => WinnerFlagged
  <2> SUFFICES ASSUME Inv, Quiet, NEW e \in Events PROVE Agrees(e)
    BY DEF WinnerFlagged, Agrees
  <2> QED
    BY DEF Quiet, ChoiceInv, Choosing
<1> QED
  BY <1>1, <1>2, <1>3, PTL DEF Spec

=============================================================================
