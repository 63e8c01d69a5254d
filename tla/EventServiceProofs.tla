------------------------- MODULE EventServiceProofs -------------------------
(***************************************************************************)
(* Theorems about EventService, for any number of events, vendors,         *)
(* submissions and concurrent requests, with or without faults.            *)
(***************************************************************************)
EXTENDS EventService, TLAPS

\* A copy of a submission row names the event and vendor the row names.
SameIds(s, c) ==
    /\ s \in Subs /\ Exists(s)
    /\ c \in SubRow
    /\ c.event = sub[s].event /\ c.vendor = sub[s].vendor

\* A copy of an event row: whatever it writes back as winner has pitched.
CopyOK(e, c) ==
    /\ e \in Events
    /\ c \in EventCopy
    /\ c.winner # None => Pitched(e, c.winner)
    /\ c.loaded # None => Pitched(e, c.loaded)

Selecting == {"winVendor", "winRows", "winReset", "winPitch", "winSaveSub", "winSaveEvent"}
HoldsCopy == {"update", "close", "complete"} \cup Selecting
Pitching == {"pitchEvent", "pitchExisting", "pitchCreate", "pitchFile"}
Telling == {"tellWinner", "losers", "tellLoser"}

\* What a request knows at each point of its handler.
ReqOK(q) ==
    /\ q.pc \in HoldsCopy => CopyOK(q.e, q.ev)
    /\ q.pc \in Selecting => q.s \in Subs
    /\ q.pc \in {"saveSub", "winSaveSub"} => SameIds(q.s, q.sb)
    /\ q.pc = "winSaveSub" => q.sb.event = q.e
    /\ q.pc = "winSaveEvent" => q.ev.winner # None
    /\ q.pc = "winReset" => \A x \in Subs : q.rows[x] # None => SameIds(x, q.rows[x])
    /\ q.pc \in Pitching => q.e \in Events /\ q.v \in Vendors
    /\ q.pc = "pitchFile" => q.s \in Subs /\ Exists(q.s)
    /\ q.pc \in {"notifyOpen", "delete"} => q.e \in Events
    /\ q.pc \in Telling => q.e \in Events /\ q.v \in Vendors

\* WinnerPitched is not inductive: a Save writes a winner that was read
\* earlier, so the invariant has to cover the copies in flight as well.
IInv ==
    /\ TypeOK
    /\ WinnerPitched
    /\ \A r \in Requests : ReqOK(req[r])

-----------------------------------------------------------------------------
\* A submission, once inserted, stays and keeps its event and its vendor.
KeepsIds ==
    \A s \in Subs : Exists(s) =>
        /\ sub'[s] # None
        /\ sub'[s].event = sub[s].event /\ sub'[s].vendor = sub[s].vendor

\* What a step may do to the tables.
GoodTables ==
    /\ event' \in [Events -> EventRow]
    /\ sub' \in [Subs -> SubRow \cup {None}]
    /\ vendor' \in [Vendors -> VendorRow]
    /\ notice' \subseteq Notice
    /\ today' \in Days
    /\ KeepsIds
    /\ \A e \in Events : event'[e].winner # None => Pitched(e, event'[e].winner)

LEMMA PitchedStays ==
    ASSUME KeepsIds, NEW e, NEW v, Pitched(e, v)
    PROVE  Pitched(e, v)'
BY DEF KeepsIds, Pitched, SubsOf, Exists

LEMMA SameIdsStays ==
    ASSUME KeepsIds, NEW s, NEW c, SameIds(s, c)
    PROVE  SameIds(s, c)'
BY DEF KeepsIds, SameIds, Exists

\* What a request knows survives any step.
LEMMA ReqOKStays ==
    ASSUME KeepsIds, NEW q, ReqOK(q)
    PROVE  ReqOK(q)'
<1>1. ASSUME NEW e, NEW c, CopyOK(e, c) PROVE CopyOK(e, c)'
  BY <1>1, PitchedStays DEF CopyOK
<1>2. \A s \in Subs : Exists(s) => Exists(s)'
  BY DEF KeepsIds, Exists
<1> QED
  BY <1>1, <1>2, SameIdsStays DEF ReqOK

\* A step that leaves the tables good and sends one request to a record
\* that is right afterwards preserves the invariant.
LEMMA MoveTo ==
    ASSUME IInv, GoodTables, NEW r \in Requests, NEW q \in Request, ReqOK(q)',
           req' = [req EXCEPT ![r] = q]
    PROVE  IInv'
<1>1. TypeOK'
  BY DEF IInv, TypeOK, GoodTables
<1>2. WinnerPitched'
  BY PitchedStays DEF GoodTables, WinnerPitched
<1>3. ASSUME NEW x \in Requests PROVE ReqOK(req[x])'
  <2>1. CASE x = r
    BY <2>1 DEF IInv, TypeOK
  <2>2. CASE x # r
    <3>1. req'[x] = req[x] /\ ReqOK(req[x])
      BY <2>2 DEF IInv, TypeOK
    <3>2. \A p : ReqOK(p) => ReqOK(p)'
      BY ReqOKStays DEF GoodTables
    <3> QED
      BY <3>1, <3>2
  <2> QED
    BY <2>1, <2>2
<1> QED
  BY <1>1, <1>2, <1>3 DEF IInv

\* The usual case: the record was right before the step.
LEMMA Move ==
    ASSUME IInv, GoodTables, NEW r \in Requests, NEW q \in Request, ReqOK(q),
           req' = [req EXCEPT ![r] = q]
    PROVE  IInv'
<1>1. ReqOK(q)'
  BY ReqOKStays DEF GoodTables
<1> QED
  BY <1>1, MoveTo

LEMMA ReadOnly ==
    ASSUME IInv, UNCHANGED <<event, sub, vendor, notice, today>>
    PROVE  GoodTables
BY DEF IInv, TypeOK, GoodTables, KeepsIds, WinnerPitched, Exists

LEMMA Still ==
    ASSUME IInv, GoodTables, req' = req
    PROVE  IInv'
<1>1. TypeOK'
  BY DEF IInv, TypeOK, GoodTables
<1>2. WinnerPitched'
  BY PitchedStays DEF GoodTables, WinnerPitched
<1>3. ASSUME NEW x \in Requests PROVE ReqOK(req[x])'
  <2>1. \A p : ReqOK(p) => ReqOK(p)'
    BY ReqOKStays DEF GoodTables
  <2> QED
    BY <2>1 DEF IInv
<1> QED
  BY <1>1, <1>2, <1>3 DEF IInv

LEMMA IdleOK == Idle \in Request /\ ReqOK(Idle)
BY DEF Idle, Request, Pc, NoRows, ReqOK, HoldsCopy, Selecting, Pitching, Telling

LEMMA EndMove ==
    ASSUME IInv, GoodTables, NEW r \in Requests, End(r)
    PROVE  IInv'
BY Move, IdleOK DEF End

-----------------------------------------------------------------------------
\* Facts about the helpers.

LEMMA ReadEventOK ==
    ASSUME TypeOK, WinnerPitched, NEW e \in Events
    PROVE  CopyOK(e, ReadEvent(e))
BY DEF TypeOK, WinnerPitched, ReadEvent, CopyOK, EventRow, EventCopy

LEMMA SaveEventTables ==
    ASSUME IInv, NEW e, NEW c, CopyOK(e, c),
           event' = [event EXCEPT ![e] = Saved(c)],
           UNCHANGED <<sub, vendor, notice, today>>
    PROVE  GoodTables
<1>1. Saved(c) \in EventRow /\ (Saved(c).winner # None => Pitched(e, Saved(c).winner))
  BY DEF CopyOK, Saved, EventRow, EventCopy, RowState
<1>2. event' \in [Events -> EventRow]
  BY <1>1 DEF IInv, TypeOK, CopyOK
<1>3. \A x \in Events : event'[x].winner # None => Pitched(x, event'[x].winner)
  BY <1>1 DEF IInv, TypeOK, WinnerPitched, CopyOK
<1> QED
  BY <1>2, <1>3 DEF IInv, TypeOK, GoodTables, KeepsIds, Exists

LEMMA SaveSubTables ==
    ASSUME IInv, NEW s, NEW c, SameIds(s, c),
           sub' = [sub EXCEPT ![s] = SavedSub(s, c)],
           UNCHANGED <<event, vendor, notice, today>>
    PROVE  GoodTables
<1>1. sub[s] \in SubRow
  BY DEF IInv, TypeOK, SameIds, Exists
<1>2. SavedSub(s, c) \in SubRow /\ SavedSub(s, c).event = c.event /\ SavedSub(s, c).vendor = c.vendor
  BY <1>1 DEF SavedSub, SubRow, SameIds
<1>3. SavedSub(s, c) # None
  BY <1>2, NoneAssumption
<1>4. KeepsIds
  BY <1>2, <1>3 DEF KeepsIds, SameIds, Exists, IInv, TypeOK
<1> QED
  BY <1>2, <1>4 DEF IInv, TypeOK, GoodTables, WinnerPitched, SameIds

LEMMA NotifyTables ==
    ASSUME IInv, NEW n \in Notice, notice' = notice \cup {n},
           UNCHANGED <<event, sub, vendor, today>>
    PROVE  GoodTables
BY DEF IInv, TypeOK, GoodTables, KeepsIds, WinnerPitched, Exists

-----------------------------------------------------------------------------
\* The life of an event.

LEMMA StepCreateEvent ==
    ASSUME IInv, NEW r \in Requests, NEW e \in Events, NEW d \in Days \cup {None},
           CreateEvent(r, e, d)
    PROVE  IInv'
<1>1. GoodTables
  BY DEF CreateEvent, IInv, TypeOK, GoodTables, KeepsIds, WinnerPitched, Exists,
         EventRow, RowState, Status
<1> QED
  BY <1>1, Still DEF CreateEvent

LEMMA StepBeginUpdate ==
    ASSUME IInv, NEW r \in Requests, NEW e \in Events, BeginUpdate(r, e)
    PROVE  IInv'
<1>1. PICK st \in NewStatus(e), d \in Days \cup {event[e].endDate} :
        req' = [req EXCEPT ![r] =
                  [Idle EXCEPT !.pc = "update", !.e = e,
                     !.opens = (Notifier /\ event[e].status # "open" /\ st = "open"),
                     !.ev = [ReadEvent(e) EXCEPT !.status = st, !.endDate = d]]]
  BY DEF BeginUpdate, Begin
<1> DEFINE c == [ReadEvent(e) EXCEPT !.status = st, !.endDate = d]
           o == Notifier /\ event[e].status # "open" /\ st = "open"
           q == [Idle EXCEPT !.pc = "update", !.e = e, !.opens = o, !.ev = c]
<1>2. CopyOK(e, c)
  <2>1. st \in Status /\ d \in Days \cup {None}
    BY EditAssumption DEF NewStatus, IInv, TypeOK, EventRow, Status
  <2> QED
    BY <2>1, ReadEventOK DEF IInv, CopyOK, EventCopy
<1>3. q \in Request /\ q.pc = "update" /\ q.e = e /\ q.ev = c
  <2>1. o \in BOOLEAN
    OBVIOUS
  <2> HIDE DEF o
  <2>2. c \in EventCopy
    BY <1>2 DEF CopyOK
  <2> HIDE DEF c
  <2> QED
    BY <2>1, <2>2, IdleOK DEF Idle, Request, Pc
<1>4. ReqOK(q)
  <2> HIDE DEF q, c
  <2> QED
    BY <1>2, <1>3 DEF ReqOK, HoldsCopy, Selecting, Pitching, Telling
<1>5. GoodTables
  BY ReadOnly DEF BeginUpdate
<1> QED
  <2> HIDE DEF q
  <2> QED
    BY <1>1, <1>3, <1>4, <1>5, Move DEF q

LEMMA StepSaveUpdate ==
    ASSUME IInv, NEW r \in Requests, SaveUpdate(r)
    PROVE  IInv'
<1>1. req[r].pc = "update" /\ CopyOK(req[r].e, req[r].ev)
  BY DEF SaveUpdate, IInv, ReqOK, HoldsCopy
<1>2. GoodTables
  BY <1>1, SaveEventTables DEF SaveUpdate
<1>3. CASE req[r].opens
  <2> DEFINE q == [Idle EXCEPT !.pc = "notifyOpen", !.e = req[r].e]
  <2>1. q \in Request /\ ReqOK(q)
    BY <1>1, IdleOK DEF Idle, Request, Pc, CopyOK, ReqOK, HoldsCopy, Selecting, Pitching, Telling
  <2> QED
    BY <1>2, <1>3, <2>1, Move DEF SaveUpdate, Goto
<1>4. CASE ~req[r].opens
  BY <1>2, <1>4, EndMove DEF SaveUpdate
<1> QED
  BY <1>3, <1>4

LEMMA StepNotifyOpen ==
    ASSUME IInv, NEW r \in Requests, NotifyOpen(r)
    PROVE  IInv'
<1>1. req[r].e \in Events
  BY DEF NotifyOpen, IInv, ReqOK
<1>2. [kind |-> "open", event |-> req[r].e, vendor |-> None] \in Notice
  BY <1>1 DEF Notice
<1>3. GoodTables
  BY <1>2, NotifyTables DEF NotifyOpen
<1> QED
  BY <1>3, EndMove DEF NotifyOpen

LEMMA StepBeginDelete ==
    ASSUME IInv, NEW r \in Requests, NEW e \in Events, BeginDelete(r, e)
    PROVE  IInv'
<1> DEFINE q == [Idle EXCEPT !.pc = "delete", !.e = e]
<1>1. q \in Request /\ ReqOK(q)
  BY IdleOK DEF Idle, Request, Pc, ReqOK, HoldsCopy, Selecting, Pitching, Telling
<1>2. GoodTables
  BY ReadOnly DEF BeginDelete
<1> QED
  BY <1>1, <1>2, Move DEF BeginDelete, Begin

LEMMA StepDeleteEvent ==
    ASSUME IInv, NEW r \in Requests, DeleteEvent(r)
    PROVE  IInv'
<1>0. \A row \in EventRow : /\ [row EXCEPT !.state = "deleted"] \in EventRow
                           /\ [row EXCEPT !.state = "deleted"].winner = row.winner
  BY DEF EventRow, RowState
<1>1. event' \in [Events -> EventRow]
  BY <1>0 DEF DeleteEvent, IInv, TypeOK
<1>2. \A e \in Events : event'[e].winner = event[e].winner
  BY <1>0 DEF DeleteEvent, IInv, TypeOK
<1>3. GoodTables
  BY <1>1, <1>2 DEF DeleteEvent, IInv, TypeOK, GoodTables, KeepsIds, WinnerPitched, Exists
<1> QED
  BY <1>3, EndMove DEF DeleteEvent

LEMMA StepRefresh ==
    ASSUME IInv, NEW r \in Requests, NEW e \in Events, NEW c, CopyOK(e, c), Refresh(r, e, c)
    PROVE  IInv'
<1> DEFINE q(pc, st) == [Idle EXCEPT !.pc = pc, !.e = e, !.ev = [c EXCEPT !.status = st]]
<1>1. GoodTables
  BY ReadOnly DEF Refresh
<1>2. ASSUME NEW pc \in {"close", "complete"}, NEW st \in Status
      PROVE  q(pc, st) \in Request /\ ReqOK(q(pc, st))
  <2>1. CopyOK(e, [c EXCEPT !.status = st])
    BY DEF CopyOK, EventCopy
  <2>2. [c EXCEPT !.status = st] \in EventCopy /\ e \in Events
    BY <2>1 DEF CopyOK
  <2>3. /\ q(pc, st).pc = pc /\ q(pc, st).e = e
        /\ q(pc, st).ev = [c EXCEPT !.status = st]
    BY DEF Idle
  <2>4. q(pc, st) \in Request
    BY <2>2, IdleOK DEF Idle, Request, Pc
  <2> HIDE DEF q
  <2>5. ReqOK(q(pc, st))
    BY <2>1, <2>3 DEF ReqOK, HoldsCopy, Selecting, Pitching, Telling
  <2> QED
    BY <2>4, <2>5
<1>3. q("close", "closed") \in Request /\ ReqOK(q("close", "closed"))
  BY <1>2 DEF Status
<1>4. q("complete", "completed") \in Request /\ ReqOK(q("complete", "completed"))
  BY <1>2 DEF Status
<1> QED
  BY <1>1, <1>3, <1>4, Move DEF Refresh, Begin

LEMMA StepView ==
    ASSUME IInv, NEW r \in Requests, NEW e \in Events, ViewEvent(r, e) \/ ListEvents(r, e)
    PROVE  IInv'
<1>1. CopyOK(e, ReadEvent(e))
  BY ReadEventOK DEF IInv
<1>2. CopyOK(e, [ReadEvent(e) EXCEPT !.loaded = None])
  BY <1>1 DEF CopyOK, EventCopy
<1> QED
  BY <1>1, <1>2, StepRefresh DEF ViewEvent, ListEvents

LEMMA StepSaveClosed ==
    ASSUME IInv, NEW r \in Requests, SaveClosed(r)
    PROVE  IInv'
<1>1. req[r].pc = "close" /\ CopyOK(req[r].e, req[r].ev)
  BY DEF SaveClosed, IInv, ReqOK, HoldsCopy
<1>2. GoodTables
  BY <1>1, SaveEventTables, ReadOnly DEF SaveClosed
<1>3. CASE NeedsComplete(req[r].ev)
  <2> DEFINE q == [req[r] EXCEPT !.pc = "complete", !.ev.status = "completed"]
  <2>0. req[r] \in Request
    BY DEF IInv, TypeOK
  <2> DEFINE ev == [req[r].ev EXCEPT !.status = "completed"]
  <2>1. CopyOK(req[r].e, ev)
    BY <1>1 DEF CopyOK, EventCopy, Status
  <2>2. ev \in EventCopy
    BY <2>1 DEF CopyOK
  <2>3. q.pc = "complete" /\ q.e = req[r].e /\ q.ev = ev
    BY <2>0 DEF Request
  <2>4. q = [req[r] EXCEPT !.pc = "complete", !.ev = ev]
    BY <2>0 DEF Request
  <2>5. q \in Request
    BY <2>0, <2>2 DEF Request, Pc
  <2> HIDE DEF q, ev
  <2>6. ReqOK(q)
    BY <2>1, <2>3 DEF ReqOK, HoldsCopy, Selecting, Pitching, Telling
  <2> USE DEF q
  <2> QED
    BY <1>2, <1>3, <2>5, <2>6, Move DEF SaveClosed, Goto
<1>4. CASE ~NeedsComplete(req[r].ev)
  BY <1>2, <1>4, EndMove DEF SaveClosed
<1> QED
  BY <1>3, <1>4

LEMMA StepSaveCompleted ==
    ASSUME IInv, NEW r \in Requests, SaveCompleted(r)
    PROVE  IInv'
<1>1. CopyOK(req[r].e, req[r].ev)
  BY DEF SaveCompleted, IInv, ReqOK, HoldsCopy
<1>2. GoodTables
  BY <1>1, SaveEventTables DEF SaveCompleted
<1> QED
  BY <1>2, EndMove DEF SaveCompleted

-----------------------------------------------------------------------------
\* Pitching and judging.

LEMMA StepBeginPitch ==
    ASSUME IInv, NEW r \in Requests, NEW e \in Events, NEW v \in Vendors, BeginPitch(r, e, v)
    PROVE  IInv'
<1> DEFINE q == [Idle EXCEPT !.pc = "pitchEvent", !.e = e, !.v = v]
<1>1. q \in Request /\ ReqOK(q)
  BY IdleOK DEF Idle, Request, Pc, ReqOK, HoldsCopy, Selecting, Pitching, Telling
<1>2. GoodTables
  BY ReadOnly DEF BeginPitch
<1> QED
  BY <1>1, <1>2, Move DEF BeginPitch, Begin

\* Moving on inside the handler of SubmitPitch, before the row exists.
LEMMA PitchOn ==
    ASSUME IInv, NEW r \in Requests, req[r].pc \in Pitching,
           NEW pc \in {"pitchExisting", "pitchCreate"}
    PROVE  [req[r] EXCEPT !.pc = pc] \in Request /\ ReqOK([req[r] EXCEPT !.pc = pc])
<1>1. req[r] \in Request /\ req[r].e \in Events /\ req[r].v \in Vendors
  BY DEF IInv, TypeOK, ReqOK
<1> QED
  BY <1>1 DEF Request, Pc, ReqOK, HoldsCopy, Selecting, Pitching, Telling

LEMMA StepPitchReads ==
    ASSUME IInv, NEW r \in Requests, PitchReadEvent(r) \/ PitchCheckExisting(r)
    PROVE  IInv'
<1>1. GoodTables
  BY ReadOnly DEF PitchReadEvent, PitchCheckExisting
<1>2. req[r].pc \in Pitching
  BY DEF PitchReadEvent, PitchCheckExisting, Pitching
<1>3. \/ End(r)
      \/ Goto(r, [req[r] EXCEPT !.pc = "pitchExisting"])
      \/ Goto(r, [req[r] EXCEPT !.pc = "pitchCreate"])
  BY DEF PitchReadEvent, PitchCheckExisting
<1>4. CASE End(r)
  BY <1>1, <1>4, EndMove
<1>5. CASE Goto(r, [req[r] EXCEPT !.pc = "pitchExisting"])
  BY <1>1, <1>2, <1>5, PitchOn, Move DEF Goto
<1>6. CASE Goto(r, [req[r] EXCEPT !.pc = "pitchCreate"])
  BY <1>1, <1>2, <1>6, PitchOn, Move DEF Goto
<1> QED
  BY <1>3, <1>4, <1>5, <1>6

\* Here the request learns the id of a row that exists only after the step,
\* so Move does not apply.
LEMMA StepCreateSubmission ==
    ASSUME IInv, NEW r \in Requests, CreateSubmission(r)
    PROVE  IInv'
<1>1. req[r] \in Request /\ req[r].pc = "pitchCreate" /\ req[r].e \in Events /\ req[r].v \in Vendors
  BY DEF CreateSubmission, IInv, TypeOK, ReqOK, Pitching
<1>2. CASE End(r) /\ UNCHANGED sub
  <2>1. GoodTables
    BY <1>2, ReadOnly DEF CreateSubmission
  <2> QED
    BY <1>2, <2>1, EndMove
<1>3. ASSUME NEW s \in Subs, ~Exists(s),
             sub' = [sub EXCEPT ![s] = [event |-> req[r].e, vendor |-> req[r].v,
                                        isWinner |-> FALSE, scored |-> FALSE, file |-> FALSE]],
             req' = [req EXCEPT ![r] = [req[r] EXCEPT !.pc = "pitchFile", !.s = s]],
             UNCHANGED <<event, vendor, notice, today>>
      PROVE  IInv'
  <2> DEFINE row == [event |-> req[r].e, vendor |-> req[r].v,
                     isWinner |-> FALSE, scored |-> FALSE, file |-> FALSE]
  <2>1. row \in SubRow
    BY <1>1 DEF SubRow
  <2>2. row # None
    BY <2>1, NoneAssumption
  <2>3. sub' = [sub EXCEPT ![s] = row]
    BY <1>3
  <2> HIDE DEF row
  <2>4. KeepsIds
    BY <1>3, <2>3 DEF IInv, TypeOK, KeepsIds, Exists
  <2>5. GoodTables
    BY <1>3, <2>1, <2>3, <2>4 DEF IInv, TypeOK, GoodTables, WinnerPitched
  <2>6. Exists(s)'
    BY <2>2, <2>3 DEF Exists, IInv, TypeOK
  <2>7. PICK q \in Request : q = [req[r] EXCEPT !.pc = "pitchFile", !.s = s]
    BY <1>1 DEF Request, Pc
  <2>8. q.pc = "pitchFile" /\ q.s = s /\ q.e \in Events /\ q.v \in Vendors
    BY <1>1, <2>7 DEF Request
  <2>9. ReqOK(q)'
    BY <2>6, <2>8 DEF ReqOK, HoldsCopy, Selecting, Pitching, Telling
  <2> QED
    BY <1>3, <2>5, <2>7, <2>9, MoveTo
<1> QED
  BY <1>2, <1>3 DEF CreateSubmission, Goto

LEMMA StepPitchFile ==
    ASSUME IInv, NEW r \in Requests, PitchFile(r)
    PROVE  IInv'
<1>1. req[r].s \in Subs /\ Exists(req[r].s) /\ sub[req[r].s] \in SubRow
  BY DEF PitchFile, IInv, TypeOK, ReqOK, Exists
<1>2. PICK ok \in BOOLEAN : sub' = [sub EXCEPT ![req[r].s].file = ok]
  BY DEF PitchFile
<1> DEFINE row == [sub[req[r].s] EXCEPT !.file = ok]
<1>3. /\ row \in SubRow
      /\ row.event = sub[req[r].s].event /\ row.vendor = sub[req[r].s].vendor
  BY <1>1 DEF SubRow
<1>4. row # None
  BY <1>3, NoneAssumption
<1>5. sub' = [sub EXCEPT ![req[r].s] = row]
  BY <1>2
<1> HIDE DEF row
<1>6. KeepsIds
  BY <1>1, <1>3, <1>4, <1>5 DEF KeepsIds, Exists, IInv, TypeOK
<1>7. GoodTables
  BY <1>1, <1>3, <1>5, <1>6 DEF PitchFile, IInv, TypeOK, GoodTables, WinnerPitched
<1> QED
  BY <1>7, EndMove DEF PitchFile

LEMMA StepBeginJudge ==
    ASSUME IInv, NEW r \in Requests, NEW s \in Subs,
           ScoreSubmission(r, s) \/ ShortlistSubmission(r, s)
    PROVE  IInv'
<1>1. sub[s] \in SubRow /\ Exists(s)
  BY DEF ScoreSubmission, ShortlistSubmission, IInv, TypeOK, Exists
<1>2. ASSUME NEW c, SameIds(s, c)
      PROVE  LET q == [Idle EXCEPT !.pc = "saveSub", !.s = s, !.sb = c]
             IN  q \in Request /\ ReqOK(q)
  <2>1. c \in SubRow
    BY <1>2 DEF SameIds
  <2> QED
    BY <1>2, <2>1, IdleOK DEF Idle, Request, Pc, ReqOK, HoldsCopy, Selecting, Pitching, Telling
<1>3. SameIds(s, sub[s]) /\ SameIds(s, [sub[s] EXCEPT !.scored = TRUE])
  BY <1>1 DEF SameIds, SubRow
<1>4. GoodTables
  BY ReadOnly DEF ScoreSubmission, ShortlistSubmission
<1> QED
  BY <1>2, <1>3, <1>4, Move DEF ScoreSubmission, ShortlistSubmission, Begin

LEMMA StepSaveSubmission ==
    ASSUME IInv, NEW r \in Requests, SaveSubmission(r)
    PROVE  IInv'
<1>1. SameIds(req[r].s, req[r].sb)
  BY DEF SaveSubmission, IInv, ReqOK
<1>2. GoodTables
  BY <1>1, SaveSubTables DEF SaveSubmission
<1> QED
  BY <1>2, EndMove DEF SaveSubmission

-----------------------------------------------------------------------------
\* Choosing the winner.

LEMMA StepSelectWinner ==
    ASSUME IInv, NEW r \in Requests, NEW e \in Events, NEW s \in Subs, SelectWinner(r, e, s)
    PROVE  IInv'
<1> DEFINE c == ReadEvent(e)
           pc == IF c.winner = None THEN "winPitch" ELSE "winVendor"
           q == [Idle EXCEPT !.pc = pc, !.e = e, !.s = s, !.ev = c]
<1>1. CopyOK(e, c)
  BY ReadEventOK DEF IInv
<1>2. GoodTables
  BY ReadOnly DEF SelectWinner
<1>3. pc \in {"winPitch", "winVendor"} /\ c \in EventCopy
  BY <1>1 DEF CopyOK
<1>4. req' = [req EXCEPT ![r] = q]
  BY DEF SelectWinner, Begin
<1> HIDE DEF c, pc
<1>5. q \in Request /\ q.pc = pc /\ q.e = e /\ q.s = s /\ q.ev = c
  BY <1>3, IdleOK DEF Idle, Request, Pc
<1> HIDE DEF q
<1>6. ReqOK(q)
  BY <1>1, <1>3, <1>5 DEF ReqOK, HoldsCopy, Selecting, Pitching, Telling
<1> QED
  BY <1>2, <1>4, <1>5, <1>6, Move

\* What SelectWinner carries from its first call to its last.
LEMMA SelectingOK ==
    ASSUME IInv, NEW r \in Requests, req[r].pc \in Selecting
    PROVE  req[r] \in Request /\ CopyOK(req[r].e, req[r].ev) /\ req[r].s \in Subs
BY DEF IInv, TypeOK, ReqOK, HoldsCopy

LEMMA StepCheckWinnerVendor ==
    ASSUME IInv, NEW r \in Requests, CheckWinnerVendor(r)
    PROVE  IInv'
<1>1. GoodTables
  BY ReadOnly DEF CheckWinnerVendor
<1>2. CASE End(r)
  BY <1>1, <1>2, EndMove
<1>3. CASE Goto(r, [req[r] EXCEPT !.pc = "winRows"])
  <2> DEFINE q == [req[r] EXCEPT !.pc = "winRows"]
  <2>1. req[r] \in Request /\ CopyOK(req[r].e, req[r].ev) /\ req[r].s \in Subs
    BY SelectingOK DEF CheckWinnerVendor, Selecting
  <2>2. q \in Request /\ ReqOK(q)
    BY <2>1 DEF Request, Pc, ReqOK, HoldsCopy, Selecting, Pitching, Telling
  <2> QED
    BY <1>1, <1>3, <2>2, Move DEF Goto
<1> QED
  BY <1>2, <1>3 DEF CheckWinnerVendor

LEMMA StepReadFlagged ==
    ASSUME IInv, NEW r \in Requests, ReadFlagged(r)
    PROVE  IInv'
<1> DEFINE flagged == Flagged(req[r].e)
           rows == [x \in Subs |-> IF x \in flagged THEN sub[x] ELSE None]
           pc == IF flagged = {} THEN "winPitch" ELSE "winReset"
           q == [req[r] EXCEPT !.pc = pc, !.rows = rows]
<1>1. GoodTables
  BY ReadOnly DEF ReadFlagged
<1>2. req[r] \in Request /\ CopyOK(req[r].e, req[r].ev) /\ req[r].s \in Subs
  BY SelectingOK DEF ReadFlagged, Selecting
<1>3. req' = [req EXCEPT ![r] = q]
  BY DEF ReadFlagged, Goto
<1>4. rows \in [Subs -> SubRow \cup {None}]
  BY DEF IInv, TypeOK
<1>5. \A x \in Subs : rows[x] # None => SameIds(x, rows[x])
  BY DEF Flagged, IInv, TypeOK, SameIds, Exists, SubsOf
<1>6. pc \in {"winPitch", "winReset"}
  OBVIOUS
<1> HIDE DEF rows, pc
<1>7. q \in Request /\ ReqOK(q)
  BY <1>2, <1>4, <1>5, <1>6 DEF Request, Pc, ReqOK, HoldsCopy, Selecting, Pitching, Telling
<1> QED
  BY <1>1, <1>3, <1>7, Move

LEMMA StepResetFlag ==
    ASSUME IInv, NEW r \in Requests, NEW x \in Subs, ResetFlag(r, x)
    PROVE  IInv'
<1> DEFINE c == [req[r].rows[x] EXCEPT !.isWinner = FALSE]
           pc == IF Todo(r) = {x} THEN "winPitch" ELSE "winReset"
           q == [req[r] EXCEPT !.pc = pc, !.rows[x] = None]
<1>1. /\ req[r] \in Request /\ CopyOK(req[r].e, req[r].ev) /\ req[r].s \in Subs
      /\ \A y \in Subs : req[r].rows[y] # None => SameIds(y, req[r].rows[y])
  BY SelectingOK DEF ResetFlag, Selecting, IInv, ReqOK
<1>2. SameIds(x, c)
  BY <1>1 DEF ResetFlag, Todo, SameIds, SubRow
<1>3. GoodTables
  BY <1>2, SaveSubTables, ReadOnly DEF ResetFlag
<1>4. req' = [req EXCEPT ![r] = q]
  BY DEF ResetFlag, Goto
<1>5. pc \in {"winPitch", "winReset"}
  OBVIOUS
<1> HIDE DEF pc
<1>6. q \in Request
  BY <1>1, <1>5 DEF Request, Pc
<1>7. /\ q.pc = pc /\ q.e = req[r].e /\ q.s = req[r].s /\ q.ev = req[r].ev
      /\ \A y \in Subs : q.rows[y] # None => q.rows[y] = req[r].rows[y]
  BY <1>1 DEF Request
<1> HIDE DEF q
<1>8. ReqOK(q)
  BY <1>1, <1>5, <1>7 DEF ReqOK, HoldsCopy, Selecting, Pitching, Telling
<1> QED
  BY <1>3, <1>4, <1>6, <1>8, Move

LEMMA StepReadWinningPitch ==
    ASSUME IInv, NEW r \in Requests, ReadWinningPitch(r)
    PROVE  IInv'
<1>1. GoodTables
  BY ReadOnly DEF ReadWinningPitch
<1>2. CASE End(r)
  BY <1>1, <1>2, EndMove
<1>3. CASE /\ Exists(req[r].s) /\ Belongs(req[r].s, req[r].e)
           /\ Goto(r, [req[r] EXCEPT !.pc = "winSaveSub",
                                     !.sb = [sub[req[r].s] EXCEPT !.isWinner = TRUE]])
  <2> DEFINE c == [sub[req[r].s] EXCEPT !.isWinner = TRUE]
             q == [req[r] EXCEPT !.pc = "winSaveSub", !.sb = c]
  <2>1. req[r] \in Request /\ CopyOK(req[r].e, req[r].ev) /\ req[r].s \in Subs
    BY SelectingOK DEF ReadWinningPitch, Selecting
  <2>2. SameIds(req[r].s, c) /\ c.event = req[r].e /\ c \in SubRow
    BY <1>3, <2>1 DEF Belongs, IInv, TypeOK, SameIds, SubRow, Exists
  <2> HIDE DEF c
  <2>3. q \in Request
    BY <2>1, <2>2 DEF Request, Pc
  <2>4. q.pc = "winSaveSub" /\ q.e = req[r].e /\ q.s = req[r].s /\ q.ev = req[r].ev /\ q.sb = c
    BY <2>1 DEF Request
  <2>5. req' = [req EXCEPT ![r] = q]
    BY <1>3 DEF Goto, c
  <2> HIDE DEF q
  <2>6. ReqOK(q)
    BY <2>1, <2>2, <2>4 DEF ReqOK, HoldsCopy, Selecting, Pitching, Telling
  <2> QED
    BY <1>1, <2>3, <2>5, <2>6, Move
<1> QED
  BY <1>2, <1>3 DEF ReadWinningPitch

\* From here on the copy of the event names the vendor of the submission
\* that was checked to belong to the event.
LEMMA StepSaveWinningPitch ==
    ASSUME IInv, NEW r \in Requests, SaveWinningPitch(r)
    PROVE  IInv'
<1> DEFINE v == req[r].sb.vendor
           c == [req[r].ev EXCEPT !.winner = v, !.status = "completed"]
           q == [req[r] EXCEPT !.pc = "winSaveEvent", !.ev = c, !.sb = None]
<1>1. req[r] \in Request /\ CopyOK(req[r].e, req[r].ev) /\ req[r].s \in Subs
  BY SelectingOK DEF SaveWinningPitch, Selecting
<1>2. SameIds(req[r].s, req[r].sb) /\ req[r].sb.event = req[r].e
  BY DEF SaveWinningPitch, IInv, ReqOK
<1>3. GoodTables
  BY <1>2, SaveSubTables DEF SaveWinningPitch
<1>4. v \in Vendors /\ v # None
  BY <1>2, NoneAssumption DEF SameIds, SubRow
<1>5. Pitched(req[r].e, v)
  BY <1>2 DEF SameIds, Pitched, SubsOf
<1>6. req[r].ev \in EventCopy
  BY <1>1 DEF CopyOK
<1>7. req' = [req EXCEPT ![r] = q]
  BY <1>1, <1>6 DEF SaveWinningPitch, Goto, Request, EventCopy
<1> HIDE DEF v
<1>8. c \in EventCopy /\ c.winner = v /\ c.loaded = req[r].ev.loaded
  BY <1>4, <1>6 DEF EventCopy, Status
<1> HIDE DEF c
<1>9. CopyOK(req[r].e, c)
  BY <1>1, <1>5, <1>8 DEF CopyOK
<1>10. q \in Request /\ q.pc = "winSaveEvent" /\ q.e = req[r].e /\ q.s = req[r].s /\ q.ev = c
  BY <1>1, <1>8 DEF Request, Pc
<1> HIDE DEF q
<1>11. ReqOK(q)
  BY <1>1, <1>4, <1>8, <1>9, <1>10 DEF ReqOK, HoldsCopy, Selecting, Pitching, Telling
<1> QED
  BY <1>3, <1>7, <1>10, <1>11, Move

LEMMA StepSaveWinner ==
    ASSUME IInv, NEW r \in Requests, SaveWinner(r)
    PROVE  IInv'
<1> DEFINE w == Saved(req[r].ev).winner
           q == [Idle EXCEPT !.pc = "tellWinner", !.e = req[r].e, !.v = w]
<1>1. CopyOK(req[r].e, req[r].ev) /\ req[r].ev.winner # None
  BY SelectingOK DEF SaveWinner, Selecting, IInv, ReqOK
<1>2. GoodTables
  BY <1>1, SaveEventTables DEF SaveWinner
<1>3. w \in Vendors
  BY <1>1 DEF Saved, CopyOK, EventCopy
<1>4. End(r) \/ req' = [req EXCEPT ![r] = q]
  BY DEF SaveWinner, Goto
<1> HIDE DEF w
<1>5. req[r].e \in Events
  BY <1>1 DEF CopyOK
<1>6. q \in Request /\ ReqOK(q)
  BY <1>3, <1>5, IdleOK DEF Idle, Request, Pc, ReqOK, HoldsCopy, Selecting, Pitching, Telling
<1> QED
  BY <1>2, <1>4, <1>6, Move, EndMove

-----------------------------------------------------------------------------
\* Telling the vendors.

LEMMA TellingOK ==
    ASSUME IInv, NEW r \in Requests, req[r].pc \in Telling
    PROVE  req[r] \in Request /\ req[r].e \in Events /\ req[r].v \in Vendors
BY DEF IInv, TypeOK, ReqOK

LEMMA StepTellWinner ==
    ASSUME IInv, NEW r \in Requests, TellWinner(r)
    PROVE  IInv'
<1> DEFINE q == [req[r] EXCEPT !.pc = "losers"]
<1>1. req[r] \in Request /\ req[r].e \in Events /\ req[r].v \in Vendors
  BY TellingOK DEF TellWinner, Telling
<1>2. [kind |-> "winner", event |-> req[r].e, vendor |-> req[r].v] \in Notice
  BY <1>1 DEF Notice
<1>3. GoodTables
  BY <1>2, NotifyTables, ReadOnly DEF TellWinner
<1>4. q \in Request /\ ReqOK(q)
  BY <1>1 DEF Request, Pc, ReqOK, HoldsCopy, Selecting, Pitching, Telling
<1> QED
  BY <1>3, <1>4, Move DEF TellWinner, Goto

LEMMA StepReadLosers ==
    ASSUME IInv, NEW r \in Requests, ReadLosers(r)
    PROVE  IInv'
<1> DEFINE losers == Losers(req[r].e, req[r].v)
           rows == [x \in Subs |-> IF x \in losers THEN sub[x] ELSE None]
           q == [req[r] EXCEPT !.pc = "tellLoser", !.rows = rows]
<1>1. req[r] \in Request /\ req[r].e \in Events /\ req[r].v \in Vendors
  BY TellingOK DEF ReadLosers, Telling
<1>2. GoodTables
  BY ReadOnly DEF ReadLosers
<1>3. rows \in [Subs -> SubRow \cup {None}]
  BY DEF IInv, TypeOK
<1>4. End(r) \/ req' = [req EXCEPT ![r] = q]
  BY DEF ReadLosers, Goto
<1> HIDE DEF rows
<1>5. q \in Request /\ ReqOK(q)
  BY <1>1, <1>3 DEF Request, Pc, ReqOK, HoldsCopy, Selecting, Pitching, Telling
<1> QED
  BY <1>2, <1>4, <1>5, Move, EndMove

LEMMA StepTellLoser ==
    ASSUME IInv, NEW r \in Requests, NEW x \in Subs, TellLoser(r, x)
    PROVE  IInv'
<1> DEFINE v == req[r].rows[x].vendor
           q == [req[r] EXCEPT !.rows[x] = None]
<1>1. req[r] \in Request /\ req[r].e \in Events /\ req[r].v \in Vendors /\ req[r].pc = "tellLoser"
  BY TellingOK DEF TellLoser, Telling
<1>2. v \in Vendors
  BY <1>1 DEF TellLoser, Todo, Request, SubRow
<1>3. [kind |-> "loser", event |-> req[r].e, vendor |-> v] \in Notice
  BY <1>1, <1>2 DEF Notice
<1>4. GoodTables
  BY <1>3, NotifyTables, ReadOnly DEF TellLoser
<1>5. q \in Request /\ ReqOK(q)
  BY <1>1 DEF Request, ReqOK, HoldsCopy, Selecting, Pitching, Telling
<1> QED
  BY <1>4, <1>5, Move, EndMove DEF TellLoser, Goto

-----------------------------------------------------------------------------
\* Surroundings.

LEMMA StepUpdateVendorStatus ==
    ASSUME IInv, NEW r \in Requests, NEW v \in Vendors, NEW st \in Standings,
           UpdateVendorStatus(r, v, st)
    PROVE  IInv'
<1>1. vendor' \in [Vendors -> VendorRow]
  BY DEF UpdateVendorStatus, IInv, TypeOK, VendorRow
<1>2. GoodTables
  BY <1>1 DEF UpdateVendorStatus, IInv, TypeOK, GoodTables, KeepsIds, WinnerPitched, Exists
<1> QED
  BY <1>2, Still DEF UpdateVendorStatus

LEMMA StepDeleteVendor ==
    ASSUME IInv, NEW r \in Requests, NEW v \in Vendors, DeleteVendor(r, v)
    PROVE  IInv'
<1>1. vendor' \in [Vendors -> VendorRow]
  BY DEF DeleteVendor, IInv, TypeOK, VendorRow
<1>2. GoodTables
  BY <1>1 DEF DeleteVendor, IInv, TypeOK, GoodTables, KeepsIds, WinnerPitched, Exists
<1> QED
  BY <1>2, Still DEF DeleteVendor

LEMMA StepNextDay ==
    ASSUME IInv, NextDay
    PROVE  IInv'
<1>1. GoodTables
  BY DayAssumption DEF NextDay, Days, IInv, TypeOK, GoodTables, KeepsIds, WinnerPitched, Exists
<1> QED
  BY <1>1, Still DEF NextDay

LEMMA StepAbort ==
    ASSUME IInv, NEW r \in Requests, Abort(r)
    PROVE  IInv'
<1>1. GoodTables
  BY ReadOnly DEF Abort
<1> QED
  BY <1>1, EndMove DEF Abort

-----------------------------------------------------------------------------
LEMMA InitIInv == Init => IInv
<1> SUFFICES ASSUME Init PROVE IInv
  OBVIOUS
<1>1. TypeOK
  <2>1. event \in [Events -> EventRow]
    BY DEF Init, Absent, EventRow, RowState, Status
  <2>2. vendor \in [Vendors -> VendorRow]
    BY DEF Init, VendorRow
  <2>3. today \in Days
    BY DayAssumption DEF Init, Days
  <2> QED
    BY <2>1, <2>2, <2>3, IdleOK DEF Init, TypeOK
<1>2. WinnerPitched
  BY DEF Init, Absent, WinnerPitched
<1> QED
  BY <1>1, <1>2, IdleOK DEF Init, IInv

LEMMA ArriveIInv ==
    ASSUME IInv, NEW r \in Requests, Arrive(r)
    PROVE  IInv'
<1>1. ASSUME NEW e \in Events, NEW d \in Days \cup {None}, CreateEvent(r, e, d) PROVE IInv'
  BY <1>1, StepCreateEvent
<1>2. ASSUME NEW e \in Events, BeginUpdate(r, e) PROVE IInv'
  BY <1>2, StepBeginUpdate
<1>3. ASSUME NEW e \in Events, BeginDelete(r, e) PROVE IInv'
  BY <1>3, StepBeginDelete
<1>4. ASSUME NEW e \in Events, ViewEvent(r, e) \/ ListEvents(r, e) PROVE IInv'
  BY <1>4, StepView
<1>5. ASSUME NEW e \in Events, NEW v \in Vendors, BeginPitch(r, e, v) PROVE IInv'
  BY <1>5, StepBeginPitch
<1>6. ASSUME NEW e \in Events, NEW s \in Subs, SelectWinner(r, e, s) PROVE IInv'
  BY <1>6, StepSelectWinner
<1>7. ASSUME NEW s \in Subs, ScoreSubmission(r, s) \/ ShortlistSubmission(r, s) PROVE IInv'
  BY <1>7, StepBeginJudge
<1>8. ASSUME NEW v \in Vendors, NEW st \in Standings, UpdateVendorStatus(r, v, st) PROVE IInv'
  BY <1>8, StepUpdateVendorStatus
<1>9. ASSUME NEW v \in Vendors, DeleteVendor(r, v) PROVE IInv'
  BY <1>9, StepDeleteVendor
<1> QED
  BY <1>1, <1>2, <1>3, <1>4, <1>5, <1>6, <1>7, <1>8, <1>9 DEF Arrive

LEMMA ContinueIInv ==
    ASSUME IInv, NEW r \in Requests, Continue(r)
    PROVE  IInv'
BY StepSaveUpdate, StepNotifyOpen, StepDeleteEvent, StepSaveClosed, StepSaveCompleted,
   StepPitchReads, StepCreateSubmission, StepPitchFile, StepSaveSubmission,
   StepCheckWinnerVendor, StepReadFlagged, StepResetFlag, StepReadWinningPitch,
   StepSaveWinningPitch, StepSaveWinner, StepTellWinner, StepReadLosers, StepTellLoser
DEF Continue

\* The invariant is inductive: one lemma per action above.
LEMMA NextIInv == IInv /\ [Next]_vars => IInv'
<1> SUFFICES ASSUME IInv, [Next]_vars PROVE IInv'
  OBVIOUS
<1>1. ASSUME NEW r \in Requests, Arrive(r) \/ Continue(r) \/ Abort(r) PROVE IInv'
  BY <1>1, ArriveIInv, ContinueIInv, StepAbort
<1>2. CASE NextDay
  BY <1>2, StepNextDay
<1>3. CASE UNCHANGED vars
  <2>1. GoodTables
    BY <1>3, ReadOnly DEF vars
  <2> QED
    BY <1>3, <2>1, Still DEF vars
<1> QED
  BY <1>1, <1>2, <1>3 DEF Next

\* Type correctness: rows, copies and the registers of every request in
\* flight keep their shape, whatever calls interleave and fail.
THEOREM TypeCorrect == Spec => []TypeOK
<1>1. IInv => TypeOK
  BY DEF IInv
<1> QED
  BY InitIInv, NextIInv, <1>1, PTL DEF Spec

\* The winner on record has pitched for the event, for any number of
\* concurrent requests saving stale copies, failing and crashing.
THEOREM WinnerHasPitched == Spec => []WinnerPitched
<1>1. IInv => WinnerPitched
  BY DEF IInv
<1> QED
  BY InitIInv, NextIInv, <1>1, PTL DEF Spec

-----------------------------------------------------------------------------
\* One submission per vendor and event.  Most steps leave the table of
\* submissions alone; a Save rewrites a row under its own ids; the insert
\* answers to the UNIQUE constraint.

LEMMA RowRewritten ==
    ASSUME IInv, OnePitchPerVendor, NEW s, NEW c, SameIds(s, c),
           sub' = [sub EXCEPT ![s] = SavedSub(s, c)] \/ sub' = sub
    PROVE  OnePitchPerVendor'
<1>1. CASE sub' = sub
  BY <1>1 DEF OnePitchPerVendor, Exists
<1>2. CASE sub' = [sub EXCEPT ![s] = SavedSub(s, c)]
  <2>1. SavedSub(s, c).event = sub[s].event /\ SavedSub(s, c).vendor = sub[s].vendor
    BY DEF SavedSub, SameIds, SubRow
  <2>2. \A x \in Subs : Exists(x)' => Exists(x) /\ sub'[x].event = sub[x].event
                                                /\ sub'[x].vendor = sub[x].vendor
    BY <1>2, <2>1 DEF Exists, SameIds, IInv, TypeOK
  <2> QED
    BY <2>2 DEF OnePitchPerVendor
<1> QED
  BY <1>1, <1>2

LEMMA InsertUnique ==
    ASSUME IInv, OnePitchPerVendor, NEW r \in Requests, CreateSubmission(r)
    PROVE  OnePitchPerVendor'
<1>1. CASE UNCHANGED sub
  BY <1>1 DEF OnePitchPerVendor, Exists
<1>2. ASSUME NEW s \in Subs, ~Exists(s), UniqueEventVendor(req[r].e, req[r].v),
             sub' = [sub EXCEPT ![s] = [event |-> req[r].e, vendor |-> req[r].v,
                                        isWinner |-> FALSE, scored |-> FALSE, file |-> FALSE]]
      PROVE  OnePitchPerVendor'
  <2>1. sub'[s].event = req[r].e /\ sub'[s].vendor = req[r].v
    BY <1>2 DEF IInv, TypeOK
  <2>2. \A x \in Subs \ {s} : sub'[x] = sub[x]
    BY <1>2 DEF IInv, TypeOK
  <2>3. \A x \in Subs : Exists(x) => ~(sub[x].event = req[r].e /\ sub[x].vendor = req[r].v)
    BY <1>2 DEF UniqueEventVendor, Pitched, SubsOf
  <2> QED
    BY <2>1, <2>2, <2>3 DEF OnePitchPerVendor, Exists
<1> QED
  BY <1>1, <1>2 DEF CreateSubmission

LEMMA FileUnique ==
    ASSUME IInv, OnePitchPerVendor, NEW r \in Requests, PitchFile(r)
    PROVE  OnePitchPerVendor'
<1>1. req[r].s \in Subs /\ Exists(req[r].s) /\ sub[req[r].s] \in SubRow
  BY DEF PitchFile, IInv, TypeOK, ReqOK, Exists
<1>2. PICK ok \in BOOLEAN : sub' = [sub EXCEPT ![req[r].s].file = ok]
  BY DEF PitchFile
<1>3. \A x \in Subs : Exists(x)' => Exists(x) /\ sub'[x].event = sub[x].event
                                              /\ sub'[x].vendor = sub[x].vendor
  BY <1>1, <1>2 DEF Exists, IInv, TypeOK, SubRow
<1> QED
  BY <1>3 DEF OnePitchPerVendor

LEMMA NextUnique == IInv /\ OnePitchPerVendor /\ [Next]_vars => OnePitchPerVendor'
<1> SUFFICES ASSUME IInv, OnePitchPerVendor, [Next]_vars PROVE OnePitchPerVendor'
  OBVIOUS
<1>1. CASE UNCHANGED sub
  BY <1>1 DEF OnePitchPerVendor, Exists
<1>2. ASSUME NEW r \in Requests, SaveSubmission(r) PROVE OnePitchPerVendor'
  <2>1. SameIds(req[r].s, req[r].sb)
    BY <1>2 DEF SaveSubmission, IInv, ReqOK
  <2> QED
    BY <1>2, <2>1, RowRewritten DEF SaveSubmission
<1>3. ASSUME NEW r \in Requests, SaveWinningPitch(r) PROVE OnePitchPerVendor'
  <2>1. SameIds(req[r].s, req[r].sb)
    BY <1>3 DEF SaveWinningPitch, IInv, ReqOK
  <2> QED
    BY <1>3, <2>1, RowRewritten DEF SaveWinningPitch
<1>4. ASSUME NEW r \in Requests, NEW x \in Subs, ResetFlag(r, x) PROVE OnePitchPerVendor'
  <2>1. SameIds(x, req[r].rows[x])
    BY <1>4 DEF ResetFlag, Todo, IInv, ReqOK
  <2>2. SameIds(x, [req[r].rows[x] EXCEPT !.isWinner = FALSE])
    BY <2>1 DEF SameIds, SubRow
  <2> QED
    BY <1>4, <2>2, RowRewritten DEF ResetFlag
<1>5. ASSUME NEW r \in Requests, Arrive(r) PROVE UNCHANGED sub
  BY <1>5 DEF Arrive, CreateEvent, BeginUpdate, BeginDelete, ViewEvent, ListEvents, Refresh,
              BeginPitch, SelectWinner, ScoreSubmission, ShortlistSubmission,
              UpdateVendorStatus, DeleteVendor
<1>6. ASSUME NEW r \in Requests, Continue(r)
      PROVE  \/ UNCHANGED sub \/ SaveSubmission(r) \/ SaveWinningPitch(r)
             \/ CreateSubmission(r) \/ PitchFile(r)
             \/ \E x \in Subs : ResetFlag(r, x)
  BY <1>6 DEF Continue, SaveUpdate, NotifyOpen, DeleteEvent, SaveClosed, SaveCompleted,
              PitchReadEvent, PitchCheckExisting, CheckWinnerVendor, ReadFlagged,
              ReadWinningPitch, SaveWinner, TellWinner, ReadLosers, TellLoser
<1>7. ASSUME NEW r \in Requests, Abort(r) PROVE UNCHANGED sub
  BY <1>7 DEF Abort
<1>8. NextDay => UNCHANGED sub
  BY DEF NextDay
<1>9. UNCHANGED vars => UNCHANGED sub
  BY DEF vars
<1> QED
  BY <1>1, <1>2, <1>3, <1>4, <1>5, <1>6, <1>7, <1>8, <1>9, InsertUnique, FileUnique DEF Next

\* A vendor never has two submissions for one event, although two of its
\* requests may both find none and go on to insert.
THEOREM OnePitch == Spec => []OnePitchPerVendor
<1>1. Init => OnePitchPerVendor
  BY DEF Init, OnePitchPerVendor, Exists
<1> QED
  BY InitIInv, NextIInv, <1>1, NextUnique, PTL DEF Spec

=============================================================================
