---------------------------- MODULE EventService ----------------------------
(***************************************************************************)
(* Pitching events: internal/services/events, its repository and the       *)
(* handlers in front of it.  HTTP requests run concurrently; a handler is  *)
(* a series of separate database calls (there is no transaction around     *)
(* them), so each call is an action and a request keeps, between calls,    *)
(* the copies of the rows it has read.  gorm's Save writes every column of *)
(* such a copy.                                                            *)
(***************************************************************************)
EXTENDS Naturals, FiniteSets

CONSTANTS
    Events,     \* ids of events
    Vendors,    \* ids of vendors
    Subs,       \* ids of submissions (fresh UUIDs)
    Requests,   \* slots for requests in flight
    Calls,      \* the operations clients call
    EditStatus, \* event statuses an administrator sets
    Standings,  \* vendor statuses an administrator sets
    MaxDay,     \* bound on the calendar
    Notifier,   \* is NotificationSvc wired (the service also runs without)?
    Faults,     \* may a database call fail, or the process die, mid-request?
    None        \* the nil pointer

ASSUME DayAssumption == MaxDay \in Nat
ASSUME EditAssumption == \* dto.UpdateEventRequest, oneof
    EditStatus \subseteq {"draft", "open", "closed", "completed", "cancelled"}
ASSUME StandingAssumption ==
    Standings \subseteq {"pending", "verify", "revision", "active", "suspended"}
ASSUME FlagAssumption == Faults \in BOOLEAN /\ Notifier \in BOOLEAN

VARIABLES
    event,      \* table events
    sub,        \* table event_submissions
    vendor,     \* table vendors, as far as events look at it
    notice,     \* notifications created for an event
    today,      \* the calendar
    req         \* what each request in flight is about to do, with its copies

vars == <<event, sub, vendor, notice, today, req>>

-----------------------------------------------------------------------------
(* Rows.                                                                   *)

Days == 0..MaxDay

Status == {"draft", "open", "pending", "closed", "completed", "cancelled"}

\* A soft-deleted row is still in the table, and gorm's reads skip it.
RowState == {"absent", "live", "deleted"}

EventRow == [state : RowState, status : Status,
             winner : Vendors \cup {None}, endDate : Days \cup {None}]

\* A row as read into memory.  "loaded" is the preloaded WinnerVendor.
EventCopy == [status : Status, winner : Vendors \cup {None},
              endDate : Days \cup {None}, loaded : Vendors \cup {None}]

\* No guard and no property reads the text columns and is_shortlisted.
SubRow == [event : Events, vendor : Vendors, isWinner : BOOLEAN,
           scored : BOOLEAN, file : BOOLEAN]

ASSUME NoneAssumption ==
    /\ None \notin Vendors /\ None \notin Events
    /\ None \notin Subs /\ None \notin Days
    /\ None \notin SubRow

VendorRow == [status : Standings \cup {"pending"}, deleted : BOOLEAN]

Notice == [kind : {"open", "winner", "loser"},
           event : Events, vendor : Vendors \cup {None}]

Absent == [state |-> "absent", status |-> "draft", winner |-> None, endDate |-> None]

\* Mutant: reads that see soft-deleted rows.
LiveUnscoped(e) == event[e].state # "absent"

Live(e) == event[e].state = "live"
Exists(s) == sub[s] # None
VendorLive(v) == ~vendor[v].deleted
SubsOf(e) == {s \in Subs : Exists(s) /\ sub[s].event = e}

-----------------------------------------------------------------------------
(* Requests in flight.                                                     *)

Pc == {"idle",
       "update", "notifyOpen", "delete", "close", "complete",
       "pitchEvent", "pitchExisting", "pitchCreate", "pitchFile",
       "saveSub",
       "winVendor", "winRows", "winReset", "winPitch", "winSaveSub", "winSaveEvent",
       "tellWinner", "losers", "tellLoser"}

Request == [pc : Pc,
            e : Events \cup {None},             \* the event of the URL
            s : Subs \cup {None},               \* the submission of the request
            v : Vendors \cup {None},            \* the caller's vendor, or the vendor to notify
            opens : BOOLEAN,                    \* UpdateEvent: prevStatus # open, new one is
            ev : EventCopy \cup {None},         \* copy of the event row
            sb : SubRow \cup {None},            \* copy of a submission row
            rows : [Subs -> SubRow \cup {None}]]\* copies still to be visited by a loop

NoRows == [x \in Subs |-> None]

Idle == [pc |-> "idle", e |-> None, s |-> None, v |-> None, opens |-> FALSE,
         ev |-> None, sb |-> None, rows |-> NoRows]

Todo(r) == {x \in Subs : req[r].rows[x] # None}

\* The copy EventRepo.GetEventByID returns: the winner is preloaded if its
\* vendor row is live.
ReadEvent(e) ==
    [status |-> event[e].status, winner |-> event[e].winner, endDate |-> event[e].endDate,
     loaded |-> IF event[e].winner # None /\ VendorLive(event[e].winner)
                THEN event[e].winner ELSE None]

\* What gorm's Save leaves in the table.  Every column comes from the copy;
\* a preloaded belongs-to association sets the foreign key again; and when
\* the UPDATE finds no live row, Save inserts with ON CONFLICT (id) DO UPDATE,
\* so that a soft-deleted row is live again.
Saved(c) == [state |-> "live", status |-> c.status,
             winner |-> IF c.loaded # None THEN c.loaded ELSE c.winner,
             endDate |-> c.endDate]

Begin(r, rec) ==
    /\ req[r].pc = "idle"
    /\ req' = [req EXCEPT ![r] = rec]

Goto(r, rec) == req' = [req EXCEPT ![r] = rec]

End(r) == req' = [req EXCEPT ![r] = Idle]

-----------------------------------------------------------------------------
Init ==
    /\ event = [e \in Events |-> Absent]
    /\ sub = [s \in Subs |-> None]
    /\ vendor = [v \in Vendors |-> [status |-> "pending", deleted |-> FALSE]]
    /\ notice = {}
    /\ today = 0
    /\ req = [r \in Requests |-> Idle]

-----------------------------------------------------------------------------
(* Life of an event.                                                       *)

CreateEvent(r, e, d) ==
    /\ req[r].pc = "idle"
    /\ event[e].state = "absent"
    /\ event' = [event EXCEPT ![e] = [state |-> "live", status |-> "draft",
                                      winner |-> None, endDate |-> d]]
    /\ UNCHANGED <<sub, vendor, notice, today, req>>

\* Mutant: a status the enumeration does not have.
NewStatusUnchecked(e) == EditStatus \cup {event[e].status, "archived"}

\* The body's status is one of a list; left out, the status stays.
NewStatus(e) == EditStatus \cup {event[e].status}

\* The row is read and edited in memory; a field the body leaves out keeps
\* the value that was read.
BeginUpdate(r, e) ==
    /\ Live(e)
    /\ \E st \in NewStatus(e), d \in Days \cup {event[e].endDate} :
        Begin(r, [Idle EXCEPT !.pc = "update", !.e = e,
                    !.opens = (Notifier /\ event[e].status # "open" /\ st = "open"),
                    !.ev = [ReadEvent(e) EXCEPT !.status = st, !.endDate = d]])
    /\ UNCHANGED <<event, sub, vendor, notice, today>>

SaveUpdate(r) ==
    /\ req[r].pc = "update"
    /\ event' = [event EXCEPT ![req[r].e] = Saved(req[r].ev)]
    /\ IF req[r].opens
       THEN Goto(r, [Idle EXCEPT !.pc = "notifyOpen", !.e = req[r].e])
       ELSE End(r)
    /\ UNCHANGED <<sub, vendor, notice, today>>

NotifyOpen(r) ==
    /\ req[r].pc = "notifyOpen"
    /\ notice' = notice \cup {[kind |-> "open", event |-> req[r].e, vendor |-> None]}
    /\ End(r)
    /\ UNCHANGED <<event, sub, vendor, today>>

BeginDelete(r, e) ==
    /\ Live(e)
    /\ Begin(r, [Idle EXCEPT !.pc = "delete", !.e = e])
    /\ UNCHANGED <<event, sub, vendor, notice, today>>

DeleteEvent(r) ==
    /\ req[r].pc = "delete"
    /\ event' = [event EXCEPT ![req[r].e].state = "deleted"]
    /\ End(r)
    /\ UNCHANGED <<sub, vendor, notice, today>>

-----------------------------------------------------------------------------
(* Reads that write: GetEventByID and GetAllEvents refresh the status.     *)

\* EndDate.Before(now): an end date is the midnight that begins its day.
NeedsClose(c) == c.endDate # None /\ c.endDate <= today /\ c.status \in {"open", "pending"}

NeedsComplete(c) == c.winner # None /\ c.status \notin {"completed", "cancelled"}

\* A nil end date is dereferenced: the handler panics before it writes.
Refresh(r, e, c) ==
    /\ Live(e)
    /\ c.endDate # None
    /\ \/ /\ NeedsClose(c)
          /\ Begin(r, [Idle EXCEPT !.pc = "close", !.e = e,
                                   !.ev = [c EXCEPT !.status = "closed"]])
       \/ /\ ~NeedsClose(c) /\ NeedsComplete(c)
          /\ Begin(r, [Idle EXCEPT !.pc = "complete", !.e = e,
                                   !.ev = [c EXCEPT !.status = "completed"]])
    /\ UNCHANGED <<event, sub, vendor, notice, today>>

ViewEvent(r, e) == Refresh(r, e, ReadEvent(e))

\* Mutant: a list that selects the columns it shows.
ListEventsPartly(r, e) ==
    Refresh(r, e, [ReadEvent(e) EXCEPT !.loaded = None, !.winner = None])

\* The list reads its page without preloading; a page of several rows is
\* taken as several such requests.
ListEvents(r, e) == Refresh(r, e, [ReadEvent(e) EXCEPT !.loaded = None])

\* Both Saves ignore an error.
SaveClosed(r) ==
    /\ req[r].pc = "close"
    /\ \/ event' = [event EXCEPT ![req[r].e] = Saved(req[r].ev)]
       \/ Faults /\ UNCHANGED event
    /\ IF NeedsComplete(req[r].ev)
       THEN Goto(r, [req[r] EXCEPT !.pc = "complete", !.ev.status = "completed"])
       ELSE End(r)
    /\ UNCHANGED <<sub, vendor, notice, today>>

SaveCompleted(r) ==
    /\ req[r].pc = "complete"
    /\ event' = [event EXCEPT ![req[r].e] = Saved(req[r].ev)]
    /\ End(r)
    /\ UNCHANGED <<sub, vendor, notice, today>>

-----------------------------------------------------------------------------
(* Pitching.                                                               *)

\* The handler: the caller's vendor must be active.
BeginPitch(r, e, v) ==
    /\ VendorLive(v) /\ vendor[v].status = "active"
    /\ Begin(r, [Idle EXCEPT !.pc = "pitchEvent", !.e = e, !.v = v])
    /\ UNCHANGED <<event, sub, vendor, notice, today>>

PitchReadEvent(r) ==
    /\ req[r].pc = "pitchEvent"
    /\ IF Live(req[r].e) /\ event[req[r].e].status = "open"
       THEN Goto(r, [req[r] EXCEPT !.pc = "pitchExisting"])
       ELSE End(r)
    /\ UNCHANGED <<event, sub, vendor, notice, today>>

Pitched(e, v) == \E s \in SubsOf(e) : sub[s].vendor = v

\* Only a row that is found stops the request: a failed lookup does not.
PitchCheckExisting(r) ==
    /\ req[r].pc = "pitchExisting"
    /\ \/ /\ Pitched(req[r].e, req[r].v)
          /\ End(r)
       \/ /\ ~Pitched(req[r].e, req[r].v) \/ Faults
          /\ Goto(r, [req[r] EXCEPT !.pc = "pitchCreate"])
    /\ UNCHANGED <<event, sub, vendor, notice, today>>

\* Mutant: a migration without the constraint.
NoConstraint(e, v) == TRUE

\* CONSTRAINT unique_event_vendor UNIQUE (event_id, vendor_id).
UniqueEventVendor(e, v) == ~Pitched(e, v)

CreateSubmission(r) ==
    /\ req[r].pc = "pitchCreate"
    /\ \/ /\ UniqueEventVendor(req[r].e, req[r].v)
          /\ \E s \in Subs :
                /\ ~Exists(s)
                /\ sub' = [sub EXCEPT ![s] =
                            [event |-> req[r].e, vendor |-> req[r].v, isWinner |-> FALSE,
                             scored |-> FALSE, file |-> FALSE]]
                /\ Goto(r, [req[r] EXCEPT !.pc = "pitchFile", !.s = s])
       \/ /\ ~UniqueEventVendor(req[r].e, req[r].v)
          /\ End(r)
          /\ UNCHANGED sub
    /\ UNCHANGED <<event, vendor, notice, today>>

\* The file comes after the row: it is refused when too large, the upload or
\* the insert may fail, and the submission stays.
PitchFile(r) ==
    /\ req[r].pc = "pitchFile"
    /\ \E ok \in BOOLEAN : sub' = [sub EXCEPT ![req[r].s].file = ok]
    /\ End(r)
    /\ UNCHANGED <<event, vendor, notice, today>>

-----------------------------------------------------------------------------
(* Judging.                                                                *)

ScoreSubmission(r, s) ==
    /\ Exists(s)
    /\ Begin(r, [Idle EXCEPT !.pc = "saveSub", !.s = s,
                             !.sb = [sub[s] EXCEPT !.scored = TRUE]])
    /\ UNCHANGED <<event, sub, vendor, notice, today>>

\* Mutant: shortlisting starts the judging over.
ShortlistAfresh(r, s) ==
    /\ Exists(s)
    /\ Begin(r, [Idle EXCEPT !.pc = "saveSub", !.s = s,
                             !.sb = [sub[s] EXCEPT !.scored = FALSE, !.isWinner = FALSE]])
    /\ UNCHANGED <<event, sub, vendor, notice, today>>

\* The flag it sets is left out; the stale copy it saves is not.
ShortlistSubmission(r, s) ==
    /\ Exists(s)
    /\ Begin(r, [Idle EXCEPT !.pc = "saveSub", !.s = s, !.sb = sub[s]])
    /\ UNCHANGED <<event, sub, vendor, notice, today>>

\* The files of a submission are rows of another table: Save leaves them.
SavedSub(s, c) == [c EXCEPT !.file = sub[s].file]

SaveSubmission(r) ==
    /\ req[r].pc = "saveSub"
    /\ sub' = [sub EXCEPT ![req[r].s] = SavedSub(req[r].s, req[r].sb)]
    /\ End(r)
    /\ UNCHANGED <<event, vendor, notice, today>>

-----------------------------------------------------------------------------
(* Choosing the winner: up to eight database calls, one after the other.   *)

\* Mutant: no look at the current winner, and no preload.
SelectWinnerAgain(r, e, s) ==
    /\ Live(e)
    /\ Begin(r, [Idle EXCEPT !.pc = "winPitch", !.e = e, !.s = s,
                             !.ev = [ReadEvent(e) EXCEPT !.loaded = None]])
    /\ UNCHANGED <<event, sub, vendor, notice, today>>

SelectWinner(r, e, s) ==
    /\ Live(e)
    /\ LET c == ReadEvent(e) IN
        Begin(r, [Idle EXCEPT !.pc = IF c.winner = None THEN "winPitch" ELSE "winVendor",
                              !.e = e, !.s = s, !.ev = c])
    /\ UNCHANGED <<event, sub, vendor, notice, today>>

\* Only the winner's suspension lets the request past "winner has already
\* been selected"; a winner whose vendor row is gone stops it too.
CheckWinnerVendor(r) ==
    /\ req[r].pc = "winVendor"
    /\ LET w == req[r].ev.winner IN
        IF VendorLive(w) /\ vendor[w].status = "suspended"
        THEN Goto(r, [req[r] EXCEPT !.pc = "winRows"])
        ELSE End(r)
    /\ UNCHANGED <<event, sub, vendor, notice, today>>

\* Mutant: the current winner's submission is passed over.
FlaggedOthers(e) == {x \in SubsOf(e) : sub[x].isWinner /\ sub[x].vendor # event[e].winner}

Flagged(e) == {x \in SubsOf(e) : sub[x].isWinner}

ReadFlagged(r) ==
    /\ req[r].pc = "winRows"
    /\ LET flagged == Flagged(req[r].e) IN
        Goto(r, [req[r] EXCEPT !.pc = IF flagged = {} THEN "winPitch" ELSE "winReset",
                               !.rows = [x \in Subs |-> IF x \in flagged THEN sub[x] ELSE None]])
    /\ UNCHANGED <<event, sub, vendor, notice, today>>

\* Mutant: a row that is done stays in the loop.
ResetFlagForever(r, x) ==
    /\ req[r].pc = "winReset"
    /\ x \in Todo(r)
    /\ sub' = [sub EXCEPT ![x] = SavedSub(x, [req[r].rows[x] EXCEPT !.isWinner = FALSE])]
    /\ UNCHANGED <<event, vendor, notice, today, req>>

\* The loop ignores the error of each Save.
ResetFlag(r, x) ==
    /\ req[r].pc = "winReset"
    /\ x \in Todo(r)
    /\ \/ sub' = [sub EXCEPT ![x] = SavedSub(x, [req[r].rows[x] EXCEPT !.isWinner = FALSE])]
       \/ Faults /\ UNCHANGED sub
    /\ Goto(r, [req[r] EXCEPT !.pc = IF Todo(r) = {x} THEN "winPitch" ELSE "winReset",
                              !.rows[x] = None])
    /\ UNCHANGED <<event, vendor, notice, today>>

\* Mutant: the submission is taken as the body gives it.
BelongsAnyway(s, e) == TRUE

\* "submission does not belong to this event"
Belongs(s, e) == sub[s].event = e

ReadWinningPitch(r) ==
    /\ req[r].pc = "winPitch"
    /\ IF Exists(req[r].s) /\ Belongs(req[r].s, req[r].e)
       THEN Goto(r, [req[r] EXCEPT !.pc = "winSaveSub",
                                    !.sb = [sub[req[r].s] EXCEPT !.isWinner = TRUE]])
       ELSE End(r)
    /\ UNCHANGED <<event, sub, vendor, notice, today>>

SaveWinningPitch(r) ==
    /\ req[r].pc = "winSaveSub"
    /\ sub' = [sub EXCEPT ![req[r].s] = SavedSub(req[r].s, req[r].sb)]
    /\ Goto(r, [req[r] EXCEPT !.pc = "winSaveEvent",
                              !.ev.winner = req[r].sb.vendor, !.ev.status = "completed",
                              !.sb = None])
    /\ UNCHANGED <<event, vendor, notice, today>>

\* Mutant: the notices go by what the request meant to write.
SaveWinnerTellChosen(r) ==
    /\ req[r].pc = "winSaveEvent"
    /\ event' = [event EXCEPT ![req[r].e] = Saved(req[r].ev)]
    /\ Goto(r, [Idle EXCEPT !.pc = "tellWinner", !.e = req[r].e, !.v = req[r].ev.winner])
    /\ UNCHANGED <<sub, vendor, notice, today>>

\* WinnerVendorID points into the submission copy, so what Save writes
\* through it is the vendor the notifications go by.
SaveWinner(r) ==
    /\ req[r].pc = "winSaveEvent"
    /\ event' = [event EXCEPT ![req[r].e] = Saved(req[r].ev)]
    /\ IF Notifier
       THEN Goto(r, [Idle EXCEPT !.pc = "tellWinner", !.e = req[r].e,
                                 !.v = Saved(req[r].ev).winner])
       ELSE End(r)
    /\ UNCHANGED <<sub, vendor, notice, today>>

TellWinner(r) ==
    /\ req[r].pc = "tellWinner"
    /\ \/ /\ VendorLive(req[r].v)
          /\ notice' = notice \cup {[kind |-> "winner", event |-> req[r].e, vendor |-> req[r].v]}
       \/ /\ ~VendorLive(req[r].v) \/ Faults
          /\ UNCHANGED notice
    /\ Goto(r, [req[r] EXCEPT !.pc = "losers"])
    /\ UNCHANGED <<event, sub, vendor, today>>

\* Mutant: the loop does not skip the winner.
LosersAll(e, v) == SubsOf(e)

Losers(e, v) == {x \in SubsOf(e) : sub[x].vendor # v}

ReadLosers(r) ==
    /\ req[r].pc = "losers"
    /\ LET losers == Losers(req[r].e, req[r].v) IN
        IF losers = {}
        THEN End(r)
        ELSE Goto(r, [req[r] EXCEPT !.pc = "tellLoser",
                         !.rows = [x \in Subs |-> IF x \in losers THEN sub[x] ELSE None]])
    /\ UNCHANGED <<event, sub, vendor, notice, today>>

TellLoser(r, x) ==
    /\ req[r].pc = "tellLoser"
    /\ x \in Todo(r)
    /\ LET v == req[r].rows[x].vendor IN
        \/ /\ VendorLive(v)
           /\ notice' = notice \cup {[kind |-> "loser", event |-> req[r].e, vendor |-> v]}
        \/ /\ ~VendorLive(v) \/ Faults
           /\ UNCHANGED notice
    /\ IF Todo(r) = {x} THEN End(r) ELSE Goto(r, [req[r] EXCEPT !.rows[x] = None])
    /\ UNCHANGED <<event, sub, vendor, today>>

-----------------------------------------------------------------------------
(* Surroundings.                                                           *)

\* The vendor service's read and Save are one step here; it occupies a slot,
\* so that one slot means one request at a time.
UpdateVendorStatus(r, v, st) ==
    /\ req[r].pc = "idle"
    /\ VendorLive(v)
    /\ vendor' = [vendor EXCEPT ![v].status = st]
    /\ UNCHANGED <<event, sub, notice, today, req>>

DeleteVendor(r, v) ==
    /\ req[r].pc = "idle"
    /\ VendorLive(v)
    /\ vendor' = [vendor EXCEPT ![v].deleted = TRUE]
    /\ UNCHANGED <<event, sub, notice, today, req>>

NextDay ==
    /\ today < MaxDay
    /\ today' = today + 1
    /\ UNCHANGED <<event, sub, vendor, notice, req>>

\* A database call returns an error and the handler answers 500, or the
\* process dies: what was written stays written.
Abort(r) ==
    /\ Faults
    /\ req[r].pc # "idle"
    /\ End(r)
    /\ UNCHANGED <<event, sub, vendor, notice, today>>

-----------------------------------------------------------------------------
Arrive(r) ==
    \/ \E e \in Events :
        \/ "create" \in Calls /\ \E d \in Days \cup {None} : CreateEvent(r, e, d)
        \/ "update" \in Calls /\ BeginUpdate(r, e)
        \/ "delete" \in Calls /\ BeginDelete(r, e)
        \/ "view" \in Calls /\ ViewEvent(r, e)
        \/ "list" \in Calls /\ ListEvents(r, e)
        \/ "pitch" \in Calls /\ \E v \in Vendors : BeginPitch(r, e, v)
        \/ "select" \in Calls /\ \E s \in Subs : SelectWinner(r, e, s)
    \/ \E s \in Subs :
        \/ "score" \in Calls /\ ScoreSubmission(r, s)
        \/ "shortlist" \in Calls /\ ShortlistSubmission(r, s)
    \/ \E v \in Vendors :
        \/ "standing" \in Calls /\ \E st \in Standings : UpdateVendorStatus(r, v, st)
        \/ "deleteVendor" \in Calls /\ DeleteVendor(r, v)

Continue(r) ==
    \/ SaveUpdate(r) \/ NotifyOpen(r) \/ DeleteEvent(r)
    \/ SaveClosed(r) \/ SaveCompleted(r)
    \/ PitchReadEvent(r) \/ PitchCheckExisting(r) \/ CreateSubmission(r) \/ PitchFile(r)
    \/ SaveSubmission(r)
    \/ CheckWinnerVendor(r) \/ ReadFlagged(r)
    \/ \E x \in Subs : ResetFlag(r, x)
    \/ ReadWinningPitch(r) \/ SaveWinningPitch(r) \/ SaveWinner(r)
    \/ TellWinner(r) \/ ReadLosers(r)
    \/ \E x \in Subs : TellLoser(r, x)

Next ==
    \/ \E r \in Requests : Arrive(r) \/ Continue(r) \/ Abort(r)
    \/ NextDay

Spec == Init /\ [][Next]_vars

\* The runtime goes on running a handler it has started.
FairSpec == Spec /\ \A r \in Requests : WF_vars(Continue(r))

-----------------------------------------------------------------------------
(* Properties.                                                             *)

TypeOK ==
    /\ event \in [Events -> EventRow]
    /\ sub \in [Subs -> SubRow \cup {None}]
    /\ vendor \in [Vendors -> VendorRow]
    /\ notice \subseteq Notice
    /\ today \in Days
    /\ req \in [Requests -> Request]

\* An event's winner has pitched for that event, whatever stale copies are
\* saved over the row (SelectWinner takes the winner from a submission it
\* has checked to belong to the event).
WinnerPitched ==
    \A e \in Events : event[e].winner # None => Pitched(e, event[e].winner)

\* A vendor has at most one submission per event, although SubmitPitch looks
\* for an existing one in a separate call before it inserts.
OnePitchPerVendor ==
    \A s, t \in Subs :
        Exists(s) /\ Exists(t) /\ sub[s].event = sub[t].event /\ sub[s].vendor = sub[t].vendor
        => s = t

\* GetEventResultForAdmin shows the first submission with IsWinner: there is
\* at most one, re-selections of a winner included.
OneWinnerFlag ==
    \A e \in Events, s, t \in Subs :
        {s, t} \subseteq SubsOf(e) /\ sub[s].isWinner /\ sub[t].isWinner => s = t

\* Between requests the event's winner is the one whose submission is
\* flagged, which is what GetEventResult tells the vendor.
Quiet == \A r \in Requests : req[r].pc = "idle"

WinnerFlagged ==
    Quiet => \A e \in Events : \A s \in SubsOf(e) :
                sub[s].isWinner <=> sub[s].vendor = event[e].winner

\* Whoever was told that it won is the winner on record.
ToldWinnerIsWinner ==
    \A n \in notice : n.kind = "winner" => event[n.event].winner = n.vendor

\* No vendor is told both that it won and that it lost an event.
OneVerdict ==
    \A n, m \in notice :
        n.kind = "winner" /\ m.kind = "loser" /\ n.event = m.event => n.vendor # m.vendor

\* DeleteEvent is final: no other request brings the event back.
DeletedStaysDeleted ==
    [][\A e \in Events : event[e].state = "deleted" => event'[e].state = "deleted"]_vars

\* A score, once given, is not lost to another request's Save.
ScoreKept ==
    [][\A s \in Subs : Exists(s) /\ sub[s].scored => sub'[s].scored]_vars

\* The status refresh of GetEventByID and GetAllEvents touches nothing but
\* the status.
RefreshKeepsTheRest ==
    [][\A r \in Requests : SaveClosed(r) \/ SaveCompleted(r) =>
          \A e \in Events : [event'[e] EXCEPT !.status = event[e].status] = event[e]]_vars

\* Every request ends: the loops over submissions consume their copies.
RequestsEnd == \A r \in Requests : req[r].pc # "idle" ~> req[r].pc = "idle"

\* What the event promises: a winner is chosen among the pitches and kept,
\* unless it is suspended.
Promise == INSTANCE Award WITH
    pitches <- {<<sub[s].event, sub[s].vendor>> : s \in {x \in Subs : Exists(x)}},
    chosen <- [e \in Events |-> event[e].winner],
    suspended <- {v \in Vendors : vendor[v].status = "suspended"}

AwardKept == Promise!Spec

=============================================================================
