------------------------- MODULE VendorReviewProofs -------------------------
(***************************************************************************)
(* Theorems about VendorReview, for any documents, any number of calls     *)
(* overlapping and any number of them failing.                             *)
(***************************************************************************)
EXTENDS VendorReview, TLAPS

Status == <<"review", "status">>
Remove == <<"review", "remove">>
UploadSlot == <<"docs", "upload">>
EraseSlot == <<"docs", "erase">>
Save == <<"form", "save">>

DetailRow == [vendor : VendorRow, profile : Nat,
              shown : [Files -> {"none", "pending"} \cup Verdicts]]

Stages == {"idle", "sent", "read", "typed", "checked", "saved", "gone", "done",
           "refused", "asked", "fetched"}
CallRow == [st : Stages,
            arg : Statuses \cup Verdicts \cup {"none", "kept", "retyped"},
            file : Files \cup {"none"}, copy : VendorRow, prof : Nat,
            got : DetailRow, moved : SUBSET Files, over : BOOLEAN, late : BOOLEAN]

\* Everything but the calls.
Typed ==
    /\ vendor \in VendorRow
    /\ profile \in Nat /\ made \in Nat
    /\ files \in [Files -> FileRow]
    /\ pages \in [Pages -> DetailRow]
    /\ open \in BOOLEAN
    /\ dialog \in {"none", "active", "revision", "remove"} \cup Files
    /\ stale \in [Pages -> BOOLEAN]
    /\ past \subseteq {"blind", "revived", "broken", "orphan"}
    /\ used \in [calls : Nat, faults : Nat]

TypeOK == Typed /\ calls \in [Slots -> CallRow]

\* What a call asks for.
ArgOK(s, c) ==
    /\ s = Status => c.arg \in Statuses
    /\ s \in Verdict => c.arg \in Verdicts
    /\ s \in Verdict \cup {UploadSlot, EraseSlot} => c.file \in Files

\* A row, or a copy of it, whose code and reason fit its status.
Sound(row) == /\ row.reason <=> row.status = "revision"
              /\ row.status = "active" => row.code

Overlapped == past \cap {"broken", "revived"} # {}

\* What a call knows at each of its steps.
CallOK(s, c) ==
    /\ c.st # "idle" => ArgOK(s, c)
    /\ Sound(c.copy)
    /\ s = Save /\ c.st \in {"read", "typed", "checked", "saved"} =>
           c.copy.live /\ (c.over \/ c.copy = vendor)
    /\ s = Save /\ c.st = "checked" => c.prof \in {0, made}
    /\ s = Save /\ c.st = "saved" => c.copy.status = "revision"
    /\ s = UploadSlot /\ c.st = "read" => c.prof <= made
    /\ s = Status /\ c.st = "checked" =>
           \A f \in Files : files[f].live /\ files[f].of = made =>
               files[f].st = "approved" \/ f \in c.moved
    /\ s = Remove /\ c.st = "gone" => profile = 0 \/ Overlapped

\* What the rows satisfy at any time.
RowsOK ==
    /\ Sound(vendor)
    /\ profile \in {0, made}
    /\ \A f \in Files : files[f].of <= made
    /\ WholeVendor

IInv ==
    /\ TypeOK
    /\ RowsOK
    /\ \A s \in Slots : CallOK(s, calls[s])

-----------------------------------------------------------------------------
LEMMA SlotsAre ==
    /\ {Status, Remove, UploadSlot, EraseSlot, Save} \subseteq Slots
    /\ Verdict = {<<"review", "verdict">>, <<"docs", "verdict">>}
    /\ Slots = {Status, Remove, UploadSlot, EraseSlot, Save} \cup Verdict
    /\ \A s \in Slots : s[1] \in Pages \cup {"form"}
    /\ \A s \in Slots : /\ s[2] = "upload" <=> s = UploadSlot
                        /\ s[2] = "erase" <=> s = EraseSlot
                        /\ s[2] = "remove" <=> s = Remove
                        /\ s[2] = "status" <=> s = Status
                        /\ s[2] = "save" <=> s = Save
                        /\ s[2] = "verdict" <=> s \in Verdict
BY DEF Slots, Verdict, Status, Remove, UploadSlot, EraseSlot, Save, Pages

LEMMA SlotsDiffer ==
    /\ Status # Remove /\ Status # UploadSlot /\ Status # EraseSlot /\ Status # Save
    /\ Remove # UploadSlot /\ Remove # EraseSlot /\ Remove # Save
    /\ UploadSlot # EraseSlot /\ UploadSlot # Save /\ EraseSlot # Save
    /\ {Status, Remove, UploadSlot, EraseSlot, Save} \cap Verdict = {}
BY DEF Slots, Verdict, Status, Remove, UploadSlot, EraseSlot, Save

\* What a step tells the other calls.
Told(c, docs, row) ==
    [c EXCEPT !.moved = @ \cup docs, !.over = @ \/ row, !.late = TRUE]

\* What the other calls may rely on when docs, and the vendor if row, are
\* written.
Steady(docs, row) ==
    /\ row \/ vendor' = vendor
    /\ \A f \in Files \ docs : /\ files'[f].st = files[f].st
                                /\ files'[f].live = files[f].live
                                /\ files'[f].of = files[f].of
    /\ made' \in {made, made + 1}

\* What a deletion half-way through relies on.
StaysGone == profile = 0 \/ Overlapped => profile' = 0 \/ Overlapped'

LEMMA CallStays ==
    ASSUME TypeOK, RowsOK, NEW s \in Slots, NEW c \in CallRow, CallOK(s, c),
           Steady({}, FALSE), s = Save => made' = made,
           s = Remove /\ c.st = "gone" => StaysGone
    PROVE  CallOK(s, c)'
BY DEF StaysGone, CallOK, ArgOK, Sound, Steady, TypeOK, Typed, RowsOK, CallRow, VendorRow, FileRow

LEMMA CallIsTold ==
    ASSUME TypeOK, RowsOK, NEW s \in Slots, NEW c \in CallRow, CallOK(s, c),
           NEW docs \in SUBSET Files, NEW row \in BOOLEAN, Steady(docs, row),
           s = Save => made' = made,
           s = Remove /\ c.st = "gone" => StaysGone
    PROVE  Told(c, docs, row) \in CallRow /\ CallOK(s, Told(c, docs, row))'
<1> DEFINE d == Told(c, docs, row)
<1>1. /\ d \in CallRow
      /\ d.st = c.st /\ d.arg = c.arg /\ d.file = c.file /\ d.copy = c.copy
      /\ d.prof = c.prof /\ d.moved = c.moved \cup docs
      /\ d.over = (c.over \/ row)
  BY DEF Told, CallRow
<1>2. d.st # "idle" => ArgOK(s, d)
  BY <1>1 DEF CallOK, ArgOK
<1>3. Sound(d.copy)
  BY <1>1 DEF CallOK
<1>4. s = Save /\ d.st \in {"read", "typed", "checked", "saved"} =>
          d.copy.live /\ (d.over \/ d.copy = vendor')
  BY <1>1 DEF CallOK, Steady, CallRow
<1>5. s = Save /\ d.st = "checked" => d.prof \in {0, made'}
  BY <1>1 DEF CallOK
<1>6. s = Save /\ d.st = "saved" => d.copy.status = "revision"
  BY <1>1 DEF CallOK
<1>7. s = UploadSlot /\ d.st = "read" => d.prof <= made'
  BY <1>1 DEF CallOK, Steady, TypeOK, Typed, CallRow
<1>8. s = Status /\ d.st = "checked" =>
          \A f \in Files : files'[f].live /\ files'[f].of = made' =>
              files'[f].st = "approved" \/ f \in d.moved
  BY <1>1 DEF CallOK, Steady, TypeOK, Typed, RowsOK, FileRow, CallRow
<1>9. s = Remove /\ d.st = "gone" => profile' = 0 \/ Overlapped'
  BY <1>1 DEF CallOK, StaysGone
<1> HIDE DEF d
<1>10. CallOK(s, d)'
  BY <1>2, <1>3, <1>4, <1>5, <1>6, <1>7, <1>8, <1>9 DEF CallOK, ArgOK, Sound
<1> QED
  BY <1>1, <1>10 DEF d

-----------------------------------------------------------------------------
\* One call goes on, and the others are not concerned.
LEMMA GoesOn ==
    ASSUME IInv, Typed', RowsOK', Steady({}, FALSE), made' = made,
           calls[Remove].st = "gone" => StaysGone, NEW s \in Slots, NEW c \in CallRow, CallOK(s, c)',
           calls' = [calls EXCEPT ![s] = c]
    PROVE  IInv'
<1>1. TypeOK'
  BY DEF IInv, TypeOK
<1>2. ASSUME NEW t \in Slots PROVE CallOK(t, calls[t])'
  <2>1. CASE t = s
    BY <2>1 DEF IInv, TypeOK
  <2>2. CASE t # s
    <3>1. calls'[t] = calls[t] /\ calls[t] \in CallRow /\ CallOK(t, calls[t])
      BY <2>2 DEF IInv, TypeOK
    <3>2. \A d \in CallRow : CallOK(t, d) /\ (t = Remove /\ d.st = "gone" => StaysGone)
                               => CallOK(t, d)'
      BY CallStays DEF IInv
    <3> QED
      BY <3>1, <3>2
  <2> QED
    BY <2>1, <2>2
<1> QED
  BY <1>1, <1>2 DEF IInv

\* One call writes, and the others are told.
LEMMA Writes ==
    ASSUME IInv, Typed', RowsOK', NEW s \in Slots, NEW c \in CallRow, CallOK(s, c)',
           NEW docs \in SUBSET Files, NEW row \in BOOLEAN, Steady(docs, row),
           s = Save \/ made' = made, calls[Remove].st = "gone" => StaysGone,
           Wrote(s, c, docs, row)
    PROVE  IInv'
<1>1. ASSUME NEW t \in Slots
      PROVE  calls'[t] \in CallRow /\ CallOK(t, calls[t])'
  <2>0. calls[t] \in CallRow /\ CallOK(t, calls[t])
    BY DEF IInv, TypeOK
  <2>1. CASE t = s
    BY <2>1 DEF Wrote
  <2>2. CASE t # s /\ Idle(t)
    <3>1. calls'[t] = calls[t] /\ calls[t].st = "idle"
      BY <2>2 DEF Wrote, Idle
    <3> QED
      BY <2>0, <3>1 DEF CallOK, Sound
  <2>3. CASE t # s /\ ~Idle(t)
    <3>1. calls'[t] = Told(calls[t], docs, row)
      BY <2>3 DEF Wrote, Told
    <3>2. \A d \in CallRow : CallOK(t, d) /\ (t = Remove /\ d.st = "gone" => StaysGone) =>
              Told(d, docs, row) \in CallRow /\ CallOK(t, Told(d, docs, row))'
      BY <2>3, CallIsTold DEF IInv
    <3> QED
      BY <2>0, <3>1, <3>2
  <2> QED
    BY <2>1, <2>2, <2>3
<1>2. calls' \in [Slots -> CallRow]
  BY <1>1 DEF Wrote
<1> QED
  BY <1>1, <1>2 DEF IInv, TypeOK

\* Nothing is written.
LEMMA Quiets ==
    ASSUME IInv, Typed', UNCHANGED <<vendor, profile, made>>, past \subseteq past',
           \A f \in Files : /\ files'[f].st = files[f].st
                            /\ files'[f].live = files[f].live
                            /\ files'[f].of = files[f].of,
           NEW s \in Slots, NEW c \in CallRow, CallOK(s, c),
           s = Remove /\ calls[s].st = "gone" => c.st = "gone" \/ Overlapped',
           calls' = [calls EXCEPT ![s] = c]
    PROVE  IInv'
<1>1. Overlapped => Overlapped'
  BY DEF Overlapped
<1>2. Steady({}, FALSE) /\ StaysGone
  BY <1>1 DEF Steady, StaysGone
<1>3. RowsOK'
  <2>1. WholeVendor'
    <3>1. CASE vendor.live <=> profile # 0
      BY <3>1 DEF WholeVendor
    <3>2. CASE calls[Remove].st = "gone"
      <4>1. CASE s = Remove
        BY <3>2, <4>1 DEF WholeVendor, IInv, TypeOK, Remove, Overlapped
      <4>2. CASE s # Remove
        BY <3>2, <4>2, SlotsAre DEF WholeVendor, IInv, TypeOK, Remove
      <4> QED
        BY <4>1, <4>2
    <3>3. CASE Overlapped
      BY <3>3, <1>1 DEF WholeVendor, Overlapped
    <3> QED
      BY <3>1, <3>2, <3>3 DEF IInv, RowsOK, WholeVendor, Overlapped, Remove
  <2> QED
    BY <2>1 DEF IInv, RowsOK, Sound
<1>4. CallOK(s, c)'
  BY <1>2, CallStays DEF IInv
<1> QED
  BY <1>2, <1>3, <1>4, GoesOn

\* Only what is on screen changes.
LEMMA Still ==
    ASSUME IInv, Typed', UNCHANGED <<rows, calls, past>>
    PROVE  IInv'
<1>1. Steady({}, FALSE) /\ StaysGone
  BY DEF Steady, StaysGone, rows, Overlapped
<1>2. \A s \in Slots : CallOK(s, calls[s])'
  <2> TAKE s \in Slots
  <2>1. calls[s] \in CallRow /\ CallOK(s, calls[s])
    BY DEF IInv, TypeOK
  <2>2. \A d \in CallRow : CallOK(s, d) => CallOK(s, d)'
    BY <1>1, CallStays DEF IInv, rows
  <2> QED
    BY <2>1, <2>2
<1>3. RowsOK'
  BY DEF IInv, RowsOK, Sound, WholeVendor, rows
<1> QED
  BY <1>2, <1>3 DEF IInv, TypeOK

-----------------------------------------------------------------------------
(* What the users do.                                                      *)

Dialogs == {"none", "active", "revision", "remove"} \cup Files

LEMMA Sends ==
    ASSUME IInv, NEW s \in Slots, NEW arg \in Statuses \cup Verdicts \cup {"none", "kept", "retyped"},
           NEW f \in Files \cup {"none"}, ArgOK(s, [NoCall EXCEPT !.arg = arg, !.file = f]),
           Send(s, arg, f), dialog' \in Dialogs, past' \in {past, past \cup {"blind"}}
    PROVE  IInv'
<1> DEFINE p == IF s[2] = "upload" THEN pages["docs"].profile ELSE 0
           v == IF s[2] = "status" THEN pages["review"].vendor ELSE NoCall.got.vendor
           c == [NoCall EXCEPT !.st = "sent", !.arg = arg, !.file = f,
                               !.prof = p, !.got.vendor = v]
<1>1. NoCall \in CallRow
  BY DEF NoCall, CallRow, Stages, NoRow, VendorRow, Statuses, NoDetail, DetailRow
<1>2. p \in Nat /\ v \in VendorRow
  <2>1. pages["docs"].profile \in Nat /\ pages["review"].vendor \in VendorRow
    BY DEF IInv, TypeOK, Typed, Pages, DetailRow
  <2>2. NoCall.got.vendor \in VendorRow
    BY <1>1 DEF CallRow, DetailRow
  <2> QED
    BY <2>1, <2>2
<1>3. calls' = [calls EXCEPT ![s] = c]
  BY DEF Send
<1> HIDE DEF p, v
<1>4. /\ c \in CallRow
      /\ c.st = "sent" /\ c.arg = arg /\ c.file = f /\ c.copy = NoRow
  <2>1. c.got \in DetailRow
    BY <1>1, <1>2 DEF CallRow, DetailRow
  <2>2. c \in CallRow
    BY <1>1, <1>2, <2>1 DEF CallRow, Stages
  <2>3. c.st = "sent" /\ c.arg = arg /\ c.file = f /\ c.copy = NoRow
    BY DEF NoCall
  <2> QED
    BY <2>2, <2>3
<1> HIDE DEF c
<1>5. CallOK(s, c)
  BY <1>1, <1>4 DEF CallOK, ArgOK, Sound, NoRow, CallRow, NoCall
<1>6. /\ UNCHANGED <<vendor, profile, made, files, pages, open, stale>>
      /\ used' \in [calls : Nat, faults : Nat]
  BY DEF Send, rows, IInv, TypeOK, Typed
<1>7. Typed' /\ past \subseteq past'
  BY <1>6 DEF IInv, TypeOK, Typed, Dialogs
<1>8. calls[s].st # "gone"
  BY DEF Send, Idle
<1> QED
  BY <1>3, <1>4, <1>5, <1>6, <1>7, <1>8, Quiets

\* A dialog is opened or closed.
LEMMA Asks ==
    ASSUME IInv, dialog' \in Dialogs,
           UNCHANGED <<rows, pages, open, calls, stale, past, used>>
    PROVE  IInv'
<1>1. Typed'
  BY DEF IInv, TypeOK, Typed, Dialogs, rows
<1> QED
  BY <1>1, Still

LEMMA UserOK ==
    ASSUME IInv, User
    PROVE  IInv'
<1> USE SlotsAre, SlotsDiffer
<1>0. dialog \in Dialogs
  BY DEF IInv, TypeOK, Typed, Dialogs
<1>1. ASSUME NEW v \in Statuses, ChooseStatus(v) PROVE IInv'
  <2>1. CASE v \in {"active", "revision"}
    BY <1>1, <2>1, Asks DEF ChooseStatus, Dialogs
  <2>2. CASE v \notin {"active", "revision"}
    <3>1. ArgOK(Status, [NoCall EXCEPT !.arg = v, !.file = "none"])
      BY DEF ArgOK, NoCall
    <3>2. Send(Status, v, "none") /\ dialog' = dialog /\ past' = past
      BY <1>1, <2>2 DEF ChooseStatus, Status
    <3> QED
      BY <1>0, <3>1, <3>2, Sends
  <2> QED
    BY <2>1, <2>2
<1>2. ASSUME ConfirmStatus PROVE IInv'
  <2>1. dialog \in Statuses
    BY <1>2 DEF ConfirmStatus, Statuses
  <2>2. ArgOK(Status, [NoCall EXCEPT !.arg = dialog, !.file = "none"])
    BY <2>1 DEF ArgOK, NoCall
  <2>3. Send(Status, dialog, "none") /\ dialog' = dialog /\ past' = past
    BY <1>2 DEF ConfirmStatus, Status
  <2>4. \A v \in Statuses : /\ Send(Status, v, "none")
                            /\ ArgOK(Status, [NoCall EXCEPT !.arg = v, !.file = "none"])
                            => IInv'
    BY <1>0, <2>3, Sends
  <2> QED
    BY <2>1, <2>2, <2>3, <2>4
<1>3. ASSUME NEW f \in Files, Approve(f) PROVE IInv'
  <2>1. ArgOK(<<"review", "verdict">>, [NoCall EXCEPT !.arg = "approved", !.file = f])
    BY DEF ArgOK, NoCall, Verdicts
  <2>2. <<"review", "verdict">> \in Slots
    BY DEF Slots
  <2> QED
    BY <1>0, <1>3, <2>1, <2>2, Sends DEF Approve, Verdicts
<1>4. ASSUME NEW f \in Files, ConfirmReject(f) PROVE IInv'
  <2>1. ArgOK(<<"review", "verdict">>, [NoCall EXCEPT !.arg = "revision", !.file = f])
    BY DEF ArgOK, NoCall, Verdicts
  <2>2. <<"review", "verdict">> \in Slots
    BY DEF Slots
  <2> QED
    BY <1>0, <1>4, <2>1, <2>2, Sends DEF ConfirmReject, Verdicts
<1>5. ASSUME NEW f \in Files, NEW v \in Verdicts, OwnVerdict(f, v) PROVE IInv'
  <2>1. ArgOK(<<"docs", "verdict">>, [NoCall EXCEPT !.arg = v, !.file = f])
    BY DEF ArgOK, NoCall, Verdicts
  <2>2. <<"docs", "verdict">> \in Slots
    BY DEF Slots
  <2> QED
    BY <1>0, <1>5, <2>1, <2>2, Sends DEF OwnVerdict, Verdicts
<1>6. ASSUME NEW f \in Files, Upload(f) PROVE IInv'
  <2>1. ArgOK(UploadSlot, [NoCall EXCEPT !.arg = "none", !.file = f])
    BY DEF ArgOK, NoCall
  <2>2. /\ Send(UploadSlot, "none", f) /\ dialog' = dialog
        /\ past' \in {past, past \cup {"blind"}}
    BY <1>6 DEF Upload, UploadSlot
  <2> QED
    BY <1>0, <2>1, <2>2, Sends
<1>7. ASSUME NEW f \in Files, Erase(f) PROVE IInv'
  <2>1. ArgOK(EraseSlot, [NoCall EXCEPT !.arg = "none", !.file = f])
    BY DEF ArgOK, NoCall
  <2>2. Send(EraseSlot, "none", f) /\ dialog' = dialog /\ past' = past
    BY <1>7 DEF Erase, EraseSlot
  <2> QED
    BY <1>0, <2>1, <2>2, Sends
<1>8. ASSUME NEW k \in {"kept", "retyped"}, SaveForm(k) PROVE IInv'
  <2>1. ArgOK(Save, [NoCall EXCEPT !.arg = k, !.file = "none"])
    BY DEF ArgOK, NoCall
  <2>2. Send(Save, k, "none") /\ dialog' = dialog /\ past' = past
    BY <1>8 DEF SaveForm, Save
  <2> QED
    BY <1>0, <2>1, <2>2, Sends
<1>9. ASSUME ConfirmRemove PROVE IInv'
  <2>1. ArgOK(Remove, [NoCall EXCEPT !.arg = "none", !.file = "none"])
    BY DEF ArgOK, NoCall
  <2>2. Send(Remove, "none", "none") /\ dialog' = dialog /\ past' = past
    BY <1>9 DEF ConfirmRemove, Remove
  <2> QED
    BY <1>0, <2>1, <2>2, Sends
<1>10. ASSUME NEW f \in Files, OpenReject(f) PROVE IInv'
  BY <1>10, Asks DEF OpenReject, Dialogs
<1>11. ASSUME OpenRemove \/ Cancel PROVE IInv'
  BY <1>11, Asks DEF OpenRemove, Cancel, Dialogs
<1> QED
  BY <1>1, <1>2, <1>3, <1>4, <1>5, <1>6, <1>7, <1>8, <1>9, <1>10, <1>11 DEF User

-----------------------------------------------------------------------------
(* The server.                                                             *)

Frame == UNCHANGED <<pages, open, dialog, used>>

\* What is known of a call that goes on.
LEMMA CallKnown ==
    ASSUME IInv, NEW s \in Slots
    PROVE  calls[s] \in CallRow /\ CallOK(s, calls[s])
BY DEF IInv, TypeOK

\* A call reads.
LEMMA Reads ==
    ASSUME IInv, NEW s \in Slots, NEW c \in CallRow, CallOK(s, c), Goes(s, c),
           UNCHANGED <<rows, past>>, Frame, calls[s].st # "gone"
    PROVE  IInv'
<1>1. Typed'
  BY DEF IInv, TypeOK, Typed, rows, Frame, Goes
<1> QED
  BY <1>1, Quiets DEF rows, Goes

\* A call ends.
LEMMA StOK ==
    ASSUME IInv, NEW s \in Slots, ~Idle(s), NEW x \in {"done", "refused", "asked", "fetched"}
    PROVE  St(s, x) \in CallRow /\ CallOK(s, St(s, x))
<1>1. /\ St(s, x) \in CallRow
      /\ St(s, x).st = x /\ St(s, x).arg = calls[s].arg /\ St(s, x).file = calls[s].file
      /\ St(s, x).copy = calls[s].copy
  BY CallKnown DEF St, CallRow, Stages
<1> QED
  BY <1>1, CallKnown DEF CallOK, ArgOK, Idle

LEMMA StatusReadOK ==
    ASSUME IInv, NEW s \in Slots, StatusRead(s), Frame
    PROVE  IInv'
<1>1. calls[s] \in CallRow /\ CallOK(s, calls[s]) /\ s = Status /\ calls[s].st = "sent"
  BY CallKnown DEF StatusRead, Status
<1>2. CASE vendor.live
  <2> DEFINE c == [St(s, "read") EXCEPT !.copy = vendor]
  <2>1. vendor \in VendorRow /\ Sound(vendor)
    BY DEF IInv, TypeOK, Typed, RowsOK
  <2>2. /\ c \in CallRow
        /\ c.st = "read" /\ c.arg = calls[s].arg /\ c.file = calls[s].file /\ c.copy = vendor
    BY <1>1, <2>1 DEF St, CallRow, Stages
  <2>3. Goes(s, c)
    BY <1>2 DEF StatusRead
  <2> HIDE DEF c
  <2>4. CallOK(s, c)
    BY <1>1, <2>1, <2>2, SlotsDiffer DEF CallOK, ArgOK
  <2> QED
    BY <1>1, <2>2, <2>3, <2>4, Reads DEF StatusRead
<1>3. CASE ~vendor.live
  <2>1. Goes(s, St(s, "refused"))
    BY <1>3 DEF StatusRead, Ended
  <2> QED
    BY <1>1, <2>1, StOK, Reads DEF StatusRead, Idle
<1> QED
  BY <1>2, <1>3

LEMMA StatusCheckOK ==
    ASSUME IInv, NEW s \in Slots, StatusCheck(s), Frame
    PROVE  IInv'
<1>1. calls[s] \in CallRow /\ CallOK(s, calls[s]) /\ s = Status /\ calls[s].st = "read"
  BY CallKnown DEF StatusCheck, Status
<1>2. CASE profile # 0 /\ Checked
  <2> DEFINE c == [St(s, "checked") EXCEPT !.moved = {}]
  <2>1. \A f \in Files : files[f].live /\ files[f].of = made => files[f].st = "approved"
    BY <1>2 DEF Checked, OnFile, IInv, RowsOK
  <2>2. /\ c \in CallRow
        /\ c.st = "checked" /\ c.arg = calls[s].arg /\ c.file = calls[s].file
        /\ c.copy = calls[s].copy /\ c.moved = {}
    BY <1>1 DEF St, CallRow, Stages
  <2>3. Goes(s, c)
    BY <1>2 DEF StatusCheck
  <2> HIDE DEF c
  <2>4. CallOK(s, c)
    BY <1>1, <2>1, <2>2, SlotsDiffer DEF CallOK, ArgOK
  <2> QED
    BY <1>1, <2>2, <2>3, <2>4, Reads DEF StatusCheck
<1>3. CASE ~(profile # 0 /\ Checked)
  <2>1. Goes(s, St(s, "refused"))
    BY <1>3 DEF StatusCheck, Ended
  <2> QED
    BY <1>1, <2>1, StOK, Reads DEF StatusCheck, Idle
<1> QED
  BY <1>2, <1>3

LEMMA VerdictReadOK ==
    ASSUME IInv, NEW s \in Slots, VerdictRead(s), Frame
    PROVE  IInv'
<1>1. calls[s] \in CallRow /\ CallOK(s, calls[s]) /\ s \in Verdict /\ calls[s].st = "sent"
  BY CallKnown DEF VerdictRead
<1>2. CASE files[calls[s].file].live
  <2>1. St(s, "read") \in CallRow /\ CallOK(s, St(s, "read"))
    BY <1>1, SlotsDiffer DEF St, CallRow, Stages, CallOK, ArgOK
  <2> QED
    BY <1>1, <1>2, <2>1, Reads DEF VerdictRead
<1>3. CASE ~files[calls[s].file].live
  <2>1. Goes(s, St(s, "refused"))
    BY <1>3 DEF VerdictRead, Ended
  <2> QED
    BY <1>1, <2>1, StOK, Reads DEF VerdictRead, Idle
<1> QED
  BY <1>2, <1>3

LEMMA EraseReadOK ==
    ASSUME IInv, NEW s \in Slots, EraseRead(s), Frame
    PROVE  IInv'
<1>1. calls[s] \in CallRow /\ CallOK(s, calls[s]) /\ s = EraseSlot /\ calls[s].st = "sent"
  BY CallKnown DEF EraseRead, EraseSlot
<1>2. CASE files[calls[s].file].live
  <2>1. St(s, "read") \in CallRow /\ CallOK(s, St(s, "read"))
    BY <1>1, SlotsDiffer DEF St, CallRow, Stages, CallOK, ArgOK
  <2> QED
    BY <1>1, <1>2, <2>1, Reads DEF EraseRead
<1>3. CASE ~files[calls[s].file].live
  <2>1. Goes(s, St(s, "refused"))
    BY <1>3 DEF EraseRead, Ended
  <2> QED
    BY <1>1, <2>1, StOK, Reads DEF EraseRead, Idle
<1> QED
  BY <1>2, <1>3

LEMMA RemoveReadOK ==
    ASSUME IInv, NEW s \in Slots, RemoveRead(s), Frame
    PROVE  IInv'
<1>1. calls[s] \in CallRow /\ CallOK(s, calls[s]) /\ s = Remove /\ calls[s].st = "sent"
  BY CallKnown DEF RemoveRead, Remove
<1>2. CASE vendor.live
  <2>1. St(s, "read") \in CallRow /\ CallOK(s, St(s, "read"))
    BY <1>1, SlotsDiffer DEF St, CallRow, Stages, CallOK, ArgOK
  <2> QED
    BY <1>1, <1>2, <2>1, Reads DEF RemoveRead
<1>3. CASE ~vendor.live
  <2>1. Goes(s, St(s, "refused"))
    BY <1>3 DEF RemoveRead, Ended
  <2> QED
    BY <1>1, <2>1, StOK, Reads DEF RemoveRead, Idle
<1> QED
  BY <1>2, <1>3

LEMMA FormReadOK ==
    ASSUME IInv, NEW s \in Slots, FormRead(s), Frame
    PROVE  IInv'
<1>1. calls[s] \in CallRow /\ CallOK(s, calls[s]) /\ s = Save /\ calls[s].st = "sent"
  BY CallKnown DEF FormRead, Save
<1>2. CASE vendor.live
  <2> DEFINE x == IF calls[s].arg = "retyped" THEN "read" ELSE "typed"
             c == [St(s, x) EXCEPT !.copy = vendor, !.over = FALSE]
  <2>1. vendor \in VendorRow /\ Sound(vendor)
    BY DEF IInv, TypeOK, Typed, RowsOK
  <2>2. /\ c \in CallRow
        /\ c.st \in {"read", "typed"} /\ c.arg = calls[s].arg /\ c.file = calls[s].file
        /\ c.copy = vendor
    <3>1. x \in {"read", "typed"} /\ x \in Stages
      BY DEF Stages
    <3> HIDE DEF x
    <3>2. St(s, x) \in CallRow
      BY <1>1, <3>1 DEF St, CallRow
    <3>3. c \in CallRow
      BY <2>1, <3>2 DEF CallRow
    <3>4. c.st = x /\ c.arg = calls[s].arg /\ c.file = calls[s].file /\ c.copy = vendor
      BY <1>1 DEF St, CallRow
    <3> QED
      BY <3>1, <3>3, <3>4
  <2>3. Goes(s, c)
    BY <1>2 DEF FormRead
  <2> HIDE DEF c, x
  <2>4. CallOK(s, c)
    BY <1>1, <1>2, <2>1, <2>2, SlotsDiffer DEF CallOK, ArgOK
  <2> QED
    BY <1>1, <2>2, <2>3, <2>4, Reads DEF FormRead
<1>3. CASE ~vendor.live
  <2>1. Goes(s, St(s, "done"))
    BY <1>3 DEF FormRead, Ended
  <2> QED
    BY <1>1, <2>1, StOK, Reads DEF FormRead, Idle
<1> QED
  BY <1>2, <1>3

LEMMA FormReadProfileOK ==
    ASSUME IInv, NEW s \in Slots, FormReadProfile(s), Frame
    PROVE  IInv'
<1>1. calls[s] \in CallRow /\ CallOK(s, calls[s]) /\ s = Save /\ calls[s].st = "typed"
  BY CallKnown DEF FormReadProfile, Save
<1> DEFINE c == [St(s, "checked") EXCEPT !.prof = profile]
<1>2. profile \in Nat /\ profile \in {0, made}
  BY DEF IInv, TypeOK, Typed, RowsOK
<1>3. /\ c \in CallRow
      /\ c.st = "checked" /\ c.arg = calls[s].arg /\ c.file = calls[s].file
      /\ c.copy = calls[s].copy /\ c.over = calls[s].over /\ c.prof = profile
  BY <1>1, <1>2 DEF St, CallRow, Stages
<1>4. Goes(s, c)
  BY DEF FormReadProfile
<1> HIDE DEF c
<1>5. CallOK(s, c)
  BY <1>1, <1>2, <1>3, SlotsDiffer DEF CallOK, ArgOK
<1> QED
  BY <1>1, <1>3, <1>4, <1>5, Reads DEF FormReadProfile

-----------------------------------------------------------------------------
(* The server writes.                                                      *)

\* A write tells no other call to go on.
LEMMA ToldStays ==
    ASSUME IInv, NEW s \in Slots, NEW c, NEW docs, NEW row, Wrote(s, c, docs, row),
           NEW t \in Slots, t # s
    PROVE  calls'[t].st = calls[t].st
<1>1. calls[t] \in CallRow
  BY CallKnown
<1> QED
  BY <1>1 DEF Wrote, CallRow

\* A vendor stays whole when a step of another call than the deletion leaves
\* alone whether there are a vendor and a profile, or is remembered.
LEMMA StaysWhole ==
    ASSUME IInv, NEW s \in Slots, s # Remove, NEW c, NEW docs, NEW row,
           Wrote(s, c, docs, row), past \subseteq past',
           \/ vendor'.live = vendor.live /\ (profile' = 0 <=> profile = 0)
           \/ vendor'.live /\ profile' # 0
           \/ "revived" \in past'
    PROVE  WholeVendor'
<1>1. calls'[Remove].st = calls[Remove].st
  BY ToldStays, SlotsAre
<1>2. WholeVendor
  BY DEF IInv, RowsOK
<1> QED
  BY <1>1, <1>2 DEF WholeVendor, Remove

LEMMA BackKeeps ==
    ASSUME IInv, NEW b \in BOOLEAN, Back(b)
    PROVE  /\ past \subseteq past' /\ past' \subseteq {"blind", "revived", "broken", "orphan"}
           /\ b => "revived" \in past'
BY DEF Back, IInv, TypeOK, Typed

\* The vendor's row is saved, deleted meanwhile or not.
LEMMA RowSaved ==
    ASSUME IInv, NEW s \in Slots, s # Remove, NEW c \in CallRow, CallOK(s, c)',
           Wrote(s, c, {}, TRUE), Frame, Back(~vendor.live),
           vendor' \in VendorRow, vendor'.live, Sound(vendor'),
           UNCHANGED <<profile, made, files>>
    PROVE  IInv'
<1>1. /\ past \subseteq past' /\ past' \subseteq {"blind", "revived", "broken", "orphan"}
      /\ ~vendor.live => "revived" \in past'
  BY BackKeeps
<1>2. Typed'
  BY <1>1 DEF IInv, TypeOK, Typed, Frame, Wrote
<1>3. vendor \in VendorRow
  BY DEF IInv, TypeOK, Typed
<1>4. WholeVendor'
  <2>1. vendor'.live = vendor.live \/ "revived" \in past'
    BY <1>1, <1>3 DEF VendorRow
  <2> QED
    BY <1>1, <2>1, StaysWhole
<1>5. RowsOK'
  BY <1>4 DEF IInv, RowsOK, Sound
<1>6. Steady({}, TRUE)
  BY DEF Steady
<1>7. StaysGone
  BY <1>1 DEF StaysGone, Overlapped
<1> QED
  BY <1>2, <1>5, <1>6, <1>7, Writes

LEMMA StatusSaveOK ==
    ASSUME IInv, NEW s \in Slots, StatusSave(s), Frame
    PROVE  IInv'
<1>1. /\ calls[s] \in CallRow /\ CallOK(s, calls[s]) /\ s = Status
      /\ calls[s].st \in {"read", "checked"}
  BY CallKnown DEF StatusSave, Status
<1> DEFINE row == Decided(calls[s].copy, calls[s].arg)
<1>2. row \in VendorRow /\ row.live /\ Sound(row)
  <2>1. calls[s].copy \in VendorRow /\ calls[s].arg \in Statuses
    BY <1>1 DEF CallOK, ArgOK, CallRow
  <2>2. row \in VendorRow
    BY <2>1 DEF Decided, VendorRow
  <2>3. /\ row.live /\ row.status = calls[s].arg
        /\ row.reason = (calls[s].arg = "revision")
        /\ calls[s].arg = "active" => row.code
    BY <2>1 DEF Decided, VendorRow
  <2> QED
    BY <2>2, <2>3 DEF Sound
<1>3. PICK c \in CallRow : c = [St(s, "done") EXCEPT !.copy = row, !.over = FALSE]
  BY <1>1, <1>2 DEF St, CallRow, Stages
<1>4. c.st = "done" /\ c.copy = row /\ c.arg = calls[s].arg /\ c.file = calls[s].file
  BY <1>1, <1>2, <1>3 DEF St, CallRow
<1>5. vendor' = row /\ Wrote(s, c, {}, TRUE)
  BY <1>3 DEF StatusSave
<1> HIDE DEF row
<1>6. CallOK(s, c)'
  BY <1>1, <1>2, <1>4, SlotsDiffer DEF CallOK, ArgOK
<1> QED
  BY <1>1, <1>2, <1>3, <1>5, <1>6, SlotsDiffer, RowSaved DEF StatusSave

LEMMA FormRetypeOK ==
    ASSUME IInv, NEW s \in Slots, FormRetype(s), Frame
    PROVE  IInv'
<1>1. calls[s] \in CallRow /\ CallOK(s, calls[s]) /\ s = Save /\ calls[s].st = "read"
  BY CallKnown DEF FormRetype, Save
<1>2. vendor' = calls[s].copy /\ vendor' \in VendorRow /\ vendor'.live /\ Sound(vendor')
  BY <1>1 DEF FormRetype, CallOK, CallRow
<1>3. PICK c \in CallRow : c = St(s, "typed")
  BY <1>1 DEF St, CallRow, Stages
<1>4. /\ c.st = "typed" /\ c.copy = calls[s].copy /\ c.arg = calls[s].arg
      /\ c.file = calls[s].file
  BY <1>1, <1>3 DEF St, CallRow
<1>5. Wrote(s, c, {}, TRUE)
  BY <1>3 DEF FormRetype
<1>6. CallOK(s, c)'
  BY <1>1, <1>2, <1>4, SlotsDiffer DEF CallOK, ArgOK
<1> QED
  BY <1>1, <1>2, <1>3, <1>5, <1>6, SlotsDiffer, RowSaved DEF FormRetype

LEMMA FormBackOK ==
    ASSUME IInv, NEW s \in Slots, FormBack(s), Frame
    PROVE  IInv'
<1>1. calls[s] \in CallRow /\ CallOK(s, calls[s]) /\ s = Save /\ calls[s].st = "saved"
  BY CallKnown DEF FormBack, Save
<1>2. vendor' \in VendorRow /\ vendor'.live /\ Sound(vendor')
  BY <1>1 DEF FormBack, ReviewAgain, CallOK, CallRow, VendorRow, Sound, Statuses
<1>3. PICK c \in CallRow : c = St(s, "done")
  BY <1>1 DEF St, CallRow, Stages
<1>4. /\ c.st = "done" /\ c.copy = calls[s].copy /\ c.arg = calls[s].arg
      /\ c.file = calls[s].file
  BY <1>1, <1>3 DEF St, CallRow
<1>5. Wrote(s, c, {}, TRUE)
  BY <1>3 DEF FormBack
<1>6. CallOK(s, c)'
  BY <1>1, <1>2, <1>4, SlotsDiffer DEF CallOK, ArgOK
<1> QED
  BY <1>1, <1>2, <1>3, <1>5, <1>6, SlotsDiffer, RowSaved DEF FormBack

\* A document is written.
LEMMA DocWritten ==
    ASSUME IInv, NEW s \in Slots, s # Remove, NEW c \in CallRow, CallOK(s, c)',
           NEW f \in Files, NEW x \in FileRow, x.of <= made,
           files' = [files EXCEPT ![f] = x], Wrote(s, c, {f}, FALSE), Frame,
           past \subseteq past', past' \subseteq {"blind", "revived", "broken", "orphan"},
           UNCHANGED <<vendor, profile, made>>
    PROVE  IInv'
<1>1. Typed'
  BY DEF IInv, TypeOK, Typed, Frame, Wrote
<1>2. WholeVendor'
  BY StaysWhole
<1>3. \A g \in Files : files'[g].of <= made
  BY DEF IInv, TypeOK, Typed, RowsOK
<1>4. RowsOK'
  BY <1>2, <1>3 DEF IInv, RowsOK, Sound
<1>5. Steady({f}, FALSE)
  BY DEF Steady, IInv, TypeOK, Typed
<1>6. StaysGone
  BY DEF StaysGone, Overlapped
<1> QED
  BY <1>1, <1>4, <1>5, <1>6, Writes

LEMMA VerdictSaveOK ==
    ASSUME IInv, NEW s \in Slots, VerdictSave(s), Frame
    PROVE  IInv'
<1>1. /\ calls[s] \in CallRow /\ CallOK(s, calls[s]) /\ s \in Verdict
      /\ calls[s].st = "read"
  BY CallKnown DEF VerdictSave
<1> DEFINE f == calls[s].file
           x == [files[f] EXCEPT !.st = calls[s].arg, !.live = TRUE]
<1>2. f \in Files /\ files[f] \in FileRow /\ files[f].of <= made
  BY <1>1 DEF CallOK, ArgOK, IInv, TypeOK, Typed, RowsOK
<1>3. x \in FileRow /\ x.of <= made
  BY <1>1, <1>2 DEF FileRow, CallOK, ArgOK
<1>4. files' = [files EXCEPT ![f] = x]
  BY DEF VerdictSave
<1>5. past \subseteq past' /\ past' \subseteq {"blind", "revived", "broken", "orphan"}
  BY <1>2, BackKeeps DEF VerdictSave, FileRow
<1>6. PICK c \in CallRow : c = St(s, "done")
  BY <1>1 DEF St, CallRow, Stages
<1>7. c.st = "done" /\ c.copy = calls[s].copy /\ c.arg = calls[s].arg /\ c.file = calls[s].file
  BY <1>1, <1>6 DEF St, CallRow
<1>8. CallOK(s, c)'
  BY <1>1, <1>7, SlotsDiffer DEF CallOK, ArgOK
<1> HIDE DEF x
<1> QED
  BY <1>1, <1>2, <1>3, <1>4, <1>5, <1>8, <1>6, SlotsDiffer, DocWritten DEF VerdictSave

LEMMA UploadInsertOK ==
    ASSUME IInv, NEW s \in Slots, UploadInsert(s), Frame
    PROVE  IInv'
<1>1. /\ calls[s] \in CallRow /\ CallOK(s, calls[s]) /\ s = UploadSlot
      /\ calls[s].st = "read"
  BY CallKnown DEF UploadInsert, UploadSlot
<1>2. calls[s].file \in Files /\ calls[s].prof \in Nat /\ calls[s].prof <= made
  BY <1>1 DEF CallOK, ArgOK, CallRow
<1> DEFINE x == Stored("pending", calls[s].prof)
<1>3. x \in FileRow /\ x.of <= made
  BY <1>2 DEF FileRow, Stored
<1>4. PICK c \in CallRow : c = St(s, "done")
  BY <1>1 DEF St, CallRow, Stages
<1>5. c.st = "done" /\ c.copy = calls[s].copy /\ c.arg = calls[s].arg /\ c.file = calls[s].file
  BY <1>1, <1>4 DEF St, CallRow
<1>6. CallOK(s, c)'
  BY <1>1, <1>5, SlotsDiffer DEF CallOK, ArgOK
<1>7. past' = past /\ past \subseteq {"blind", "revived", "broken", "orphan"}
  BY DEF UploadInsert, IInv, TypeOK, Typed
<1> QED
  BY <1>1, <1>2, <1>3, <1>6, <1>7, <1>4, SlotsDiffer, DocWritten DEF UploadInsert

LEMMA EraseRowOK ==
    ASSUME IInv, NEW s \in Slots, EraseRow(s), Frame
    PROVE  IInv'
<1>1. /\ calls[s] \in CallRow /\ CallOK(s, calls[s]) /\ s = EraseSlot
      /\ calls[s].st = "read"
  BY CallKnown DEF EraseRow, EraseSlot
<1> DEFINE f == calls[s].file
           x == [files[f] EXCEPT !.live = FALSE]
<1>2. f \in Files /\ files[f] \in FileRow /\ files[f].of <= made
  BY <1>1 DEF CallOK, ArgOK, IInv, TypeOK, Typed, RowsOK
<1>3. x \in FileRow /\ x.of <= made
  BY <1>2 DEF FileRow
<1>4. files' = [files EXCEPT ![f] = x]
  BY DEF EraseRow
<1>5. PICK c \in CallRow : c = St(s, "gone")
  BY <1>1 DEF St, CallRow, Stages
<1>6. c.st = "gone" /\ c.copy = calls[s].copy /\ c.arg = calls[s].arg /\ c.file = calls[s].file
  BY <1>1, <1>5 DEF St, CallRow
<1>7. CallOK(s, c)'
  BY <1>1, <1>6, SlotsDiffer DEF CallOK, ArgOK
<1>8. past' = past /\ past \subseteq {"blind", "revived", "broken", "orphan"}
  BY DEF EraseRow, IInv, TypeOK, Typed
<1> HIDE DEF x
<1> QED
  BY <1>1, <1>2, <1>3, <1>4, <1>7, <1>8, <1>5, SlotsDiffer, DocWritten DEF EraseRow

\* An object is put or removed: no row changes.
LEMMA ObjectMoved ==
    ASSUME IInv, NEW s \in Slots, calls[s].st # "gone" \/ s # Remove,
           NEW f \in Files, NEW b \in BOOLEAN,
           NEW c \in CallRow, CallOK(s, c), Goes(s, c), Frame,
           files' = [files EXCEPT ![f].object = b],
           UNCHANGED <<vendor, profile, made, past>>
    PROVE  IInv'
<1>1. files' \in [Files -> FileRow]
  BY DEF IInv, TypeOK, Typed, FileRow
<1>2. \A g \in Files : /\ files'[g].st = files[g].st
                       /\ files'[g].live = files[g].live
                       /\ files'[g].of = files[g].of
  BY DEF IInv, TypeOK, Typed, FileRow
<1>3. Typed'
  BY <1>1 DEF IInv, TypeOK, Typed, Frame, Goes
<1> QED
  BY <1>2, <1>3, Quiets DEF Goes

LEMMA UploadStoreOK ==
    ASSUME IInv, NEW s \in Slots, UploadStore(s), Frame
    PROVE  IInv'
<1>1. calls[s] \in CallRow /\ CallOK(s, calls[s]) /\ s = UploadSlot /\ calls[s].st = "sent"
  BY CallKnown DEF UploadStore, UploadSlot
<1>2. CASE profile # 0 /\ calls[s].prof = profile
  <2>1. St(s, "read") \in CallRow
    BY <1>1 DEF St, CallRow, Stages
  <2>2. St(s, "read") = [calls[s] EXCEPT !.st = "read"] /\ profile = made /\ made \in Nat
    BY <1>2 DEF St, IInv, TypeOK, Typed, RowsOK
  <2>3. CallOK(s, St(s, "read"))
    BY <1>1, <1>2, <2>2, SlotsDiffer DEF CallRow, CallOK, ArgOK
  <2>4. calls[s].file \in Files
    BY <1>1 DEF CallOK, ArgOK
  <2> QED
    BY <1>1, <1>2, <2>1, <2>3, <2>4, ObjectMoved DEF UploadStore
<1>3. CASE ~(profile # 0 /\ calls[s].prof = profile)
  <2>1. Goes(s, St(s, "refused")) /\ UNCHANGED <<rows, past>>
    BY <1>3 DEF UploadStore, Ended, rows
  <2> QED
    BY <1>1, <2>1, StOK, Reads DEF Idle
<1> QED
  BY <1>2, <1>3

LEMMA EraseObjectOK ==
    ASSUME IInv, NEW s \in Slots, EraseObject(s), Frame
    PROVE  IInv'
<1>1. calls[s] \in CallRow /\ CallOK(s, calls[s]) /\ s = EraseSlot /\ calls[s].st = "gone"
  BY CallKnown DEF EraseObject, EraseSlot
<1>2. calls[s].file \in Files
  BY <1>1 DEF CallOK, ArgOK
<1>3. St(s, "done") \in CallRow /\ CallOK(s, St(s, "done"))
  BY <1>1, StOK DEF Idle
<1> QED
  BY <1>1, <1>2, <1>3, SlotsDiffer, ObjectMoved DEF EraseObject

LEMMA RemoveProfileOK ==
    ASSUME IInv, NEW s \in Slots, RemoveProfile(s), Frame
    PROVE  IInv'
<1>1. calls[s] \in CallRow /\ CallOK(s, calls[s]) /\ s = Remove /\ calls[s].st = "read"
  BY CallKnown DEF RemoveProfile, Remove
<1>2. PICK c \in CallRow : c = St(s, "gone")
  BY <1>1 DEF St, CallRow, Stages
<1>3. c.st = "gone" /\ c.copy = calls[s].copy
  BY <1>1, <1>2 DEF St, CallRow
<1>4. profile' = 0 /\ Wrote(s, c, {}, FALSE) /\ UNCHANGED <<vendor, made, files, past>>
  BY <1>2 DEF RemoveProfile
<1>5. CallOK(s, c)'
  BY <1>1, <1>3, <1>4, SlotsDiffer DEF CallOK, ArgOK
<1>6. Typed'
  BY <1>4 DEF IInv, TypeOK, Typed, Frame, Wrote
<1>7. calls'[Remove].st = "gone"
  BY <1>1, <1>3, <1>4 DEF Wrote
<1>8. RowsOK'
  BY <1>4, <1>7 DEF IInv, RowsOK, Sound, WholeVendor, Remove
<1>9. Steady({}, FALSE) /\ StaysGone
  BY <1>4 DEF Steady, StaysGone
<1> QED
  BY <1>4, <1>5, <1>6, <1>8, <1>9, Writes

LEMMA RemoveVendorOK ==
    ASSUME IInv, NEW s \in Slots, RemoveVendor(s), Frame
    PROVE  IInv'
<1>1. calls[s] \in CallRow /\ CallOK(s, calls[s]) /\ s = Remove /\ calls[s].st = "gone"
  BY CallKnown DEF RemoveVendor, Remove
<1>2. PICK c \in CallRow : c = St(s, "done")
  BY <1>1 DEF St, CallRow, Stages
<1>3. c.st = "done" /\ c.copy = calls[s].copy
  BY <1>1, <1>2 DEF St, CallRow
<1>4. /\ vendor' = [vendor EXCEPT !.live = FALSE]
      /\ Wrote(s, c, {}, TRUE) /\ UNCHANGED <<profile, made, files, past>>
  BY <1>2 DEF RemoveVendor
<1>5. CallOK(s, c)'
  BY <1>1, <1>3, <1>4, SlotsDiffer DEF CallOK, ArgOK
<1>6. vendor' \in VendorRow /\ ~vendor'.live /\ Sound(vendor')
  BY <1>4 DEF IInv, TypeOK, Typed, RowsOK, VendorRow, Sound
<1>7. Typed'
  BY <1>4, <1>6 DEF IInv, TypeOK, Typed, Frame, Wrote
<1>8. profile = 0 \/ Overlapped
  BY <1>1 DEF CallOK
<1>9. WholeVendor'
  BY <1>4, <1>6, <1>8 DEF WholeVendor, Overlapped
<1>10. RowsOK'
  BY <1>4, <1>6, <1>9 DEF IInv, RowsOK, Sound
<1>11. Steady({}, TRUE) /\ StaysGone
  BY <1>4, <1>8 DEF Steady, StaysGone, Overlapped
<1> QED
  BY <1>4, <1>5, <1>7, <1>10, <1>11, Writes

LEMMA FormSaveProfileOK ==
    ASSUME IInv, NEW s \in Slots, FormSaveProfile(s), Frame
    PROVE  IInv'
<1>1. calls[s] \in CallRow /\ CallOK(s, calls[s]) /\ s = Save /\ calls[s].st = "checked"
  BY CallKnown DEF FormSaveProfile, Save
<1>2. calls[s].prof \in {0, made} /\ made \in Nat /\ profile \in Nat
  BY <1>1 DEF CallOK, IInv, TypeOK, Typed
<1>3. PICK c \in CallRow : c = IF LooksAgain(calls[s].copy) THEN St(s, "saved")
                                                       ELSE Ended(s, TRUE)
  BY <1>1 DEF St, Ended, CallRow, Stages
<1>4. /\ c.st \in {"saved", "done"} /\ c.copy = calls[s].copy /\ c.over = calls[s].over
      /\ c.st = "saved" => c.copy.status = "revision"
  BY <1>1, <1>3 DEF St, Ended, CallRow, LooksAgain
<1>5. Wrote(s, c, {}, FALSE) /\ vendor' = vendor /\ files' = files
  BY <1>3 DEF FormSaveProfile
<1>6. CallOK(s, c)'
  BY <1>1, <1>4, <1>5, SlotsDiffer DEF CallOK, ArgOK
<1>7. profile' \in {0, made'} /\ made' \in {made, made + 1} /\ profile' # 0 /\ profile' \in Nat
  BY <1>2 DEF FormSaveProfile
<1>8. /\ past \subseteq past' /\ past' \subseteq {"blind", "revived", "broken", "orphan"}
      /\ ~vendor.live \/ ~Idle(Remove) => "revived" \in past'
  BY BackKeeps DEF FormSaveProfile, Remove, Idle
<1>9. Typed'
  BY <1>2, <1>5, <1>7, <1>8 DEF IInv, TypeOK, Typed, Frame, Wrote
<1>10. WholeVendor'
  BY <1>1, <1>5, <1>7, <1>8, SlotsDiffer, StaysWhole
<1>11. RowsOK'
  BY <1>2, <1>5, <1>7, <1>10 DEF IInv, RowsOK, Sound, TypeOK, Typed, FileRow
<1>12. Steady({}, FALSE)
  BY <1>5, <1>7 DEF Steady
<1>13. calls[Remove].st = "gone" => StaysGone
  BY <1>8 DEF StaysGone, Overlapped, Idle
<1> QED
  BY <1>1, <1>5, <1>6, <1>9, <1>11, <1>12, <1>13, Writes

LEMMA ServeOK ==
    ASSUME IInv, NEW s \in Slots, Serve(s)
    PROVE  IInv'
<1>1. Frame
  BY DEF Serve, Frame
<1> QED
  BY <1>1, StatusReadOK, StatusCheckOK, StatusSaveOK, VerdictReadOK, VerdictSaveOK,
     UploadStoreOK, UploadInsertOK, EraseReadOK, EraseRowOK, EraseObjectOK,
     RemoveReadOK, RemoveProfileOK, RemoveVendorOK,
     FormReadOK, FormRetypeOK, FormReadProfileOK, FormSaveProfileOK, FormBackOK
  DEF Serve

-----------------------------------------------------------------------------
(* Failures and answers.                                                   *)

LEMMA FailsOK ==
    ASSUME IInv, NEW s \in Slots, Fails(s)
    PROVE  IInv'
<1>1. calls[s] \in CallRow /\ CallOK(s, calls[s]) /\ ~Idle(s)
  BY CallKnown DEF Fails, Idle
<1> DEFINE x == IF s[2] = "erase" /\ calls[s].st = "gone" THEN "done" ELSE "refused"
<1>2. St(s, x) \in CallRow /\ CallOK(s, St(s, x))
  BY <1>1, StOK
<1>3. calls' = [calls EXCEPT ![s] = St(s, x)]
  BY <1>1 DEF Fails, St, IInv, TypeOK
<1>4. /\ files' \in [Files -> FileRow]
      /\ \A g \in Files : /\ files'[g].st = files[g].st
                          /\ files'[g].live = files[g].live
                          /\ files'[g].of = files[g].of
  <2>1. files \in [Files -> FileRow]
    BY DEF IInv, TypeOK, Typed
  <2>2. CASE files' = files
    BY <2>1, <2>2
  <2>3. CASE files' = [files EXCEPT ![calls[s].file].object = FALSE]
    <3>1. files' \in [Files -> FileRow]
      BY <2>1, <2>3 DEF FileRow
    <3>2. ASSUME NEW g \in Files
          PROVE  /\ files'[g].st = files[g].st
                 /\ files'[g].live = files[g].live
                 /\ files'[g].of = files[g].of
      BY <2>1, <2>3 DEF FileRow
    <3> QED
      BY <3>1, <3>2
  <2> QED
    BY <2>2, <2>3 DEF Fails, CleanedUp
<1>5. /\ past \subseteq past' /\ past' \subseteq {"blind", "revived", "broken", "orphan"}
      /\ s = Remove /\ calls[s].st = "gone" => Overlapped'
  BY SlotsAre DEF Fails, IInv, TypeOK, Typed, Overlapped
<1>6. Typed'
  BY <1>4, <1>5 DEF Fails, Fault, IInv, TypeOK, Typed
<1> HIDE DEF x
<1> QED
  BY <1>2, <1>3, <1>4, <1>5, <1>6, Quiets DEF Fails

LEMMA ProfileUnreadOK ==
    ASSUME IInv, NEW s \in Slots, ProfileUnread(s)
    PROVE  IInv'
<1>1. calls[s] \in CallRow /\ CallOK(s, calls[s]) /\ s = Remove /\ calls[s].st = "read"
  BY CallKnown DEF ProfileUnread, Remove
<1>2. PICK c \in CallRow : c = St(s, "gone")
  BY <1>1 DEF St, CallRow, Stages
<1>3. c.st = "gone" /\ c.copy = calls[s].copy
  BY <1>1, <1>2 DEF St, CallRow
<1>4. /\ calls' = [calls EXCEPT ![s] = c] /\ past' = past \cup {"broken"}
      /\ UNCHANGED <<rows, client, stale>>
  BY <1>2 DEF ProfileUnread, Goes
<1>5. Overlapped' /\ StaysGone
  BY <1>4 DEF Overlapped, StaysGone
<1>6. CallOK(s, c)'
  BY <1>1, <1>3, <1>5, SlotsDiffer DEF CallOK, ArgOK
<1>7. Typed'
  BY <1>4 DEF ProfileUnread, Fault, IInv, TypeOK, Typed, rows, client
<1>8. RowsOK'
  BY <1>4 DEF IInv, RowsOK, Sound, WholeVendor, rows
<1>9. Steady({}, FALSE)
  BY <1>4 DEF Steady, rows
<1> QED
  BY <1>4, <1>5, <1>6, <1>7, <1>8, <1>9, GoesOn DEF rows

LEMMA NoCallOK ==
    ASSUME NEW s \in Slots
    PROVE  NoCall \in CallRow /\ CallOK(s, NoCall)
BY DEF NoCall, CallRow, Stages, NoRow, VendorRow, Statuses, NoDetail, DetailRow, CallOK, Sound

\* An answer is taken, and the call is over.
LEMMA Finishes ==
    ASSUME IInv, NEW s \in Slots, calls[s].st # "gone", Finish(s), UNCHANGED <<rows, past>>,
           pages' \in [Pages -> DetailRow], open' \in BOOLEAN, stale' \in [Pages -> BOOLEAN],
           used' \in [calls : Nat, faults : Nat]
    PROVE  IInv'
<1>1. dialog' \in Dialogs
  BY DEF Finish, IInv, TypeOK, Typed, Dialogs
<1>2. Typed'
  BY <1>1 DEF IInv, TypeOK, Typed, rows, Dialogs
<1>3. calls' = [calls EXCEPT ![s] = NoCall]
  BY DEF Finish
<1> QED
  BY <1>2, <1>3, NoCallOK, Quiets DEF rows

LEMMA DetailOK ==
    ASSUME IInv
    PROVE  Detail \in DetailRow
BY DEF IInv, TypeOK, Typed, Detail, DetailRow, OnFile, FileRow

LEMMA TakeOK ==
    ASSUME IInv, NEW s \in Slots, Take(s) \/ AskFails(s)
    PROVE  IInv'
<1>1. calls[s] \in CallRow /\ CallOK(s, calls[s])
  BY CallKnown
<1>2. /\ pages \in [Pages -> DetailRow] /\ open \in BOOLEAN /\ stale \in [Pages -> BOOLEAN]
      /\ used \in [calls : Nat, faults : Nat]
  BY DEF IInv, TypeOK, Typed
<1>3. ASSUME Refused(s) PROVE IInv'
  BY <1>2, <1>3, Finishes DEF Refused
<1>4. ASSUME AskAgain(s) PROVE IInv'
  <2>1. calls' = [calls EXCEPT ![s] = St(s, "asked")] /\ UNCHANGED <<rows, client, stale, past, used>>
    BY <1>1, <1>4 DEF AskAgain, St, IInv, TypeOK
  <2>2. St(s, "asked") \in CallRow /\ CallOK(s, St(s, "asked"))
    BY <1>4, StOK DEF AskAgain, Idle
  <2>3. Typed'
    BY <2>1 DEF IInv, TypeOK, Typed, rows, client
  <2> QED
    BY <1>4, <2>1, <2>2, <2>3, Quiets DEF rows, AskAgain
<1>5. ASSUME Fetch(s) PROVE IInv'
  <2> DEFINE c == IF vendor.live THEN [calls[s] EXCEPT !.st = "fetched", !.got = Detail, !.late = FALSE]
                  ELSE [calls[s] EXCEPT !.st = "refused"]
  <2>1. calls' = [calls EXCEPT ![s] = c] /\ UNCHANGED <<rows, client, stale, past, used>>
    BY <1>5 DEF Fetch, IInv, TypeOK
  <2>2. /\ c \in CallRow /\ c.st \in {"fetched", "refused"} /\ c.arg = calls[s].arg
        /\ c.file = calls[s].file /\ c.copy = calls[s].copy
    BY <1>1, DetailOK DEF CallRow, Stages
  <2>3. Typed'
    BY <2>1 DEF IInv, TypeOK, Typed, rows, client
  <2> HIDE DEF c
  <2>4. CallOK(s, c)
    BY <1>1, <1>5, <2>2 DEF CallOK, ArgOK, Fetch
  <2> QED
    BY <1>5, <2>1, <2>2, <2>3, <2>4, Quiets DEF rows, Fetch
<1>6. ASSUME Arrives(s) PROVE IInv'
  <2>1. pages' \in [Pages -> DetailRow] /\ stale' \in [Pages -> BOOLEAN]
    BY <1>1, <1>2, <1>6 DEF Arrives, CallRow
  <2> QED
    BY <1>2, <1>6, <2>1, Finishes DEF Arrives
<1>7. ASSUME s[2] = "status", StatusArrives PROVE IInv'
  <2>1. s = Status
    BY <1>7, SlotsAre
  <2> DEFINE row == Patched(calls[s].got.vendor, calls[s].arg, calls[s].copy)
  <2>2. calls[s].st = "done" /\ calls[s].got.vendor \in VendorRow /\ calls[s].arg \in Statuses
    BY <1>1, <1>7, <2>1 DEF StatusArrives, Status, CallRow, DetailRow, CallOK, ArgOK
  <2>3. row \in VendorRow
    BY <1>1, <2>2 DEF Patched, CallRow, VendorRow
  <2>4. /\ pages' = [pages EXCEPT !["review"].vendor = row] /\ open' = open /\ used' = used
        /\ stale' = [stale EXCEPT !["review"] = @ \/ calls[s].over]
        /\ Finish(s) /\ UNCHANGED <<rows, past>>
    BY <1>7, <2>1 DEF StatusArrives, Status
  <2> HIDE DEF row
  <2>5. pages' \in [Pages -> DetailRow] /\ stale' \in [Pages -> BOOLEAN]
    BY <1>1, <1>2, <2>3, <2>4 DEF DetailRow, CallRow, Pages
  <2> QED
    BY <1>2, <2>2, <2>4, <2>5, Finishes
<1>8. ASSUME s[2] = "remove", RemoveArrives PROVE IInv'
  <2>1. s = Remove
    BY <1>8, SlotsAre
  <2>2. calls[s].st = "done" /\ Finish(s) /\ UNCHANGED <<rows, pages, stale, past, used>> /\ ~open'
    BY <1>8, <2>1 DEF RemoveArrives, Remove
  <2> QED
    BY <1>2, <1>8, <2>2, Finishes DEF RemoveArrives
<1>9. ASSUME s[2] = "save", FormArrives PROVE IInv'
  <2>1. s = Save
    BY <1>9, SlotsAre
  <2>2. calls[s].st = "done" /\ Finish(s) /\ UNCHANGED <<rows, pages, open, stale, past, used>>
    BY <1>9, <2>1 DEF FormArrives, Save
  <2> QED
    BY <1>2, <2>2, Finishes
<1>10. ASSUME AskFails(s) PROVE IInv'
  <2>1. used' \in [calls : Nat, faults : Nat]
    BY <1>2, <1>10 DEF AskFails, Fault
  <2>2. stale' = [stale EXCEPT ![s[1]] = TRUE]
    BY <1>10 DEF AskFails
  <2>3. stale' \in [Pages -> BOOLEAN]
    BY <1>2, <2>2
  <2> QED
    BY <1>2, <1>10, <2>1, <2>3, Finishes DEF AskFails
<1> QED
  BY <1>3, <1>4, <1>5, <1>6, <1>7, <1>8, <1>9, <1>10 DEF Take

LEMMA NextOK ==
    ASSUME IInv, [Next]_vars
    PROVE  IInv'
<1>1. CASE UNCHANGED vars
  <2>1. Typed' /\ UNCHANGED <<rows, calls, past>>
    BY <1>1 DEF IInv, TypeOK, Typed, vars, rows, client
  <2> QED
    BY <2>1, Still
<1> QED
  BY <1>1, UserOK, ServeOK, TakeOK, FailsOK, ProfileUnreadOK DEF Next

LEMMA InitOK ==
    ASSUME Init
    PROVE  IInv
<1>1. /\ vendor \in VendorRow /\ vendor.live /\ Sound(vendor)
      /\ profile = 1 /\ made = 1 /\ open = TRUE /\ dialog = "none" /\ past = {}
      /\ calls = [s \in Slots |-> NoCall] /\ stale = [p \in Pages |-> FALSE]
      /\ used = [calls |-> 0, faults |-> 0] /\ pages = [p \in Pages |-> Detail]
  BY ReviewAssumption DEF Init, Sound, VendorRow
<1>2. files \in [Files -> FileRow] /\ \A f \in Files : files[f].of <= made
  <2> DEFINE S == {NoFile} \cup {Stored(x, 1) : x \in {"pending", "approved"}}
  <2>1. NoFile \in FileRow /\ NoFile.of <= 1
    BY DEF FileRow, NoFile
  <2>2. ASSUME NEW x \in {"pending", "approved"}
        PROVE  Stored(x, 1) \in FileRow /\ Stored(x, 1).of <= 1
    BY DEF FileRow, Stored, Verdicts
  <2>3. \A y \in S : y \in FileRow /\ y.of <= 1
    BY <2>1, <2>2
  <2>4. files \in [Files -> S]
    BY DEF Init
  <2> HIDE DEF S
  <2> QED
    BY <1>1, <2>4, <2>3
<1>3. Detail \in DetailRow
  BY <1>1, <1>2 DEF Detail, DetailRow, OnFile, FileRow
<1>4. TypeOK
  BY <1>1, <1>2, <1>3, NoCallOK DEF TypeOK, Typed
<1>5. RowsOK
  BY <1>1, <1>2 DEF RowsOK, WholeVendor
<1> QED
  BY <1>1, <1>4, <1>5, NoCallOK DEF IInv

THEOREM Invariant == Spec => []IInv
<1> QED
  BY InitOK, NextOK, PTL DEF Spec

-----------------------------------------------------------------------------
(* What the invariant is for.                                              *)

\* Every variable keeps its type, whatever calls overlap and fail.
THEOREM TypeCorrect == Spec => []TypeOK
<1>1. IInv => TypeOK
  BY DEF IInv
<1> QED
  BY <1>1, Invariant, PTL

\* Whatever stale rows UpdateVendorStatus and the profile form save, a vendor
\* has a reason for rejection exactly while in revision, and a code when
\* active.
THEOREM CodeAndReasonAlways == Spec => []CodeAndReason
<1>1. IInv => CodeAndReason
  BY DEF IInv, RowsOK, Sound, CodeAndReason
<1> QED
  BY <1>1, Invariant, PTL

\* DeleteVendor leaves no half of a vendor, but for a failure in the middle
\* of it and a save that overlaps it.
THEOREM WholeVendorAlways == Spec => []WholeVendor
<1>1. IInv => WholeVendor
  BY DEF IInv, RowsOK
<1> QED
  BY <1>1, Invariant, PTL

\* Which steps write the vendor's row, and what they write.
LEMMA VendorWritten ==
    ASSUME IInv, Next, vendor' # vendor, vendor'.status # vendor.status
    PROVE  \/ /\ StatusSave(Status)
              /\ vendor'.status = calls[Status].arg
           \/ FormRetype(Save) /\ vendor' = calls[Save].copy
           \/ FormBack(Save) /\ vendor'.status = "verify"
<1>1. ASSUME NEW s \in Slots, Serve(s)
      PROVE  StatusSave(s) \/ FormRetype(s) \/ FormBack(s)
  <2>1. ~RemoveVendor(s)
    BY DEF RemoveVendor, IInv, TypeOK, Typed, VendorRow
  <2> QED
    BY <1>1, <2>1 DEF Serve, StatusRead, StatusCheck, VerdictRead, VerdictSave, UploadStore,
       UploadInsert, EraseRead, EraseRow, EraseObject, RemoveRead, RemoveProfile, FormRead,
       FormReadProfile, FormSaveProfile, rows
<1>2. \A s \in Slots : ~Take(s) /\ ~Fails(s) /\ ~ProfileUnread(s) /\ ~AskFails(s)
  BY DEF Take, Refused, AskAgain, Fetch, Arrives, StatusArrives, RemoveArrives, FormArrives,
     Fails, ProfileUnread, AskFails, rows
<1>3. ~User
  BY DEF User, ChooseStatus, ConfirmStatus, OpenRemove, ConfirmRemove, Cancel, Approve,
     OpenReject, ConfirmReject, Upload, Erase, OwnVerdict, SaveForm, Send, rows
<1>4. PICK s \in Slots : StatusSave(s) \/ FormRetype(s) \/ FormBack(s)
  BY <1>1, <1>2, <1>3 DEF Next
<1>5. calls[s] \in CallRow /\ CallOK(s, calls[s])
  BY CallKnown
<1>6. CASE StatusSave(s)
  <2>1. s = Status
    BY <1>6 DEF StatusSave, Status
  <2>2. vendor'.status = calls[s].arg
    BY <1>5, <1>6 DEF StatusSave, Decided, CallRow, VendorRow
  <2> QED
    BY <1>6, <2>1, <2>2
<1>7. CASE FormRetype(s)
  BY <1>7 DEF FormRetype, Save
<1>8. CASE FormBack(s)
  BY <1>5, <1>8 DEF FormBack, ReviewAgain, Save, CallRow, VendorRow
<1> QED
  BY <1>4, <1>6, <1>7, <1>8

\* Nothing that a check found approved is active unapproved without a write
\* in between: UpdateVendorStatus checks the documents in one call and saves
\* in another, and the profile form saves the whole row.
THEOREM ActivationCheckedAlways == Spec => ActivationChecked
<1> DEFINE Step == vendor'.status = "active" /\ vendor.status # "active" =>
           \/ /\ calls[<<"review", "status">>].st = "checked"
              /\ \A f \in OnFile :
                     \/ files[f].st = "approved"
                     \/ f \in calls[<<"review", "status">>].moved
           \/ calls[<<"form", "save">>].over
<1>1. ASSUME IInv, Next PROVE Step
  <2> SUFFICES ASSUME vendor'.status = "active", vendor.status # "active"
               PROVE  \/ /\ calls[Status].st = "checked"
                         /\ \A f \in OnFile : \/ files[f].st = "approved"
                                              \/ f \in calls[Status].moved
                      \/ calls[Save].over
    BY DEF Status, Save
  <2>1. CASE StatusSave(Status) /\ vendor'.status = calls[Status].arg
    <3>1. calls[Status].st = "checked"
      BY <2>1 DEF StatusSave
    <3>2. \A f \in OnFile : files[f].live /\ files[f].of = made
      BY <1>1 DEF OnFile, IInv, RowsOK
    <3>3. CallOK(Status, calls[Status])
      BY <1>1, SlotsAre, CallKnown
    <3> QED
      BY <3>1, <3>2, <3>3 DEF CallOK, OnFile
  <2>2. CASE FormRetype(Save) /\ vendor' = calls[Save].copy
    <3>1. calls[Save].st = "read" /\ CallOK(Save, calls[Save])
      BY <1>1, <2>2, SlotsAre, CallKnown DEF FormRetype
    <3> QED
      BY <2>2, <3>1 DEF CallOK
  <2> QED
    BY <1>1, <2>1, <2>2, VendorWritten
<1>2. ASSUME IInv, [Next]_vars PROVE [Step]_vars
  BY <1>1, <1>2
<1> HIDE DEF Step
<1>3. Spec => [][Step]_vars
  BY <1>2, Invariant, PTL DEF Spec
<1> QED
  BY <1>3 DEF ActivationChecked, Step

\* CreateOrUpdateVendorProfile takes a vendor from revision back to review,
\* and changes no other status unless it saves a row read before a decision.
THEOREM BackToReviewAlways == Spec => BackToReview
<1> DEFINE Step == vendor'.status # vendor.status /\ Steps(<<"form", "save">>) =>
           \/ vendor.status = "revision" /\ vendor'.status = "verify"
           \/ calls[<<"form", "save">>].over
<1>1. ASSUME IInv, Next PROVE Step
  <2> SUFFICES ASSUME vendor'.status # vendor.status, calls'[Save].st # calls[Save].st
               PROVE  \/ vendor.status = "revision" /\ vendor'.status = "verify"
                      \/ calls[Save].over
    BY DEF Save, Steps
  <2>0. calls[Save] \in CallRow /\ CallOK(Save, calls[Save])
    BY <1>1, SlotsAre, CallKnown
  <2>1. CASE StatusSave(Status)
    <3>1. PICK c : Wrote(Status, c, {}, TRUE)
      BY <2>1 DEF StatusSave
    <3>2. Save \in Slots /\ Status \in Slots /\ Save # Status
      BY SlotsAre, SlotsDiffer
    <3>3. calls'[Save].st = calls[Save].st
      BY <1>1, <3>1, <3>2, ToldStays
    <3> QED
      BY <3>3
  <2>2. CASE FormRetype(Save) /\ vendor' = calls[Save].copy
    BY <2>0, <2>2 DEF CallOK, FormRetype
  <2>3. CASE FormBack(Save) /\ vendor'.status = "verify"
    BY <2>0, <2>3 DEF CallOK, FormBack
  <2> QED
    BY <1>1, <2>1, <2>2, <2>3, VendorWritten
<1>2. ASSUME IInv, [Next]_vars PROVE [Step]_vars
  BY <1>1, <1>2
<1> HIDE DEF Step
<1>3. Spec => [][Step]_vars
  BY <1>2, Invariant, PTL DEF Spec
<1> QED
  BY <1>3 DEF BackToReview, Step
=============================================================================
